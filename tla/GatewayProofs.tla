--------------------------- MODULE GatewayProofs ---------------------------
(***************************************************************************)
(* What the gateway tells a room, in its two accounts, each for any number *)
(* of players and of whatever is in progress, up to the first of the races *)
(* that it names.  Presence: nobody with a socket in the room is counted   *)
(* down, everybody who has lost the last one is, and the room is told of   *)
(* it all in the end.  Screens: in a quiet room everybody sees what it     *)
(* does.  Each is proved from an inductive invariant of its own.           *)
(***************************************************************************)
EXTENDS Presence, Screens, TLAPS

-----------------------------------------------------------------------------
(***************************************************************************)
(* Presence.                                                               *)
(***************************************************************************)
Kinds == {"join", "drop", "evict", "leave", "kick", "vote", "start"}
Stages == {"asked", "admitted", "gone", "fetched", "left", "kicked", "removed", "unvote",
           "state", "picture", "clear votes", "votes", "tally"}
Removals == {"evict", "leave", "kick"}
TaskSet == [kind : Kinds, user : Users, sock : Users \X Nat, at : Stages,
            read : SUBSET (Users \X Nat), seen : SUBSET Users, rev : Nat]

\* The types, whose socket a join brings in, and who gets as far as the
\* clean-up after a removal.
Fits(t) ==
    /\ t.kind = "join" => User(t.sock) = t.user
    /\ t.at \in {"removed", "unvote"} => t.kind \in Removals
Shaped ==
    /\ members \subseteq Users /\ votes \subseteq Users
    /\ roomRev \in Nat /\ voteRev \in Nat /\ wiped \in Nat /\ opened \in Nat
    /\ alive \subseteq Users \X Nat /\ inside \subseteq alive
    /\ entry \in [Users -> {"none", "online", "disconnected"}]
    /\ told \in [members : SUBSET Users, away : SUBSET Users, roomRev : Nat,
                 votes : SUBSET Users, voteRev : Nat]
FitTasks == {t \in TaskSet : Fits(t)}
Typed == Shaped /\ tasks \subseteq FitTasks

\* What was read and told was so at some revision, and is still so at the same.
Picture(t) == t.at = "picture" => t.rev <= roomRev /\ (t.rev = roomRev => t.seen = members)
Tally(t) == t.at = "tally" => t.rev <= voteRev /\ (t.rev = voteRev => t.seen = votes)
ToldWasSo ==
    /\ told.roomRev <= roomRev /\ (told.roomRev = roomRev => told.members = members)
    /\ told.voteRev <= voteRev /\ (told.voteRev = voteRev => told.votes = votes)
    /\ wiped <= voteRev /\ (wiped = voteRev => votes = {})
WasSo == ToldWasSo /\ \A t \in tasks : Picture(t) /\ Tally(t)

AwayHaveNone == \A u \in Users : entry[u] = "disconnected" => Here(u) = {}

\* Whoever is online without a socket has a handler on the way that finds out.
Checks(t) ==
    \/ t.at = "removed"
    \/ t.kind = "drop" /\ t.at = "gone"
    \/ t.kind = "drop" /\ t.at = "fetched" /\ t.read = {}
SomebodyChecks ==
    \A u \in Users : entry[u] = "online" /\ Here(u) = {} => \E t \in tasks : t.user = u /\ Checks(t)

\* Whoever has voted and is gone has a handler on the way that takes it back.
Unvotes(t) == t.at \in {"left", "kicked", "removed", "unvote"}
SomebodyUnvotes ==
    \A u \in votes : u \in members \/ \E t \in tasks : t.user = u /\ Unvotes(t)

\* Whatever the room does not know yet has a handler on the way that tells it:
\* one that has not read yet, or read what is still so.
TellsState(t) ==
    \/ t.at \in {"admitted", "state", "left", "kicked", "removed", "unvote"}
    \/ t.kind = "evict" /\ t.at = "asked"
    \/ t.at = "picture" /\ t.rev = roomRev
KnowsState == told.roomRev = roomRev /\ told.away = Away \cap members
StateIsTold == KnowsState \/ \E t \in tasks : TellsState(t)

TellsVotes(t) ==
    \/ t.at \in {"clear votes", "votes"}
    \/ t.at \in {"state", "picture"} /\ t.kind \notin {"join", "drop", "start"}
    \/ t.at = "tally" /\ t.rev = voteRev
KnowsVotes == told.voteRev = voteRev \/ wiped = voteRev
VotesAreTold == KnowsVotes \/ \E t \in tasks : TellsVotes(t)

Orderly == AwayHaveNone /\ SomebodyChecks /\ SomebodyUnvotes /\ StateIsTold /\ VotesAreTold

PresenceInv == Typed /\ WasSo /\ (raced \/ Orderly)

-----------------------------------------------------------------------------
LEMMA UserFacts ==
    /\ \A s \in Users \X Nat : User(s) \in Users
    /\ \A u \in Users, n \in Nat : <<u, n>> \in Users \X Nat /\ User(<<u, n>>) = u
BY DEF User

LEMMA RevisedFacts ==
    ASSUME NEW rev \in Nat, NEW old, NEW new, NEW r, r = Revised(rev, old, new)
    PROVE  r \in Nat /\ r >= rev /\ (r = rev <=> new = old)
BY DEF Revised

\* The handler that a step begins, and what it leaves of the one it moves
LEMMA Begun ==
    ASSUME NEW kind \in Kinds, NEW u \in Users, NEW s \in Users \X Nat, NEW at \in Stages,
           Begins(Task(kind, u, s, at))
    PROVE  \E n \in TaskSet : /\ tasks' = tasks \cup {n}
                              /\ n.kind = kind /\ n.user = u /\ n.sock = s /\ n.at = at
<1> DEFINE n == Task(kind, u, s, at)
<1>1. n \in TaskSet /\ n.kind = kind /\ n.user = u /\ n.sock = s /\ n.at = at
    BY DEF Task, TaskSet
<1>2. tasks' = tasks \cup {n}
    BY DEF Begins
<1> HIDE DEF n
<1> QED
    BY <1>1, <1>2, Zenon

LEMMA Moved ==
    ASSUME Typed, NEW t \in tasks, NEW at \in Stages, Moves(t, at)
    PROVE  \E n \in TaskSet : /\ tasks' = (tasks \ {t}) \cup {n}
                              /\ n.kind = t.kind /\ n.user = t.user /\ n.sock = t.sock
                              /\ n.at = at
<1> DEFINE n == [t EXCEPT !.at = at]
<1>1. n \in TaskSet /\ n.kind = t.kind /\ n.user = t.user /\ n.sock = t.sock /\ n.at = at
    BY DEF Typed, FitTasks, TaskSet
<1>2. tasks' = (tasks \ {t}) \cup {n}
    BY DEF Moves
<1> HIDE DEF n
<1> QED
    BY <1>1, <1>2, Zenon

LEMMA Kept ==
    ASSUME Typed, NEW t \in tasks, NEW at \in Stages, NEW S \in SUBSET (Users \X Nat),
           Keeps(t, at, S)
    PROVE  \E n \in TaskSet : /\ tasks' = (tasks \ {t}) \cup {n}
                              /\ n.kind = t.kind /\ n.user = t.user /\ n.sock = t.sock
                              /\ n.at = at /\ n.read = S
<1> DEFINE n == [t EXCEPT !.at = at, !.read = S]
<1>1. /\ n \in TaskSet /\ n.kind = t.kind /\ n.user = t.user /\ n.sock = t.sock
      /\ n.at = at /\ n.read = S
    BY DEF Typed, FitTasks, TaskSet
<1>2. tasks' = (tasks \ {t}) \cup {n}
    BY DEF Keeps
<1> HIDE DEF n
<1> QED
    BY <1>1, <1>2, Zenon

LEMMA Seen ==
    ASSUME Typed, NEW t \in tasks, NEW at \in Stages, NEW S \in SUBSET Users, NEW r \in Nat,
           Sees(t, at, S, r)
    PROVE  \E n \in TaskSet : /\ tasks' = (tasks \ {t}) \cup {n}
                              /\ n.kind = t.kind /\ n.user = t.user /\ n.sock = t.sock
                              /\ n.at = at /\ n.seen = S /\ n.rev = r
<1> DEFINE n == [t EXCEPT !.at = at, !.seen = S, !.rev = r]
<1>1. /\ n \in TaskSet /\ n.kind = t.kind /\ n.user = t.user /\ n.sock = t.sock
      /\ n.at = at /\ n.seen = S /\ n.rev = r
    BY DEF Typed, FitTasks, TaskSet
<1>2. tasks' = (tasks \ {t}) \cup {n}
    BY DEF Sees
<1> HIDE DEF n
<1> QED
    BY <1>1, <1>2, Zenon

\* The handlers stay what they may be when one ends or goes on.
LEMMA GoesOnFits ==
    ASSUME Typed, NEW t \in tasks, NEW n \in TaskSet, tasks' = (tasks \ {t}) \cup {n},
           n.kind = t.kind, n.user = t.user, n.sock = t.sock,
           n.at \in {"removed", "unvote"} => t.kind \in Removals
    PROVE  tasks' \subseteq FitTasks
BY DEF Typed, FitTasks, Fits

LEMMA EndsFits == ASSUME Typed, NEW t \in tasks, Ends(t) PROVE tasks' \subseteq FitTasks
BY DEF Typed, Ends

LEMMA BeginsFits ==
    ASSUME Typed, NEW kind \in Kinds, NEW u \in Users, NEW s \in Users \X Nat,
           NEW at \in Stages \ {"removed", "unvote"}, kind = "join" => User(s) = u,
           Begins(Task(kind, u, s, at))
    PROVE  tasks' \subseteq FitTasks
<1>1. PICK n \in TaskSet : /\ tasks' = tasks \cup {n}
                           /\ n.kind = kind /\ n.user = u /\ n.sock = s /\ n.at = at
    BY Begun
<1> QED
    BY <1>1 DEF Typed, FitTasks, Fits

LEMMA MovesFits ==
    ASSUME Typed, NEW t \in tasks, NEW at \in Stages, Moves(t, at),
           at \in {"removed", "unvote"} => t.kind \in Removals
    PROVE  tasks' \subseteq FitTasks
<1>1. PICK n \in TaskSet : /\ tasks' = (tasks \ {t}) \cup {n}
                           /\ n.kind = t.kind /\ n.user = t.user /\ n.sock = t.sock
                           /\ n.at = at
    BY Moved
<1>2. n.at \in {"removed", "unvote"} => t.kind \in Removals
    BY <1>1
<1> QED
    BY <1>1, <1>2, GoesOnFits, Zenon

LEMMA KeepsFits ==
    ASSUME Typed, NEW t \in tasks, NEW at \in Stages \ {"removed", "unvote"},
           NEW S \in SUBSET (Users \X Nat), Keeps(t, at, S)
    PROVE  tasks' \subseteq FitTasks
<1>1. PICK n \in TaskSet : /\ tasks' = (tasks \ {t}) \cup {n}
                           /\ n.kind = t.kind /\ n.user = t.user /\ n.sock = t.sock
                           /\ n.at = at
    BY Kept
<1>2. n.at \notin {"removed", "unvote"}
    BY <1>1
<1> QED
    BY <1>1, <1>2, GoesOnFits, Zenon

LEMMA SeesFits ==
    ASSUME Typed, NEW t \in tasks, NEW at \in Stages \ {"removed", "unvote"},
           NEW S \in SUBSET Users, NEW r \in Nat, Sees(t, at, S, r)
    PROVE  tasks' \subseteq FitTasks
<1>1. PICK n \in TaskSet : /\ tasks' = (tasks \ {t}) \cup {n}
                           /\ n.kind = t.kind /\ n.user = t.user /\ n.sock = t.sock
                           /\ n.at = at
    BY Seen
<1>2. n.at \notin {"removed", "unvote"}
    BY <1>1
<1> QED
    BY <1>1, <1>2, GoesOnFits, Zenon

LEMMA TypedStep == Typed /\ [Next]_vars => Typed'
<1> SUFFICES ASSUME Typed, [Next]_vars
             PROVE  Typed'
    OBVIOUS
<1> DEFINE TasksFit == tasks' \subseteq FitTasks
<1>0. TasksFit /\ Shaped' => Typed'
    BY Zenon DEF Typed, FitTasks
<1>a. Shaped /\ \A t \in tasks : t \in TaskSet /\ Fits(t) /\ t.user \in Users
    BY DEF Typed, FitTasks, TaskSet
<1>b. CASE UNCHANGED vars
    <2>1. UNCHANGED <<rows, sockets, entry, ballot, told, tasks>>
        BY <1>b, Zenon DEF vars
    <2> QED
        BY <2>1 DEF rows, sockets, ballot, Typed, Shaped
<1>c. \A u \in Users : Here(u) \in SUBSET (Users \X Nat)
    BY <1>a DEF Shaped, Here
<1>d. /\ \A S : Revised(roomRev, members, S) \in Nat
      /\ \A S : Revised(voteRev, votes, S) \in Nat
    BY <1>a DEF Shaped, Revised
<1>1. ASSUME NEW u \in Users, Connect(u)
      PROVE  Typed'
    <2>1. PICK n \in 1..opened' : /\ alive' = alive \cup {<<u, n>>}
                                  /\ Begins(Task("join", u, <<u, n>>, "asked"))
        BY <1>1 DEF Connect
    <2>2. opened' \in Nat /\ n \in Nat
        BY <1>1, <1>a, <2>1 DEF Connect, Shaped
    <2>3. <<u, n>> \in Users \X Nat /\ User(<<u, n>>) = u
        BY <2>2, UserFacts
    <2>4. Shaped'
        BY <1>1, <1>a, <2>1, <2>2, <2>3 DEF Connect, Shaped, rows, ballot
    <2>5. TasksFit
        BY <2>1, <2>3, BeginsFits DEF Kinds, Stages
    <2> QED
        BY <1>0, <2>4, <2>5
<1>2. ASSUME NEW s \in alive, Drop(s)
      PROVE  Typed'
    <2>1. s \in Users \X Nat /\ User(s) \in Users
        BY <1>a, UserFacts DEF Shaped
    <2>2. Shaped'
        BY <1>2, <1>a DEF Drop, Shaped, rows, ballot
    <2>3. CASE Begins(Task("drop", User(s), s, "gone"))
        <3>1. TasksFit
            BY <2>1, <2>3, BeginsFits DEF Kinds, Stages
        <3> QED
            BY <1>0, <2>2, <3>1
    <2>4. CASE tasks' = tasks
        BY <1>0, <2>2, <2>4 DEF Typed
    <2> QED
        BY <1>2, <2>3, <2>4 DEF Drop
<1>3. ASSUME NEW u \in Users, TimerFires(u)
      PROVE  Typed'
    <2>1. Shaped'
        BY <1>3, <1>a DEF TimerFires, Shaped, rows, sockets, ballot
    <2>2. <<u, 0>> \in Users \X Nat
        OBVIOUS
    <2>3. TasksFit
        BY <1>3, <2>2, BeginsFits DEF TimerFires, Kinds, Stages
    <2> QED
        BY <1>0, <2>1, <2>3
<1>4. ASSUME NEW s \in inside, NEW u \in Users, NEW kind \in {"leave", "vote", "kick", "start"},
             Asks(s, Task(kind, u, s, "asked"))
      PROVE  Typed'
    <2>0. s \in Users \X Nat
        BY <1>a DEF Shaped
    <2>1. Shaped'
        BY <1>4, <1>a DEF Asks, Shaped, rows, sockets, ballot
    <2>2. TasksFit
        BY <1>4, <2>0, BeginsFits DEF Asks, Kinds, Stages
    <2> QED
        BY <1>0, <2>1, <2>2
<1>5. ASSUME NEW s \in inside, AskToLeave(s) \/ AskToVote(s) \/ AskToStart(s)
      PROVE  Typed'
    <2>1. User(s) \in Users
        BY <1>a, UserFacts DEF Shaped
    <2> QED
        BY <1>4, <1>5, <2>1 DEF AskToLeave, AskToVote, AskToStart
<1>6. ASSUME NEW s \in inside, NEW u \in Users, AskToKick(s, u)
      PROVE  Typed'
    BY <1>4, <1>6 DEF AskToKick
<1>7. ASSUME NEW t \in tasks, Step(t)
      PROVE  Typed'
    <2>0. /\ t \in TaskSet /\ t.user \in Users /\ t.kind \in Kinds /\ Fits(t)
          /\ Here(t.user) \in SUBSET (Users \X Nat) /\ t.seen \subseteq Users /\ t.rev \in Nat
        BY <1>a, <1>c DEF TaskSet
    <2>1. CASE Admit(t)
        <3>1. Shaped'
            BY <1>a, <1>d, <2>0, <2>1 DEF Admit, BecomeMembers, Shaped, sockets, ballot
        <3>2. TasksFit
            BY <2>1, EndsFits, MovesFits DEF Admit, Stages
        <3> QED
            BY <1>0, <3>1, <3>2
    <2>2. CASE Enter(t)
        <3>1. Shaped'
            BY <1>a, <2>0, <2>2 DEF Enter, Shaped, rows, ballot
        <3>2. TasksFit
            BY <2>2, MovesFits DEF Enter, Stages
        <3> QED
            BY <1>0, <3>1, <3>2
    <2>3. CASE Fetch(t)
        <3>1. Shaped'
            BY <1>a, <2>3 DEF Fetch, Shaped, rows, sockets, ballot
        <3>2. TasksFit
            BY <2>0, <2>3, KeepsFits DEF Fetch, Stages
        <3> QED
            BY <1>0, <3>1, <3>2
    <2>4. CASE Mark(t)
        <3>1. Shaped'
            BY <1>a, <2>0, <2>4 DEF Mark, Shaped, rows, sockets, ballot
        <3>2. TasksFit
            BY <2>4, EndsFits, KeepsFits DEF Mark, Stages
        <3> QED
            BY <1>0, <3>1, <3>2
    <2>5. CASE Evict(t) \/ Leave(t)
        <3>1. Shaped'
            BY <1>a, <1>d, <2>5 DEF Evict, Leave, Remove, BecomeMembers, Shaped, sockets, ballot
        <3>2. TasksFit
            BY <2>5, MovesFits DEF Evict, Leave, Is, Stages, Removals
        <3> QED
            BY <1>0, <3>1, <3>2
    <2>6. CASE TakeOut(t)
        <3>1. Shaped'
            BY <1>a, <2>6 DEF TakeOut, Shaped, rows, ballot
        <3>2. TasksFit
            BY <2>6, MovesFits DEF TakeOut, Is, Stages, Removals
        <3> QED
            BY <1>0, <3>1, <3>2
    <2>7. CASE Kick(t)
        <3>1. Shaped'
            BY <1>a, <1>d, <2>7 DEF Kick, Remove, BecomeMembers, Shaped, rows, sockets, ballot
        <3>2. TasksFit
            BY <2>7, EndsFits, MovesFits DEF Kick, Stages
        <3> QED
            BY <1>0, <3>1, <3>2
    <2>8. CASE Expel(t)
        <3>1. Shaped'
            BY <1>a, <2>8 DEF Expel, Shaped, rows, ballot
        <3>2. [t EXCEPT !.at = "removed"] \in FitTasks
            BY <2>0, <2>8 DEF Expel, Is, TaskSet, FitTasks, Kinds, Stages, Removals, Fits
        <3>3. ASSUME NEW s \in Here(t.user)
              PROVE  Task("drop", t.user, s, "gone") \in FitTasks
            <4>1. s \in Users \X Nat
                BY <2>0
            <4> QED
                BY <2>0, <4>1 DEF Task, TaskSet, FitTasks, Kinds, Stages, Fits
        <3>4. \A n \in tasks' : n \in tasks \/ n \in FitTasks
            BY <2>8, <3>2, <3>3, Zenon DEF Expel
        <3> QED
            BY <1>0, <3>1, <3>4 DEF Typed
    <2>9. CASE Cancel(t)
        <3>1. Shaped'
            BY <1>a, <2>0, <2>9 DEF Cancel, Shaped, rows, sockets, ballot
        <3>2. TasksFit
            BY <2>0, <2>9, MovesFits DEF Cancel, Fits, Stages
        <3> QED
            BY <1>0, <3>1, <3>2
    <2>10. CASE RemoveVote(t) \/ ClearVotes(t) \/ Vote(t)
        <3>1. Shaped'
            BY <1>a, <1>d, <2>0, <2>10
               DEF RemoveVote, ClearVotes, Vote, BecomeVotes, Shaped, rows, sockets
        <3>2. TasksFit
            BY <2>10, MovesFits DEF RemoveVote, ClearVotes, Vote, Stages
        <3> QED
            BY <1>0, <3>1, <3>2
    <2>11. CASE Start(t)
        <3>1. Shaped'
            BY <1>a, <1>d, <2>11 DEF Start, BecomeVotes, Shaped, rows, sockets, ballot
        <3>2. TasksFit
            BY <2>11, EndsFits, MovesFits DEF Start, Stages
        <3> QED
            BY <1>0, <3>1, <3>2
    <2>12. CASE ReadMembers(t) \/ ReadVotes(t)
        <3>1. Shaped'
            BY <1>a, <2>12 DEF ReadMembers, ReadVotes, Shaped, rows, sockets, ballot
        <3>2. TasksFit
            BY <1>a, <2>12, SeesFits DEF ReadMembers, ReadVotes, Shaped, Stages
        <3> QED
            BY <1>0, <3>1, <3>2
    <2>13. CASE TellState(t)
        <3>1. Shaped'
            <4>1. told' \in [members : SUBSET Users, away : SUBSET Users, roomRev : Nat,
                             votes : SUBSET Users, voteRev : Nat]
                BY <1>a, <2>0, <2>13 DEF TellState, Shaped
            <4> QED
                BY <1>a, <2>13, <4>1 DEF TellState, Shaped, rows, sockets, ballot
        <3>2. TasksFit
            BY <2>13, EndsFits, SeesFits DEF TellState, Stages
        <3> QED
            BY <1>0, <3>1, <3>2
    <2>14. CASE TellVotes(t)
        <3>1. Shaped'
            <4>1. told' \in [members : SUBSET Users, away : SUBSET Users, roomRev : Nat,
                             votes : SUBSET Users, voteRev : Nat]
                BY <1>a, <2>0, <2>14 DEF TellVotes, Shaped
            <4> QED
                BY <1>a, <2>14, <4>1 DEF TellVotes, Shaped, rows, sockets, ballot
        <3>2. TasksFit
            BY <2>14, EndsFits DEF TellVotes
        <3> QED
            BY <1>0, <3>1, <3>2
    <2> QED
        BY <1>7, <2>1, <2>2, <2>3, <2>4, <2>5, <2>6, <2>7, <2>8, <2>9, <2>10, <2>11, <2>12,
           <2>13, <2>14 DEF Step
<1> QED
    BY <1>b, <1>1, <1>2, <1>3, <1>5, <1>6, <1>7, Zenon DEF Next

-----------------------------------------------------------------------------
\* What was so is known to have been: nothing is told, and whoever has read
\* anew has read what is so.
LEMMA StillWasSo ==
    ASSUME Shaped, WasSo, told' = told, wiped' = wiped,
           roomRev' = Revised(roomRev, members, members'),
           voteRev' = Revised(voteRev, votes, votes'),
           \A n \in tasks' :
               \/ n \in tasks
               \/ n.at \notin {"picture", "tally"}
               \/ n.at = "picture" /\ n.rev = roomRev' /\ n.seen = members'
               \/ n.at = "tally" /\ n.rev = voteRev' /\ n.seen = votes',
           \A t \in tasks : t.rev \in Nat
    PROVE  WasSo'
<1>0. /\ told.roomRev \in Nat /\ told.voteRev \in Nat /\ wiped \in Nat
      /\ roomRev \in Nat /\ voteRev \in Nat
    BY DEF Shaped
<1>1. roomRev' \in Nat /\ roomRev' >= roomRev /\ (roomRev' = roomRev <=> members' = members)
    BY <1>0, RevisedFacts
<1>2. voteRev' \in Nat /\ voteRev' >= voteRev /\ (voteRev' = voteRev <=> votes' = votes)
    BY <1>0, RevisedFacts
<1>3. ToldWasSo'
    BY <1>0, <1>1, <1>2 DEF WasSo, ToldWasSo
<1>4. ASSUME NEW n \in tasks'
      PROVE  (Picture(n) /\ Tally(n))'
    <2>1. CASE n \in tasks
        <3>1. Picture(n) /\ Tally(n) /\ n.rev \in Nat
            BY <2>1 DEF WasSo
        <3> QED
            BY <1>0, <1>1, <1>2, <3>1 DEF Picture, Tally
    <2>2. CASE n \notin tasks
        BY <1>1, <1>2, <1>4, <2>2 DEF Picture, Tally
    <2> QED
        BY <2>1, <2>2
<1> QED
    BY <1>3, <1>4 DEF WasSo

LEMMA RevisedSame == \A rev, S : Revised(rev, S, S) = rev
BY DEF Revised

LEMMA WasSoStep == Typed /\ WasSo /\ [Next]_vars => WasSo'
<1> SUFFICES ASSUME Typed, WasSo, [Next]_vars
             PROVE  WasSo'
    OBVIOUS
<1>a. Shaped /\ \A t \in tasks : t \in TaskSet /\ t.rev \in Nat /\ t.seen \subseteq Users
    BY DEF Typed, FitTasks, TaskSet
<1> DEFINE Same == /\ told' = told /\ wiped' = wiped
                   /\ roomRev' = Revised(roomRev, members, members')
                   /\ voteRev' = Revised(voteRev, votes, votes')
           News == \A n \in tasks' :
                       \/ n \in tasks
                       \/ n.at \notin {"picture", "tally"}
                       \/ n.at = "picture" /\ n.rev = roomRev' /\ n.seen = members'
                       \/ n.at = "tally" /\ n.rev = voteRev' /\ n.seen = votes'
<1>s. Same /\ News => WasSo'
    BY <1>a, StillWasSo
<1>u. UNCHANGED <<rows, ballot, told>> => Same
    BY RevisedSame DEF rows, ballot
<1>b. CASE UNCHANGED vars
    BY <1>s, <1>u, <1>b DEF vars
<1>1. ASSUME NEW u \in Users, Connect(u)
      PROVE  WasSo'
    <2>1. PICK n \in 1..opened' : Begins(Task("join", u, <<u, n>>, "asked"))
        BY <1>1 DEF Connect
    <2>2. Task("join", u, <<u, n>>, "asked").at = "asked"
        BY DEF Task
    <2> QED
        BY <1>1, <1>s, <1>u, <2>1, <2>2 DEF Connect, Begins
<1>2. ASSUME NEW s \in alive, Drop(s)
      PROVE  WasSo'
    <2>1. Task("drop", User(s), s, "gone").at = "gone"
        BY DEF Task
    <2> QED
        BY <1>2, <1>s, <1>u, <2>1 DEF Drop, Begins
<1>3. ASSUME NEW u \in Users, TimerFires(u)
      PROVE  WasSo'
    <2>1. Task("evict", u, <<u, 0>>, "asked").at = "asked"
        BY DEF Task
    <2> QED
        BY <1>3, <1>s, <1>u, <2>1 DEF TimerFires, Begins
<1>4. ASSUME NEW s \in inside, NEW u, NEW kind, Asks(s, Task(kind, u, s, "asked"))
      PROVE  WasSo'
    <2>1. Task(kind, u, s, "asked").at = "asked"
        BY DEF Task
    <2> QED
        BY <1>4, <1>s, <1>u, <2>1 DEF Asks, Begins
<1>5. ASSUME NEW s \in inside, \/ AskToLeave(s) \/ AskToVote(s) \/ AskToStart(s)
                               \/ \E u \in Users : AskToKick(s, u)
      PROVE  WasSo'
    BY <1>4, <1>5 DEF AskToLeave, AskToVote, AskToStart, AskToKick
<1>6. ASSUME NEW t \in tasks, NEW at \in Stages \ {"picture", "tally"}, Moves(t, at)
      PROVE  News
    <2>1. PICK n \in TaskSet : tasks' = (tasks \ {t}) \cup {n} /\ n.at = at
        BY <1>6, Moved
    <2> QED
        BY <2>1
<1>7. ASSUME NEW t \in tasks, Ends(t)
      PROVE  News
    BY <1>7 DEF Ends
<1>8. ASSUME NEW t \in tasks, NEW at \in {"fetched", "state"},
             NEW S \in SUBSET (Users \X Nat), Keeps(t, at, S)
      PROVE  News
    <2>0. at \in Stages
        BY DEF Stages
    <2>1. PICK n \in TaskSet : /\ tasks' = (tasks \ {t}) \cup {n}
                               /\ n.kind = t.kind /\ n.user = t.user /\ n.sock = t.sock
                               /\ n.at = at /\ n.read = S
        BY <1>8, <2>0, Kept
    <2> QED
        BY <2>1
<1>9. ASSUME NEW t \in tasks, Step(t)
      PROVE  WasSo'
    <2>1. CASE Admit(t) \/ Evict(t) \/ Leave(t) \/ Kick(t)
        <3>1. Same
            BY <2>1, RevisedSame
               DEF Admit, Evict, Leave, Kick, Remove, BecomeMembers, rows, ballot
        <3>2. \/ Ends(t)
              \/ \E at \in {"admitted", "removed", "left", "kicked"} : Moves(t, at)
            BY <2>1 DEF Admit, Evict, Leave, Kick
        <3> QED
            BY <1>s, <1>6, <1>7, <3>1, <3>2 DEF Stages
    <2>2. CASE Enter(t) \/ TakeOut(t) \/ Cancel(t)
        <3>1. UNCHANGED <<rows, ballot, told>>
              /\ \E at \in {"state", "removed", "unvote"} : Moves(t, at)
            BY <2>2 DEF Enter, TakeOut, Cancel
        <3> QED
            BY <1>s, <1>u, <1>6, <3>1 DEF Stages
    <2>3. CASE Fetch(t)
        <3>1. Here(t.user) \in SUBSET (Users \X Nat)
            BY <1>a DEF Shaped, Here
        <3> QED
            BY <1>s, <1>u, <1>8, <2>3, <3>1 DEF Fetch
    <2>4. CASE Mark(t)
        BY <1>s, <1>u, <1>7, <1>8, <2>4 DEF Mark
    <2>5. CASE Expel(t)
        <3>1. [t EXCEPT !.at = "removed"].at = "removed"
            BY <1>a DEF TaskSet
        <3>2. \A s : Task("drop", t.user, s, "gone").at = "gone"
            BY DEF Task
        <3>3. News
            BY <2>5, <3>1, <3>2 DEF Expel
        <3> QED
            BY <1>s, <1>u, <2>5, <3>3 DEF Expel
    <2>6. CASE RemoveVote(t) \/ ClearVotes(t) \/ Vote(t)
        <3>1. Same
            BY <2>6, RevisedSame DEF RemoveVote, ClearVotes, Vote, BecomeVotes, rows
        <3>2. \E at \in {"state", "votes"} : Moves(t, at)
            BY <2>6 DEF RemoveVote, ClearVotes, Vote
        <3> QED
            BY <1>s, <1>6, <3>1, <3>2 DEF Stages
    <2>7. CASE Start(t)
        <3>1. News
            BY <1>6, <1>7, <2>7 DEF Start, Stages
        <3>2. CASE UNCHANGED ballot
            BY <1>s, <1>u, <2>7, <3>1, <3>2 DEF Start
        <3>3. CASE BecomeVotes({}) /\ wiped' = IF votes = {} THEN wiped ELSE voteRev'
            <4>1. /\ told' = told /\ roomRev' = roomRev /\ members' = members /\ votes' = {}
                  /\ voteRev' = Revised(voteRev, votes, votes')
                BY <2>7, <3>3 DEF Start, BecomeVotes, rows
            <4>2. CASE votes = {}
                BY <1>s, <3>1, <3>3, <4>1, <4>2, RevisedSame
            <4>3. CASE votes # {}
                <5>1. voteRev' \in Nat /\ voteRev' > voteRev /\ voteRev \in Nat
                    BY <1>a, <4>1, <4>3 DEF Revised, Shaped
                <5>2. wiped' = voteRev'
                    BY <3>3, <4>3
                <5>3. ToldWasSo'
                    BY <1>a, <4>1, <5>1, <5>2 DEF WasSo, ToldWasSo, Shaped
                <5>4. ASSUME NEW n \in tasks'
                      PROVE  (Picture(n) /\ Tally(n))'
                    <6>1. PICK at \in {"state", "gone"} : Ends(t) \/ Moves(t, at)
                        BY <2>7 DEF Start
                    <6>2. n \in tasks \/ n.at \notin {"picture", "tally"}
                        <7>1. CASE Ends(t)
                            BY <5>4, <7>1 DEF Ends
                        <7>2. CASE Moves(t, at)
                            <8>1. at \in Stages
                                BY DEF Stages
                            <8>2. PICK m \in TaskSet : tasks' = (tasks \ {t}) \cup {m} /\ m.at = at
                                BY <7>2, <8>1, Moved
                            <8> QED
                                BY <5>4, <8>2
                        <7> QED
                            BY <6>1, <7>1, <7>2
                    <6>3. CASE n \in tasks
                        <7>1. Picture(n) /\ Tally(n) /\ n.rev \in Nat
                            BY <1>a, <6>3 DEF WasSo
                        <7> QED
                            BY <4>1, <5>1, <7>1 DEF Picture, Tally
                    <6>4. CASE n.at \notin {"picture", "tally"}
                        BY <6>4 DEF Picture, Tally
                    <6> QED
                        BY <6>2, <6>3, <6>4
                <5> QED
                    BY <5>3, <5>4 DEF WasSo
            <4> QED
                BY <4>2, <4>3
        <3> QED
            BY <2>7, <3>2, <3>3 DEF Start
    <2>8. CASE ReadMembers(t) \/ ReadVotes(t)
        <3>1. UNCHANGED <<rows, ballot, told>>
            BY <2>8 DEF ReadMembers, ReadVotes
        <3>2. roomRev' = roomRev /\ members' = members /\ voteRev' = voteRev /\ votes' = votes
            BY <3>1 DEF rows, ballot
        <3>3. CASE ReadMembers(t)
            <4>1. /\ Sees(t, "picture", members, roomRev) /\ "picture" \in Stages
                  /\ members \in SUBSET Users /\ roomRev \in Nat
                BY <1>a, <3>3 DEF ReadMembers, Shaped, Stages
            <4>2. PICK n \in TaskSet : /\ tasks' = (tasks \ {t}) \cup {n}
                                       /\ n.kind = t.kind /\ n.user = t.user /\ n.sock = t.sock
                                       /\ n.at = "picture" /\ n.seen = members /\ n.rev = roomRev
                BY <4>1, Seen
            <4> QED
                BY <1>s, <1>u, <3>1, <3>2, <4>2
        <3>4. CASE ReadVotes(t)
            <4>1. /\ Sees(t, "tally", votes, voteRev) /\ "tally" \in Stages
                  /\ votes \in SUBSET Users /\ voteRev \in Nat
                BY <1>a, <3>4 DEF ReadVotes, Shaped, Stages
            <4>2. PICK n \in TaskSet : /\ tasks' = (tasks \ {t}) \cup {n}
                                       /\ n.kind = t.kind /\ n.user = t.user /\ n.sock = t.sock
                                       /\ n.at = "tally" /\ n.seen = votes /\ n.rev = voteRev
                BY <4>1, Seen
            <4> QED
                BY <1>s, <1>u, <3>1, <3>2, <4>2
        <3> QED
            BY <2>8, <3>3, <3>4
    <2>9. CASE TellState(t) \/ TellVotes(t)
        <3>1. /\ roomRev' = roomRev /\ members' = members /\ voteRev' = voteRev /\ votes' = votes
              /\ wiped' = wiped
            BY <2>9 DEF TellState, TellVotes, rows, ballot
        <3>2. Picture(t) /\ Tally(t) /\ t.rev \in Nat
            BY <1>a DEF WasSo
        <3>3. ToldWasSo'
            <4>1. CASE TellState(t)
                <5>1. /\ told'.members = t.seen /\ told'.roomRev = t.rev
                      /\ told'.votes = told.votes /\ told'.voteRev = told.voteRev
                      /\ t.at = "picture"
                    BY <1>a, <4>1 DEF TellState, Shaped
                <5> QED
                    BY <3>1, <3>2, <5>1 DEF WasSo, ToldWasSo, Picture
            <4>2. CASE TellVotes(t)
                <5>1. /\ told'.votes = t.seen /\ told'.voteRev = t.rev
                      /\ told'.members = told.members /\ told'.roomRev = told.roomRev
                      /\ t.at = "tally"
                    BY <1>a, <4>2 DEF TellVotes, Shaped
                <5> QED
                    BY <3>1, <3>2, <5>1 DEF WasSo, ToldWasSo, Tally
            <4> QED
                BY <2>9, <4>1, <4>2
        <3>4. \A n \in tasks' : n \in tasks \/ n.at \notin {"picture", "tally"}
            <4>1. \/ Ends(t)
                  \/ \E at \in {"clear votes", "votes"} : Sees(t, at, {}, 0)
                BY <2>9 DEF TellState, TellVotes
            <4>2. CASE Ends(t)
                BY <4>2 DEF Ends
            <4>3. CASE \E at \in {"clear votes", "votes"} : Sees(t, at, {}, 0)
                <5>1. PICK at \in {"clear votes", "votes"} : Sees(t, at, {}, 0)
                    BY <4>3
                <5>2. [t EXCEPT !.at = at, !.seen = {}, !.rev = 0].at = at
                    BY <1>a DEF TaskSet
                <5> QED
                    BY <5>1, <5>2 DEF Sees
            <4> QED
                BY <4>1, <4>2, <4>3
        <3>5. \A n \in tasks' : (Picture(n) /\ Tally(n))'
            BY <3>1, <3>4 DEF WasSo, Picture, Tally
        <3> QED
            BY <3>3, <3>5 DEF WasSo
    <2> QED
        BY <1>9, <2>1, <2>2, <2>3, <2>4, <2>5, <2>6, <2>7, <2>8, <2>9, Zenon DEF Step
<1> QED
    BY <1>b, <1>1, <1>2, <1>3, <1>5, <1>9, Zenon DEF Next

-----------------------------------------------------------------------------
\* A handler of which nothing is expected, and one that does what is expected
\* of another
Idle(t) == ~Checks(t) /\ ~Unvotes(t) /\ ~TellsState(t) /\ ~TellsVotes(t)
Inherits(n, t) ==
    /\ n.user = t.user
    /\ Checks(t) => Checks(n)
    /\ Unvotes(t) => Unvotes(n)
    /\ TellsState(t) => TellsState(n)
    /\ TellsVotes(t) => TellsVotes(n)

LEMMA Undisturbed ==
    ASSUME Orderly, UNCHANGED <<rows, ballot, told, entry>>,
           \A u \in Users : Here(u)' = Here(u),
           \A t \in tasks : t \in tasks' \/ Idle(t) \/ \E n \in tasks' : Inherits(n, t)
    PROVE  Orderly'
<1>0. /\ members' = members /\ roomRev' = roomRev /\ votes' = votes /\ voteRev' = voteRev
      /\ wiped' = wiped /\ told' = told /\ entry' = entry
    BY DEF rows, ballot
<1>a. \A t : TellsState(t)' <=> TellsState(t)
    BY <1>0 DEF TellsState
<1>b. \A t : TellsVotes(t)' <=> TellsVotes(t)
    BY <1>0 DEF TellsVotes
<1>1. AwayHaveNone'
    BY <1>0, Zenon DEF Orderly, AwayHaveNone
<1>2. SomebodyChecks'
    BY <1>0, Zenon DEF Orderly, SomebodyChecks, Idle, Inherits
<1>3. SomebodyUnvotes'
    BY <1>0, Zenon DEF Orderly, SomebodyUnvotes, Idle, Inherits
<1>4. StateIsTold'
    <2>1. CASE KnowsState
        BY <1>0, <2>1 DEF KnowsState, StateIsTold, Away
    <2>2. CASE \E t \in tasks : TellsState(t)
        BY <1>a, <2>2, Zenon DEF StateIsTold, Idle, Inherits
    <2> QED
        BY <2>1, <2>2, Zenon DEF Orderly, StateIsTold
<1>5. VotesAreTold'
    <2>1. CASE KnowsVotes
        BY <1>0, <2>1 DEF KnowsVotes, VotesAreTold
    <2>2. CASE \E t \in tasks : TellsVotes(t)
        BY <1>b, <2>2, Zenon DEF VotesAreTold, Idle, Inherits
    <2> QED
        BY <2>1, <2>2, Zenon DEF Orderly, VotesAreTold
<1> QED
    BY <1>1, <1>2, <1>3, <1>4, <1>5, Zenon DEF Orderly

LEMMA HereSame == inside' = inside => \A u \in Users : Here(u)' = Here(u)
BY DEF Here

LEMMA ConnectOrderly ==
    ASSUME Orderly, NEW u \in Users, Connect(u)
    PROVE  Orderly'
<1>1. UNCHANGED <<rows, ballot, told, entry>> /\ inside' = inside /\ tasks \subseteq tasks'
    BY Zenon DEF Connect, Begins
<1> QED
    BY <1>1, HereSame, Undisturbed

LEMMA DropOrderly ==
    ASSUME Typed, Orderly, NEW s \in alive, Drop(s)
    PROVE  Orderly'
<1>1. UNCHANGED <<rows, ballot, told, entry>> /\ inside' = inside \ {s}
    BY Zenon DEF Drop
<1>a. /\ members' = members /\ roomRev' = roomRev /\ votes' = votes /\ voteRev' = voteRev
      /\ wiped' = wiped /\ told' = told /\ entry' = entry
    BY <1>1 DEF rows, ballot
<1>2. CASE s \notin inside
    <2>1. inside' = inside /\ tasks' = tasks
        BY <1>1, <1>2 DEF Drop
    <2> QED
        BY <1>1, <2>1, HereSame, Undisturbed
<1>3. CASE s \in inside
    <2> DEFINE u == User(s)
    <2>1. s \in Users \X Nat /\ u \in Users
        BY UserFacts DEF Typed, Shaped
    <2>2. PICK n \in TaskSet : /\ tasks' = tasks \cup {n}
                               /\ n.kind = "drop" /\ n.user = u /\ n.sock = s /\ n.at = "gone"
        <3>1. Begins(Task("drop", u, s, "gone")) /\ "drop" \in Kinds /\ "gone" \in Stages
            BY <1>3 DEF Drop, Kinds, Stages
        <3> HIDE DEF u
        <3> QED
            BY <2>1, <3>1, Begun
    <2>3. Checks(n)
        BY <2>2 DEF Checks
    <2>4. \A v \in Users : Here(v)' \subseteq Here(v) /\ (v # u => Here(v)' = Here(v))
        BY <1>1 DEF Here
    <2> HIDE DEF u
    <2>5. AwayHaveNone'
        BY <1>a, <2>4 DEF Orderly, AwayHaveNone
    <2>6. SomebodyChecks'
        BY <1>a, <2>2, <2>3, <2>4, Zenon DEF Orderly, SomebodyChecks
    <2>7. SomebodyUnvotes'
        BY <1>a, <2>2, Zenon DEF Orderly, SomebodyUnvotes
    <2>8. StateIsTold' /\ VotesAreTold'
        BY <1>a, <2>2 DEF Orderly, StateIsTold, VotesAreTold, KnowsState, KnowsVotes,
                          TellsState, TellsVotes, Away
    <2> QED
        BY <2>5, <2>6, <2>7, <2>8, Zenon DEF Orderly
<1> QED
    BY <1>2, <1>3

LEMMA TimerOrderly ==
    ASSUME Typed, Orderly, NEW u \in Users, TimerFires(u)
    PROVE  Orderly'
<1>1. /\ members' = members /\ roomRev' = roomRev /\ votes' = votes /\ voteRev' = voteRev
      /\ wiped' = wiped /\ told' = told /\ inside' = inside
      /\ entry' = [entry EXCEPT ![u] = "none"]
    BY DEF TimerFires, rows, sockets, ballot
<1>2. PICK n \in TaskSet : /\ tasks' = tasks \cup {n}
                           /\ n.kind = "evict" /\ n.user = u /\ n.sock = <<u, 0>>
                           /\ n.at = "asked"
    <2>1. /\ Begins(Task("evict", u, <<u, 0>>, "asked")) /\ <<u, 0>> \in Users \X Nat
          /\ "evict" \in Kinds /\ "asked" \in Stages
        BY DEF TimerFires, Kinds, Stages
    <2> QED
        BY <2>1, Begun
<1>3. \A v \in Users : Here(v)' = Here(v)
    BY <1>1, HereSame
<1>4. \A v \in Users : entry'[v] # "none" => entry'[v] = entry[v]
    BY <1>1 DEF Typed, Shaped
<1>5. AwayHaveNone'
    BY <1>3, <1>4 DEF Orderly, AwayHaveNone
<1>6. SomebodyChecks'
    BY <1>2, <1>3, <1>4 DEF Orderly, SomebodyChecks
<1>7. SomebodyUnvotes'
    BY <1>1, <1>2, Zenon DEF Orderly, SomebodyUnvotes
<1>8. StateIsTold'
    BY <1>2 DEF StateIsTold, TellsState
<1>9. VotesAreTold'
    BY <1>1, <1>2 DEF Orderly, VotesAreTold, KnowsVotes, TellsVotes
<1> QED
    BY <1>5, <1>6, <1>7, <1>8, <1>9, Zenon DEF Orderly

LEMMA AsksOrderly ==
    ASSUME Orderly, NEW s, NEW n, Asks(s, n)
    PROVE  Orderly'
<1>1. UNCHANGED <<rows, ballot, told, entry>> /\ inside' = inside /\ tasks \subseteq tasks'
    BY DEF Asks, sockets, Begins
<1> QED
    BY <1>1, HereSame, Undisturbed

-----------------------------------------------------------------------------
\* A handler that ends with nothing expected of it
LEMMA EndsOrderly ==
    ASSUME Orderly, NEW t \in tasks, Idle(t), Ends(t),
           UNCHANGED <<rows, ballot, told, entry>>, inside' = inside
    PROVE  Orderly'
<1>1. \A j \in tasks : j \in tasks' \/ Idle(j)
    BY Zenon DEF Ends
<1> QED
    BY <1>1, HereSame, Undisturbed

\* The handler t ends or goes on as one of N, and whoever was taken care of
\* still is, by another handler or by one of N.
LEMMA GoesOnOrderly ==
    ASSUME Orderly, NEW t \in tasks, NEW N, tasks' = (tasks \ {t}) \cup N,
           \A u \in Users : entry'[u] = "disconnected" => Here(u)' = {},
           \A u \in Users : entry'[u] = "online" /\ Here(u)' = {} =>
               \/ \E n \in N : n.user = u /\ Checks(n)
               \/ entry[u] = "online" /\ Here(u) = {} /\ (u # t.user \/ ~Checks(t)),
           \A u \in votes' : u \notin members' =>
               \/ \E n \in N : n.user = u /\ Unvotes(n)
               \/ u \in votes /\ u \notin members /\ (u # t.user \/ ~Unvotes(t)),
           \/ KnowsState'
           \/ \E n \in N : TellsState(n)'
           \/ \E j \in tasks \ {t} : TellsState(j)'
           \/ members' = members /\ roomRev' = roomRev /\ entry' = entry /\ told' = told
              /\ ~TellsState(t),
           \/ KnowsVotes'
           \/ \E n \in N : TellsVotes(n)'
           \/ \E j \in tasks \ {t} : TellsVotes(j)'
           \/ voteRev' = voteRev /\ wiped' = wiped /\ told'.voteRev = told.voteRev
              /\ ~TellsVotes(t)
    PROVE  Orderly'
<1>1. N \subseteq tasks' /\ \A j \in tasks : j # t => j \in tasks'
    OBVIOUS
<1>2. AwayHaveNone'
    BY Zenon DEF AwayHaveNone
<1>3. SomebodyChecks'
    <2> SUFFICES ASSUME NEW u \in Users, (entry[u] = "online" /\ Here(u) = {})'
                 PROVE  (\E j \in tasks : j.user = u /\ Checks(j))'
        BY Zenon DEF SomebodyChecks
    <2>1. CASE \E n \in N : n.user = u /\ Checks(n)
        BY <1>1, <2>1 DEF Checks
    <2>2. CASE entry[u] = "online" /\ Here(u) = {} /\ (u # t.user \/ ~Checks(t))
        <3>1. PICK j \in tasks : j.user = u /\ Checks(j)
            BY <2>2, Zenon DEF Orderly, SomebodyChecks
        <3>2. j \in tasks'
            BY <1>1, <2>2, <3>1, Zenon
        <3> QED
            BY <3>1, <3>2, Zenon DEF Checks
    <2> QED
        BY <2>1, <2>2, Zenon
<1>4. SomebodyUnvotes'
    <2> SUFFICES ASSUME NEW u \in votes', u \notin members'
                 PROVE  (\E j \in tasks : j.user = u /\ Unvotes(j))'
        BY Zenon DEF SomebodyUnvotes
    <2>1. CASE \E n \in N : n.user = u /\ Unvotes(n)
        BY <1>1, <2>1 DEF Unvotes
    <2>2. CASE u \in votes /\ u \notin members /\ (u # t.user \/ ~Unvotes(t))
        <3>1. PICK j \in tasks : j.user = u /\ Unvotes(j)
            BY <2>2, Zenon DEF Orderly, SomebodyUnvotes
        <3>2. j \in tasks'
            BY <1>1, <2>2, <3>1, Zenon
        <3> QED
            BY <3>1, <3>2, Zenon DEF Unvotes
    <2> QED
        BY <2>1, <2>2, Zenon
<1>5. StateIsTold'
    <2>1. CASE KnowsState'
        BY <2>1, Zenon DEF StateIsTold
    <2>2. CASE (\E n \in N : TellsState(n)') \/ \E j \in tasks \ {t} : TellsState(j)'
        <3>1. \E j \in tasks' : TellsState(j)'
            BY <1>1, <2>2, Zenon
        <3> QED
            BY <3>1, Zenon DEF StateIsTold
    <2>3. CASE members' = members /\ roomRev' = roomRev /\ entry' = entry /\ told' = told
               /\ ~TellsState(t)
        <3>1. CASE KnowsState
            BY <2>3, <3>1 DEF StateIsTold, KnowsState, Away
        <3>2. ASSUME NEW j \in tasks, TellsState(j)
              PROVE  StateIsTold'
            <4>1. j \in tasks' /\ TellsState(j)'
                <5>1. j # t
                    BY <2>3, <3>2, Zenon
                <5> QED
                    BY <1>1, <2>3, <3>2, <5>1 DEF TellsState
            <4> QED
                BY <4>1, Zenon DEF StateIsTold
        <3> QED
            BY <3>1, <3>2, Zenon DEF Orderly, StateIsTold
    <2> QED
        BY <2>1, <2>2, <2>3, Zenon
<1>6. VotesAreTold'
    <2>1. CASE KnowsVotes'
        BY <2>1, Zenon DEF VotesAreTold
    <2>2. CASE (\E n \in N : TellsVotes(n)') \/ \E j \in tasks \ {t} : TellsVotes(j)'
        <3>1. \E j \in tasks' : TellsVotes(j)'
            BY <1>1, <2>2, Zenon
        <3> QED
            BY <3>1, Zenon DEF VotesAreTold
    <2>3. CASE voteRev' = voteRev /\ wiped' = wiped /\ told'.voteRev = told.voteRev
               /\ ~TellsVotes(t)
        <3>1. CASE KnowsVotes
            BY <2>3, <3>1 DEF VotesAreTold, KnowsVotes
        <3>2. ASSUME NEW j \in tasks, TellsVotes(j)
              PROVE  VotesAreTold'
            <4>1. j \in tasks' /\ TellsVotes(j)'
                <5>1. j # t
                    BY <2>3, <3>2, Zenon
                <5> QED
                    BY <1>1, <2>3, <3>2, <5>1 DEF TellsVotes
            <4> QED
                BY <4>1, Zenon DEF VotesAreTold
        <3> QED
            BY <3>1, <3>2, Zenon DEF Orderly, VotesAreTold
    <2> QED
        BY <2>1, <2>2, <2>3, Zenon
<1> QED
    BY <1>2, <1>3, <1>4, <1>5, <1>6, Zenon DEF Orderly

LEMMA AdmitOrderly ==
    ASSUME Typed, Orderly, NEW t \in tasks, Admit(t)
    PROVE  Orderly'
<1>1. /\ UNCHANGED <<ballot, told, entry>> /\ inside' = inside
      /\ t.kind = "join" /\ t.at = "asked"
    BY DEF Admit, sockets, Is
<1>2. Idle(t)
    BY <1>1 DEF Idle, Checks, Unvotes, TellsState, TellsVotes
<1>3. CASE Closed
    <2>1. Ends(t) /\ UNCHANGED rows
        BY <1>3, Zenon DEF Admit, rows
    <2> QED
        BY <1>1, <1>2, <2>1, EndsOrderly
<1>4. CASE ~Closed
    <2>1. Moves(t, "admitted") /\ "admitted" \in Stages /\ members \subseteq members'
        BY <1>4 DEF Admit, BecomeMembers, Stages
    <2>2. PICK n \in TaskSet : /\ tasks' = (tasks \ {t}) \cup {n}
                               /\ n.kind = t.kind /\ n.user = t.user /\ n.sock = t.sock
                               /\ n.at = "admitted"
        BY <2>1, Moved
    <2>3. \E m \in {n} : TellsState(m)'
        BY <2>2 DEF TellsState
    <2>4. /\ votes' = votes /\ voteRev' = voteRev /\ wiped' = wiped /\ told' = told
          /\ entry' = entry /\ \A u \in Users : Here(u)' = Here(u)
        BY <1>1, HereSame DEF ballot
    <2>5. \A u \in Users : entry'[u] = "disconnected" => Here(u)' = {}
        BY <2>4, Zenon DEF Orderly, AwayHaveNone
    <2>6. \A u \in Users : entry'[u] = "online" /\ Here(u)' = {} =>
              entry[u] = "online" /\ Here(u) = {} /\ ~Checks(t)
        BY <1>2, <2>4, Zenon DEF Idle
    <2>7. \A u \in votes' : u \notin members' => u \in votes /\ u \notin members /\ ~Unvotes(t)
        BY <1>2, <2>1, <2>4 DEF Idle
    <2>8. voteRev' = voteRev /\ wiped' = wiped /\ told'.voteRev = told.voteRev /\ ~TellsVotes(t)
        BY <1>2, <2>4, Zenon DEF Idle
    <2> QED
        BY <2>2, <2>3, <2>5, <2>6, <2>7, <2>8, GoesOnOrderly, ZenonT(60)
<1> QED
    BY <1>3, <1>4

LEMMA EnterOrderly ==
    ASSUME Typed, Orderly, NEW t \in tasks, Enter(t), ~raced'
    PROVE  Orderly'
<1> DEFINE u == t.user
<1>1. /\ members' = members /\ roomRev' = roomRev /\ votes' = votes /\ voteRev' = voteRev
      /\ wiped' = wiped /\ told' = told
      /\ entry' = [entry EXCEPT ![u] = "online"]
      /\ t.kind = "join" /\ t.at = "admitted" /\ Moves(t, "state") /\ "state" \in Stages
    BY DEF Enter, rows, ballot, Is, Stages
<1>2. t.sock \in alive
    BY Zenon DEF Enter, Note
<1>3. u \in Users /\ t.sock \in Users \X Nat /\ User(t.sock) = u
    BY <1>1 DEF Typed, FitTasks, Fits, TaskSet
<1>4. inside' = inside \cup {t.sock}
    BY <1>2 DEF Enter
<1>5. PICK n \in TaskSet : /\ tasks' = (tasks \ {t}) \cup {n}
                           /\ n.kind = t.kind /\ n.user = t.user /\ n.sock = t.sock
                           /\ n.at = "state"
    BY <1>1, Moved
<1>6. Here(u)' # {} /\ \A v \in Users : v # u => Here(v)' = Here(v)
    BY <1>3, <1>4 DEF Here
<1> HIDE DEF u
<1>7. entry'[u] = "online" /\ \A v \in Users : v # u => entry'[v] = entry[v]
    BY <1>1, <1>3 DEF Typed, Shaped
<1>8. ~Checks(t) /\ ~Unvotes(t) /\ ~TellsVotes(t) /\ \E m \in {n} : TellsState(m)'
    BY <1>1, <1>5 DEF Checks, Unvotes, TellsVotes, TellsState
<1>9. \A v \in Users : entry'[v] = "disconnected" => Here(v)' = {}
    BY <1>6, <1>7 DEF Orderly, AwayHaveNone
<1>10. \A v \in Users : entry'[v] = "online" /\ Here(v)' = {} =>
           entry[v] = "online" /\ Here(v) = {} /\ ~Checks(t)
    BY <1>6, <1>7, <1>8
<1>11. \A v \in votes' : v \notin members' => v \in votes /\ v \notin members /\ ~Unvotes(t)
    BY <1>1, <1>8
<1>12. voteRev' = voteRev /\ wiped' = wiped /\ told'.voteRev = told.voteRev /\ ~TellsVotes(t)
    BY <1>1, <1>8, Zenon
<1> QED
    BY <1>5, <1>8, <1>9, <1>10, <1>11, <1>12, GoesOnOrderly, ZenonT(60)

LEMMA FetchOrderly ==
    ASSUME Typed, Orderly, NEW t \in tasks, Fetch(t)
    PROVE  Orderly'
<1>1. /\ members' = members /\ roomRev' = roomRev /\ votes' = votes /\ voteRev' = voteRev
      /\ wiped' = wiped /\ told' = told /\ entry' = entry /\ inside' = inside
      /\ t.kind = "drop" /\ t.at = "gone" /\ Keeps(t, "fetched", Here(t.user))
      /\ "fetched" \in Stages
    BY DEF Fetch, rows, sockets, ballot, Is, Stages
<1>2. Here(t.user) \in SUBSET (Users \X Nat)
    BY DEF Typed, Shaped, Here
<1>3. PICK n \in TaskSet : /\ tasks' = (tasks \ {t}) \cup {n}
                           /\ n.kind = t.kind /\ n.user = t.user /\ n.sock = t.sock
                           /\ n.at = "fetched" /\ n.read = Here(t.user)
    BY <1>1, <1>2, Kept
<1>4. \A v \in Users : Here(v)' = Here(v)
    BY <1>1, HereSame
<1>5. ~Unvotes(t) /\ ~TellsState(t) /\ ~TellsVotes(t)
    BY <1>1 DEF Unvotes, TellsState, TellsVotes
<1>6. n.read = {} => Checks(n)
    BY <1>1, <1>3 DEF Checks
<1>7. \A v \in Users : entry'[v] = "disconnected" => Here(v)' = {}
    BY <1>1, <1>4, Zenon DEF Orderly, AwayHaveNone
<1>8. \A v \in Users : entry'[v] = "online" /\ Here(v)' = {} =>
          \/ \E m \in {n} : m.user = v /\ Checks(m)
          \/ entry[v] = "online" /\ Here(v) = {} /\ v # t.user
    BY <1>1, <1>3, <1>4, <1>6
<1>9. \A v \in votes' : v \notin members' => v \in votes /\ v \notin members /\ ~Unvotes(t)
    BY <1>1, <1>5
<1>10. /\ members' = members /\ roomRev' = roomRev /\ entry' = entry /\ told' = told
       /\ ~TellsState(t)
    BY <1>1, <1>5, Zenon
<1>11. voteRev' = voteRev /\ wiped' = wiped /\ told'.voteRev = told.voteRev /\ ~TellsVotes(t)
    BY <1>1, <1>5, Zenon
<1> QED
    <2> DEFINE N == {n}
    <2>1. tasks' = (tasks \ {t}) \cup N
        BY <1>3, Zenon
    <2>2. \A v \in Users : entry'[v] = "online" /\ Here(v)' = {} =>
              \/ \E m \in N : m.user = v /\ Checks(m)
              \/ entry[v] = "online" /\ Here(v) = {} /\ (v # t.user \/ ~Checks(t))
        BY <1>8, Zenon
    <2> HIDE DEF N
    <2>3. \A v \in votes' : v \notin members' =>
              \/ \E m \in N : m.user = v /\ Unvotes(m)
              \/ v \in votes /\ v \notin members /\ (v # t.user \/ ~Unvotes(t))
        BY <1>9, Zenon
    <2> QED
        BY <1>7, <1>10, <1>11, <2>1, <2>2, <2>3, GoesOnOrderly, Zenon

LEMMA MarkOrderly ==
    ASSUME Typed, Orderly, NEW t \in tasks, Mark(t), ~raced'
    PROVE  Orderly'
<1> DEFINE u == t.user
<1>1. /\ UNCHANGED <<rows, ballot, told>> /\ inside' = inside
      /\ t.kind = "drop" /\ t.at = "fetched"
    BY DEF Mark, sockets, Is
<1>2. \A v \in Users : Here(v)' = Here(v)
    BY <1>1, HereSame
<1>3. ~Unvotes(t) /\ ~TellsState(t) /\ ~TellsVotes(t)
    BY <1>1 DEF Unvotes, TellsState, TellsVotes
<1>4. CASE t.read # {}
    <2>1. entry' = entry /\ Ends(t)
        BY <1>4, Zenon DEF Mark
    <2>2. Idle(t)
        BY <1>1, <1>3, <1>4 DEF Idle, Checks
    <2> QED
        BY <1>1, <2>1, <2>2, EndsOrderly
<1>5. CASE t.read = {}
    <2>1. /\ Keeps(t, "state", {}) /\ entry' = [entry EXCEPT ![u] = "disconnected"]
          /\ "state" \in Stages /\ {} \in SUBSET (Users \X Nat)
        BY <1>5 DEF Mark, Stages
    <2>2. Here(u) = {}
        <3>1. ~((t.read \ {t.sock} = {}) # (Here(u) = {}))
            BY Zenon DEF Mark, Note
        <3>2. t.read \ {t.sock} = {}
            BY <1>5
        <3> QED
            BY <3>1, <3>2
    <2>3. PICK n \in TaskSet : /\ tasks' = (tasks \ {t}) \cup {n} /\ n.at = "state"
        <3> DEFINE n == [t EXCEPT !.at = "state", !.read = {}]
        <3>1. n \in TaskSet /\ n.at = "state"
            BY <2>1 DEF Typed, FitTasks, TaskSet
        <3>2. tasks' = (tasks \ {t}) \cup {n}
            BY <2>1 DEF Keeps
        <3> HIDE DEF n
        <3> QED
            BY <3>1, <3>2, Zenon
    <2>4. \E m \in {n} : TellsState(m)'
        BY <2>3 DEF TellsState
    <2>5. u \in Users
        BY DEF Typed, FitTasks, TaskSet
    <2> HIDE DEF u
    <2>6. entry'[u] = "disconnected" /\ \A v \in Users : v # u => entry'[v] = entry[v]
        BY <2>1, <2>5 DEF Typed, Shaped
    <2>7. \A v \in Users : entry'[v] = "disconnected" => Here(v)' = {}
        BY <1>2, <2>2, <2>5, <2>6 DEF Orderly, AwayHaveNone
    <2>8. \A v \in Users : entry'[v] = "online" /\ Here(v)' = {} =>
              entry[v] = "online" /\ Here(v) = {} /\ v # t.user
        BY <1>2, <2>6 DEF u
    <2>9. \A v \in votes' : v \notin members' => v \in votes /\ v \notin members /\ ~Unvotes(t)
        BY <1>1, <1>3 DEF rows, ballot
    <2>10. /\ voteRev' = voteRev /\ wiped' = wiped /\ told'.voteRev = told.voteRev
           /\ ~TellsVotes(t)
        BY <1>1, <1>3 DEF ballot
    <2> QED
        BY <2>3, <2>4, <2>7, <2>8, <2>9, <2>10, GoesOnOrderly, Zenon
<1> QED
    BY <1>4, <1>5

\* A removal from the room leaves a handler that takes back the vote and tells
\* the room.
LEMMA RemoveOrderly ==
    ASSUME Typed, Orderly, NEW t \in tasks, t.at = "asked", Remove(t.user),
           NEW at \in {"left", "kicked", "removed"}, Moves(t, at),
           UNCHANGED <<ballot, told, entry>>, inside' = inside
    PROVE  Orderly'
<1>0. at \in Stages
    BY DEF Stages
<1>1. PICK n \in TaskSet : /\ tasks' = (tasks \ {t}) \cup {n}
                           /\ n.kind = t.kind /\ n.user = t.user /\ n.sock = t.sock
                           /\ n.at = at
    BY <1>0, Moved
<1>2. \A v \in Users : Here(v)' = Here(v)
    BY HereSame
<1>3. /\ Unvotes(n) /\ ~Checks(t) /\ ~Unvotes(t) /\ ~TellsVotes(t)
      /\ \E m \in {n} : TellsState(m)'
    BY <1>1 DEF Unvotes, TellsState, Checks, TellsVotes
<1>4. /\ votes' = votes /\ voteRev' = voteRev /\ wiped' = wiped /\ told' = told
      /\ entry' = entry
    BY DEF ballot
<1>5. \A v \in Users : entry'[v] = "disconnected" => Here(v)' = {}
    BY <1>2, <1>4, Zenon DEF Orderly, AwayHaveNone
<1>6. \A v \in Users : entry'[v] = "online" /\ Here(v)' = {} =>
          entry[v] = "online" /\ Here(v) = {} /\ ~Checks(t)
    BY <1>2, <1>3, <1>4, Zenon
<1>7. \A v \in votes' : v \notin members' =>
          \/ \E m \in {n} : m.user = v /\ Unvotes(m)
          \/ v \in votes /\ v \notin members /\ ~Unvotes(t)
    BY <1>1, <1>3, <1>4 DEF Remove, BecomeMembers
<1>8. voteRev' = voteRev /\ wiped' = wiped /\ told'.voteRev = told.voteRev /\ ~TellsVotes(t)
    BY <1>3, <1>4, Zenon
<1> QED
    BY <1>1, <1>3, <1>5, <1>6, <1>7, <1>8, GoesOnOrderly, Zenon

LEMMA LeaversOrderly ==
    ASSUME Typed, Orderly, NEW t \in tasks, Evict(t) \/ Leave(t) \/ Kick(t)
    PROVE  Orderly'
<1>1. UNCHANGED <<ballot, told, entry>> /\ inside' = inside /\ t.at = "asked"
    BY DEF Evict, Leave, Kick, sockets, Is
<1>2. CASE Evict(t) \/ Leave(t)
    <2>1. Remove(t.user) /\ (Moves(t, "removed") \/ Moves(t, "left"))
        BY <1>2, Zenon DEF Evict, Leave
    <2> QED
        BY <1>1, <2>1, RemoveOrderly
<1>3. CASE Kick(t)
    <2>1. \/ Remove(t.user) /\ Moves(t, "kicked")
          \/ Ends(t) /\ UNCHANGED rows
        BY <1>3, Zenon DEF Kick
    <2>2. t.kind = "kick"
        BY <1>3, Zenon DEF Kick, Is
    <2>3. Idle(t)
        BY <1>1, <2>2 DEF Idle, Checks, Unvotes, TellsState, TellsVotes
    <2> QED
        BY <1>1, <2>1, <2>3, RemoveOrderly, EndsOrderly
<1> QED
    BY <1>2, <1>3

\* A removal's handler goes on, among the handlers N that it leaves, when its user
\* has no socket in the room any more.
LEMMA CleanUpOrderly ==
    ASSUME Orderly, NEW t \in tasks, NEW N, tasks' = (tasks \ {t}) \cup N,
           UNCHANGED <<rows, ballot, told, entry>>,
           inside' = inside \ Here(t.user), t.at \in {"left", "kicked"},
           NEW n \in N, n.user = t.user, n.at = "removed"
    PROVE  Orderly'
<1>1. /\ members' = members /\ votes' = votes /\ voteRev' = voteRev /\ wiped' = wiped
      /\ told' = told /\ entry' = entry
    BY DEF rows, ballot
<1>2. \A v \in Users : Here(v)' \subseteq Here(v) /\ (v # t.user => Here(v)' = Here(v))
    BY DEF Here
<1>3. Checks(n) /\ Unvotes(n) /\ ~TellsVotes(t) /\ \E m \in N : TellsState(m)'
    BY DEF Checks, Unvotes, TellsState, TellsVotes
<1>4. \A v \in Users : entry'[v] = "disconnected" => Here(v)' = {}
    BY <1>1, <1>2 DEF Orderly, AwayHaveNone
<1>5. \A v \in Users : entry'[v] = "online" /\ Here(v)' = {} =>
          \/ \E m \in N : m.user = v /\ Checks(m)
          \/ entry[v] = "online" /\ Here(v) = {} /\ v # t.user
    BY <1>1, <1>2, <1>3
<1>6. \A v \in votes' : v \notin members' =>
          \/ \E m \in N : m.user = v /\ Unvotes(m)
          \/ v \in votes /\ v \notin members /\ v # t.user
    BY <1>1, <1>3
<1>7. voteRev' = voteRev /\ wiped' = wiped /\ told'.voteRev = told.voteRev /\ ~TellsVotes(t)
    BY <1>1, <1>3, Zenon
<1> QED
    BY <1>3, <1>4, <1>5, <1>6, <1>7, GoesOnOrderly, Zenon

LEMMA TakeOutOrderly ==
    ASSUME Typed, Orderly, NEW t \in tasks, TakeOut(t)
    PROVE  Orderly'
<1>1. /\ UNCHANGED <<rows, ballot, told, entry>>
      /\ inside' = inside \ Here(t.user) /\ t.at \in {"left", "kicked"}
      /\ Moves(t, "removed") /\ "removed" \in Stages
    BY DEF TakeOut, Is, Stages
<1>2. PICK n \in TaskSet : /\ tasks' = (tasks \ {t}) \cup {n}
                           /\ n.kind = t.kind /\ n.user = t.user /\ n.sock = t.sock
                           /\ n.at = "removed"
    BY <1>1, Moved
<1>3. n \in {n}
    OBVIOUS
<1> QED
    BY <1>1, <1>2, <1>3, CleanUpOrderly, Zenon

LEMMA ExpelOrderly ==
    ASSUME Typed, Orderly, NEW t \in tasks, Expel(t)
    PROVE  Orderly'
<1> DEFINE n == [t EXCEPT !.at = "removed"]
           N == {n} \cup {Task("drop", t.user, s, "gone") : s \in Here(t.user)}
<1>1. /\ UNCHANGED <<rows, ballot, told, entry>>
      /\ inside' = inside \ Here(t.user) /\ t.at \in {"left", "kicked"}
    BY DEF Expel, Is
<1>2. n.user = t.user /\ n.at = "removed"
    BY DEF Typed, FitTasks, TaskSet
<1>3. tasks' = (tasks \ {t}) \cup N
    BY DEF Expel
<1>4. n \in N
    OBVIOUS
<1> HIDE DEF n, N
<1> QED
    BY <1>1, <1>2, <1>3, <1>4, CleanUpOrderly, Zenon

LEMMA CancelOrderly ==
    ASSUME Typed, Orderly, NEW t \in tasks, Cancel(t)
    PROVE  Orderly'
<1> DEFINE u == t.user
<1>1. /\ members' = members /\ roomRev' = roomRev /\ votes' = votes /\ voteRev' = voteRev
      /\ wiped' = wiped /\ told' = told /\ inside' = inside
      /\ entry' = [entry EXCEPT ![u] = "none"] /\ t.at = "removed" /\ Moves(t, "unvote")
      /\ "unvote" \in Stages
    BY DEF Cancel, rows, sockets, ballot, Stages
<1>2. PICK n \in TaskSet : /\ tasks' = (tasks \ {t}) \cup {n}
                           /\ n.kind = t.kind /\ n.user = t.user /\ n.sock = t.sock
                           /\ n.at = "unvote"
    BY <1>1, Moved
<1>3. \A v \in Users : Here(v)' = Here(v)
    BY <1>1, HereSame
<1>4. u \in Users
    BY DEF Typed, FitTasks, TaskSet
<1> HIDE DEF u
<1>5. entry'[u] = "none" /\ \A v \in Users : v # u => entry'[v] = entry[v]
    BY <1>1, <1>4 DEF Typed, Shaped
<1> DEFINE N == {n}
<1>6. tasks' = (tasks \ {t}) \cup N
    BY <1>2, Zenon
<1>7. Unvotes(n) /\ ~TellsVotes(t) /\ \E m \in N : TellsState(m)'
    BY <1>1, <1>2 DEF Unvotes, TellsState, TellsVotes
<1>8. \A v \in Users : entry'[v] = "disconnected" => Here(v)' = {}
    BY <1>3, <1>5 DEF Orderly, AwayHaveNone
<1>9. \A v \in Users : entry'[v] = "online" /\ Here(v)' = {} =>
          entry[v] = "online" /\ Here(v) = {} /\ v # t.user
    BY <1>3, <1>5 DEF u
<1>10. \A v \in votes' : v \notin members' =>
           \/ \E m \in N : m.user = v /\ Unvotes(m)
           \/ v \in votes /\ v \notin members /\ (v # t.user \/ ~Unvotes(t))
    BY <1>1, <1>2, <1>7
<1>11. voteRev' = voteRev /\ wiped' = wiped /\ told'.voteRev = told.voteRev /\ ~TellsVotes(t)
    BY <1>1, <1>7, Zenon
<1> HIDE DEF N
<1> QED
    BY <1>6, <1>7, <1>8, <1>9, <1>10, <1>11, GoesOnOrderly, Zenon

-----------------------------------------------------------------------------
\* A handler that leaves the members, their sockets and the presence alone
LEMMA OnlyTellsOrderly ==
    ASSUME Orderly, NEW t \in tasks, NEW N, tasks' = (tasks \ {t}) \cup N, ~Checks(t),
           rows' = rows, sockets' = sockets, entry' = entry,
           \A u \in votes' : u \notin members =>
               u \in votes /\ (u # t.user \/ ~Unvotes(t)),
           \/ KnowsState'
           \/ \E n \in N : TellsState(n)'
           \/ \E j \in tasks \ {t} : TellsState(j)'
           \/ told' = told /\ ~TellsState(t),
           \/ KnowsVotes'
           \/ \E n \in N : TellsVotes(n)'
           \/ \E j \in tasks \ {t} : TellsVotes(j)'
           \/ voteRev' = voteRev /\ wiped' = wiped /\ told'.voteRev = told.voteRev
              /\ ~TellsVotes(t)
    PROVE  Orderly'
<1>1. members' = members /\ roomRev' = roomRev /\ inside' = inside
    BY DEF rows, sockets
<1>2. \A v \in Users : Here(v)' = Here(v)
    BY <1>1, HereSame
<1>3. \A u \in Users : entry'[u] = "disconnected" => Here(u)' = {}
    BY <1>2, Zenon DEF Orderly, AwayHaveNone
<1>4. \A u \in Users : entry'[u] = "online" /\ Here(u)' = {} =>
          entry[u] = "online" /\ Here(u) = {} /\ ~Checks(t)
    BY <1>2, Zenon
<1>5. \A u \in votes' : u \notin members' =>
          u \in votes /\ u \notin members /\ (u # t.user \/ ~Unvotes(t))
    BY <1>1
<1>6. \/ KnowsState'
      \/ \E n \in N : TellsState(n)'
      \/ \E j \in tasks \ {t} : TellsState(j)'
      \/ members' = members /\ roomRev' = roomRev /\ entry' = entry /\ told' = told
         /\ ~TellsState(t)
    BY <1>1, Zenon
<1> QED
    BY <1>3, <1>4, <1>5, <1>6, GoesOnOrderly, Zenon

LEMMA RemoveVoteOrderly ==
    ASSUME Typed, Orderly, NEW t \in tasks, RemoveVote(t)
    PROVE  Orderly'
<1>1. /\ rows' = rows /\ sockets' = sockets /\ entry' = entry
      /\ votes' = votes \ {t.user} /\ t.at = "unvote" /\ Moves(t, "state")
      /\ "state" \in Stages
    BY DEF RemoveVote, BecomeVotes, Stages
<1>2. t.kind \in {"evict", "leave", "kick"}
    BY <1>1 DEF Typed, FitTasks, Fits, Removals
<1>3. PICK n \in TaskSet : /\ tasks' = (tasks \ {t}) \cup {n}
                           /\ n.kind = t.kind /\ n.user = t.user /\ n.sock = t.sock
                           /\ n.at = "state"
    BY <1>1, Moved
<1> DEFINE N == {n}
<1>4. tasks' = (tasks \ {t}) \cup N
    BY <1>3, Zenon
<1>5. ~Checks(t) /\ (\E m \in N : TellsState(m)') /\ \E m \in N : TellsVotes(m)'
    BY <1>1, <1>2, <1>3 DEF Checks, TellsState, TellsVotes
<1>6. \A u \in votes' : u \notin members => u \in votes /\ u # t.user
    BY <1>1
<1> HIDE DEF N
<1> QED
    BY <1>1, <1>4, <1>5, <1>6, OnlyTellsOrderly, Zenon

LEMMA VoteOrderly ==
    ASSUME Typed, Orderly, NEW t \in tasks, Vote(t), ~raced'
    PROVE  Orderly'
<1>1. /\ rows' = rows /\ sockets' = sockets /\ entry' = entry /\ told' = told
      /\ votes' = votes \cup {t.user} /\ t.kind = "vote" /\ t.at = "asked"
      /\ Moves(t, "votes") /\ "votes" \in Stages
    BY DEF Vote, BecomeVotes, Is, Stages
<1>2. t.user \in members
    BY Zenon DEF Vote, Note
<1>3. PICK n \in TaskSet : /\ tasks' = (tasks \ {t}) \cup {n}
                           /\ n.kind = t.kind /\ n.user = t.user /\ n.sock = t.sock
                           /\ n.at = "votes"
    BY <1>1, Moved
<1> DEFINE N == {n}
<1>4. tasks' = (tasks \ {t}) \cup N
    BY <1>3, Zenon
<1>5. /\ ~Checks(t) /\ ~Unvotes(t) /\ ~TellsState(t)
      /\ \E m \in N : TellsVotes(m)'
    BY <1>1, <1>3 DEF Checks, Unvotes, TellsState, TellsVotes
<1>6. \A u \in votes' : u \notin members => u \in votes /\ ~Unvotes(t)
    BY <1>1, <1>2, <1>5
<1> HIDE DEF N
<1> QED
    BY <1>1, <1>4, <1>5, <1>6, OnlyTellsOrderly, Zenon

LEMMA ClearVotesOrderly ==
    ASSUME Typed, Orderly, NEW t \in tasks, ClearVotes(t)
    PROVE  Orderly'
<1>1. /\ rows' = rows /\ sockets' = sockets /\ entry' = entry /\ told' = told
      /\ votes' = {} /\ t.at = "clear votes" /\ Moves(t, "votes") /\ "votes" \in Stages
    BY DEF ClearVotes, BecomeVotes, Stages
<1>2. PICK n \in TaskSet : /\ tasks' = (tasks \ {t}) \cup {n}
                           /\ n.kind = t.kind /\ n.user = t.user /\ n.sock = t.sock
                           /\ n.at = "votes"
    BY <1>1, Moved
<1> DEFINE N == {n}
<1>3. tasks' = (tasks \ {t}) \cup N
    BY <1>2, Zenon
<1>4. ~Checks(t) /\ ~TellsState(t) /\ \E m \in N : TellsVotes(m)'
    BY <1>1, <1>2 DEF Checks, TellsState, TellsVotes
<1>5. \A u \in votes' : u \notin members => u \in votes /\ u # t.user
    BY <1>1
<1> HIDE DEF N
<1> QED
    BY <1>1, <1>3, <1>4, <1>5, OnlyTellsOrderly, Zenon

\* A start owes the room no votes: that they are gone is not told.
LEMMA StartOrderly ==
    ASSUME Typed, Orderly, NEW t \in tasks, Start(t)
    PROVE  Orderly'
<1>1. /\ rows' = rows /\ sockets' = sockets /\ entry' = entry /\ told' = told
      /\ t.kind = "start" /\ t.at = "asked"
    BY DEF Start, Is
<1>2. ~Checks(t) /\ ~Unvotes(t) /\ ~TellsState(t) /\ ~TellsVotes(t)
    BY <1>1 DEF Checks, Unvotes, TellsState, TellsVotes
<1>3. CASE Ends(t) /\ UNCHANGED ballot
    BY <1>1, <1>2, <1>3, EndsOrderly DEF Idle, sockets
<1>4. CASE /\ BecomeVotes({}) /\ Moves(t, "state")
           /\ wiped' = IF votes = {} THEN wiped ELSE voteRev'
    <2>0. "state" \in Stages
        BY DEF Stages
    <2>1. PICK n \in TaskSet : /\ tasks' = (tasks \ {t}) \cup {n}
                               /\ n.kind = t.kind /\ n.user = t.user /\ n.sock = t.sock
                               /\ n.at = "state"
        BY <1>4, <2>0, Moved
    <2> DEFINE N == {n}
    <2>2. tasks' = (tasks \ {t}) \cup N
        BY <2>1, Zenon
    <2>3. \A u \in votes' : u \notin members => u \in votes /\ ~Unvotes(t)
        BY <1>4 DEF BecomeVotes
    <2>4. KnowsVotes' \/ (voteRev' = voteRev /\ wiped' = wiped)
        BY <1>4 DEF BecomeVotes, Revised, KnowsVotes
    <2>5. told'.voteRev = told.voteRev
        BY <1>1
    <2> HIDE DEF N
    <2> QED
        BY <1>1, <1>2, <2>2, <2>3, <2>4, <2>5, OnlyTellsOrderly, Zenon
<1> QED
    BY <1>3, <1>4, Zenon DEF Start

LEMMA ReadMembersOrderly ==
    ASSUME Typed, Orderly, NEW t \in tasks, ReadMembers(t)
    PROVE  Orderly'
<1>1. /\ rows' = rows /\ sockets' = sockets /\ entry' = entry /\ UNCHANGED <<ballot, told>>
      /\ t.at = "state" /\ Sees(t, "picture", members, roomRev)
      /\ members \in SUBSET Users /\ roomRev \in Nat /\ "picture" \in Stages
    BY DEF ReadMembers, Typed, Shaped, Stages
<1>2. PICK n \in TaskSet : /\ tasks' = (tasks \ {t}) \cup {n}
                           /\ n.kind = t.kind /\ n.user = t.user /\ n.sock = t.sock
                           /\ n.at = "picture" /\ n.seen = members /\ n.rev = roomRev
    BY <1>1, Seen
<1>3. /\ roomRev' = roomRev /\ votes' = votes /\ voteRev' = voteRev /\ wiped' = wiped
      /\ told'.voteRev = told.voteRev
    BY <1>1 DEF rows, ballot
<1> DEFINE N == {n}
<1>4. tasks' = (tasks \ {t}) \cup N
    BY <1>2, Zenon
<1>5. ~Checks(t) /\ ~Unvotes(t) /\ \E m \in N : TellsState(m)'
    BY <1>1, <1>2, <1>3 DEF Checks, Unvotes, TellsState
<1>6. TellsVotes(t) => \E m \in N : TellsVotes(m)'
    BY <1>1, <1>2 DEF TellsVotes
<1>7. \A u \in votes' : u \notin members => u \in votes /\ ~Unvotes(t)
    BY <1>3, <1>5
<1> HIDE DEF N
<1> QED
    BY <1>1, <1>3, <1>4, <1>5, <1>6, <1>7, OnlyTellsOrderly, Zenon

LEMMA ReadVotesOrderly ==
    ASSUME Typed, Orderly, NEW t \in tasks, ReadVotes(t)
    PROVE  Orderly'
<1>1. /\ rows' = rows /\ sockets' = sockets /\ entry' = entry /\ UNCHANGED <<ballot, told>>
      /\ t.at = "votes" /\ Sees(t, "tally", votes, voteRev)
      /\ votes \in SUBSET Users /\ voteRev \in Nat /\ "tally" \in Stages
    BY DEF ReadVotes, Typed, Shaped, Stages
<1>2. PICK n \in TaskSet : /\ tasks' = (tasks \ {t}) \cup {n}
                           /\ n.kind = t.kind /\ n.user = t.user /\ n.sock = t.sock
                           /\ n.at = "tally" /\ n.seen = votes /\ n.rev = voteRev
    BY <1>1, Seen
<1>3. votes' = votes /\ voteRev' = voteRev /\ told' = told
    BY <1>1 DEF ballot
<1> DEFINE N == {n}
<1>4. tasks' = (tasks \ {t}) \cup N
    BY <1>2, Zenon
<1>5. ~Checks(t) /\ ~Unvotes(t) /\ ~TellsState(t) /\ \E m \in N : TellsVotes(m)'
    BY <1>1, <1>2, <1>3 DEF Checks, Unvotes, TellsState, TellsVotes
<1>6. \A u \in votes' : u \notin members => u \in votes /\ ~Unvotes(t)
    BY <1>3, <1>5
<1> HIDE DEF N
<1> QED
    BY <1>1, <1>3, <1>4, <1>5, <1>6, OnlyTellsOrderly, Zenon

\* What a broadcast says is so, or another one is still to come.
LEMMA TellStateOrderly ==
    ASSUME Typed, WasSo, Orderly, NEW t \in tasks, TellState(t), ~raced'
    PROVE  Orderly'
<1>1. /\ rows' = rows /\ sockets' = sockets /\ entry' = entry /\ UNCHANGED ballot
      /\ t.at = "picture"
      /\ told' = [told EXCEPT !.members = t.seen, !.away = Away \cap t.seen, !.roomRev = t.rev]
    BY DEF TellState
<1>2. members' = members /\ roomRev' = roomRev /\ votes' = votes /\ voteRev' = voteRev
      /\ wiped' = wiped
    BY <1>1 DEF rows, ballot
<1>3. /\ told'.roomRev = t.rev /\ told'.away = Away \cap t.seen /\ told'.voteRev = told.voteRev
      /\ t.rev \in Nat /\ told.roomRev \in Nat /\ roomRev \in Nat
    BY <1>1 DEF Typed, Shaped, FitTasks, TaskSet
<1>4. ~Checks(t) /\ ~Unvotes(t)
    BY <1>1 DEF Checks, Unvotes
<1>5. t.rev <= roomRev /\ (t.rev = roomRev => t.seen = members) /\ told.roomRev <= roomRev
    BY <1>1 DEF WasSo, ToldWasSo, Picture
<1>6. KnowsState' \/ \E j \in tasks \ {t} : TellsState(j)'
    <2>1. CASE t.rev = roomRev
        BY <1>1, <1>2, <1>3, <1>5, <2>1 DEF KnowsState, Away
    <2>2. CASE t.rev # roomRev
        <3>1. ~(t.rev < told.roomRev)
            BY Zenon DEF TellState, Note
        <3>2. told.roomRev # roomRev
            BY <1>3, <1>5, <2>2, <3>1
        <3>3. PICK j \in tasks : TellsState(j)
            BY <3>2, Zenon DEF Orderly, StateIsTold, KnowsState
        <3>4. j # t
            BY <1>1, <2>2, <3>3 DEF TellsState
        <3>5. TellsState(j)'
            BY <1>2, <3>3 DEF TellsState
        <3> QED
            BY <3>4, <3>5
    <2> QED
        BY <2>1, <2>2
<1>7. \A u \in votes' : u \notin members => u \in votes /\ ~Unvotes(t)
    BY <1>2, <1>4
<1>8. CASE t.kind \in {"join", "drop", "start"}
    <2> DEFINE N == {}
    <2>1. tasks' = (tasks \ {t}) \cup N
        BY <1>8 DEF TellState, Ends
    <2>2. ~TellsVotes(t)
        BY <1>1, <1>8 DEF TellsVotes
    <2> HIDE DEF N
    <2> QED
        BY <1>1, <1>2, <1>3, <1>4, <1>6, <1>7, <2>1, <2>2, OnlyTellsOrderly, Zenon
<1>9. CASE t.kind \notin {"join", "drop", "start"}
    <2>1. PICK at \in {"clear votes", "votes"} : Sees(t, at, {}, 0)
        BY <1>9 DEF TellState
    <2> DEFINE N == {[t EXCEPT !.at = at, !.seen = {}, !.rev = 0]}
    <2>2. tasks' = (tasks \ {t}) \cup N
        BY <2>1 DEF Sees
    <2>3. \A m \in N : m.at = at
        BY DEF Typed, FitTasks, TaskSet
    <2>4. \E m \in N : TellsVotes(m)'
        BY <2>3 DEF TellsVotes
    <2> HIDE DEF N
    <2> QED
        BY <1>1, <1>4, <1>6, <1>7, <2>2, <2>4, OnlyTellsOrderly, Zenon
<1> QED
    BY <1>8, <1>9

LEMMA TellVotesOrderly ==
    ASSUME Typed, WasSo, Orderly, NEW t \in tasks, TellVotes(t), ~raced'
    PROVE  Orderly'
<1>1. /\ rows' = rows /\ sockets' = sockets /\ entry' = entry /\ UNCHANGED ballot
      /\ t.at = "tally" /\ told' = [told EXCEPT !.votes = t.seen, !.voteRev = t.rev]
    BY DEF TellVotes
<1>2. members' = members /\ roomRev' = roomRev /\ votes' = votes /\ voteRev' = voteRev
      /\ wiped' = wiped
    BY <1>1 DEF rows, ballot
<1>3. /\ told'.roomRev = told.roomRev /\ told'.away = told.away /\ told'.voteRev = t.rev
      /\ t.rev \in Nat /\ told.voteRev \in Nat /\ voteRev \in Nat
    BY <1>1 DEF Typed, Shaped, FitTasks, TaskSet
<1>4. ~Checks(t) /\ ~Unvotes(t) /\ ~TellsState(t)
    BY <1>1 DEF Checks, Unvotes, TellsState
<1>5. t.rev <= voteRev /\ told.voteRev <= voteRev
    BY <1>1 DEF WasSo, ToldWasSo, Tally
<1>6. KnowsState' \/ \E j \in tasks \ {t} : TellsState(j)'
    <2>1. CASE KnowsState
        BY <1>1, <1>2, <1>3, <2>1 DEF KnowsState, Away
    <2>2. ASSUME NEW j \in tasks, TellsState(j)
          PROVE  \E k \in tasks \ {t} : TellsState(k)'
        <3>1. j # t
            BY <1>4, <2>2, Zenon
        <3>2. TellsState(j)'
            BY <1>2, <2>2 DEF TellsState
        <3> QED
            BY <3>1, <3>2
    <2> QED
        BY <2>1, <2>2, Zenon DEF Orderly, StateIsTold
<1>7. KnowsVotes' \/ \E j \in tasks \ {t} : TellsVotes(j)'
    <2>1. CASE t.rev = voteRev \/ wiped = voteRev
        BY <1>2, <1>3, <2>1 DEF KnowsVotes
    <2>2. CASE t.rev # voteRev /\ wiped # voteRev
        <3>1. ~(t.rev < told.voteRev)
            BY Zenon DEF TellVotes, Note
        <3>2. told.voteRev # voteRev
            BY <1>3, <1>5, <2>2, <3>1
        <3>3. PICK j \in tasks : TellsVotes(j)
            BY <2>2, <3>2, Zenon DEF Orderly, VotesAreTold, KnowsVotes
        <3>4. j # t
            BY <1>1, <2>2, <3>3 DEF TellsVotes
        <3>5. TellsVotes(j)'
            BY <1>2, <3>3 DEF TellsVotes
        <3> QED
            BY <3>4, <3>5
    <2> QED
        BY <2>1, <2>2
<1>8. \A u \in votes' : u \notin members => u \in votes /\ ~Unvotes(t)
    BY <1>2, <1>4
<1> DEFINE N == {}
<1>9. tasks' = (tasks \ {t}) \cup N
    BY DEF TellVotes, Ends
<1> HIDE DEF N
<1> QED
    BY <1>1, <1>4, <1>6, <1>7, <1>8, <1>9, OnlyTellsOrderly, Zenon

-----------------------------------------------------------------------------
LEMMA InitPresence == Init => PresenceInv
<1> SUFFICES ASSUME Init
             PROVE  Typed /\ WasSo /\ Orderly
    BY DEF PresenceInv
<1>1. Typed
    BY CreatorAssumption DEF Init, Typed, Shaped
<1>2. WasSo
    BY DEF Init, WasSo, ToldWasSo
<1>3. AwayHaveNone /\ SomebodyChecks /\ SomebodyUnvotes
    BY DEF Init, AwayHaveNone, SomebodyChecks, SomebodyUnvotes
<1>4. StateIsTold /\ VotesAreTold
    BY DEF Init, StateIsTold, VotesAreTold, KnowsState, KnowsVotes, Away
<1> QED
    BY <1>1, <1>2, <1>3, <1>4 DEF Orderly

LEMMA OrderlyStep ==
    ASSUME Typed, WasSo, Orderly, Next, ~raced'
    PROVE  Orderly'
<1>1. ASSUME NEW t \in tasks, Step(t)
      PROVE  Orderly'
    <2>1. CASE Admit(t) \/ Enter(t) \/ Fetch(t) \/ Mark(t)
        BY <2>1, AdmitOrderly, EnterOrderly, FetchOrderly, MarkOrderly
    <2>2. CASE Evict(t) \/ Leave(t) \/ Kick(t)
        BY <2>2, LeaversOrderly
    <2>3. CASE TakeOut(t) \/ Expel(t) \/ Cancel(t)
        BY <2>3, TakeOutOrderly, ExpelOrderly, CancelOrderly
    <2>4. CASE RemoveVote(t) \/ ClearVotes(t) \/ Vote(t) \/ Start(t)
        BY <2>4, RemoveVoteOrderly, ClearVotesOrderly, VoteOrderly, StartOrderly
    <2>5. CASE ReadMembers(t) \/ ReadVotes(t)
        BY <2>5, ReadMembersOrderly, ReadVotesOrderly
    <2>6. CASE TellState(t) \/ TellVotes(t)
        BY <2>6, TellStateOrderly, TellVotesOrderly
    <2> QED
        BY <1>1, <2>1, <2>2, <2>3, <2>4, <2>5, <2>6, Zenon DEF Step
<1>2. ASSUME NEW s \in inside, AskToLeave(s) \/ AskToVote(s) \/ AskToStart(s)
      PROVE  Orderly'
    BY <1>2, AsksOrderly DEF AskToLeave, AskToVote, AskToStart
<1>3. ASSUME NEW s \in inside, NEW u \in Users, AskToKick(s, u)
      PROVE  Orderly'
    BY <1>3, AsksOrderly DEF AskToKick
<1> QED
    BY <1>1, <1>2, <1>3, ConnectOrderly, DropOrderly, TimerOrderly, Zenon DEF Next

LEMMA StepPresence == PresenceInv /\ [Next]_vars => PresenceInv'
<1> SUFFICES ASSUME PresenceInv, [Next]_vars
             PROVE  raced' \/ Orderly'
    BY TypedStep, WasSoStep DEF PresenceInv
<1>1. CASE UNCHANGED vars
    <2>1. /\ UNCHANGED <<rows, ballot, told, entry>> /\ inside' = inside /\ tasks' = tasks
          /\ raced' = raced
        BY <1>1 DEF vars, sockets
    <2> QED
        BY <2>1, HereSame, Undisturbed DEF PresenceInv
<1>2. CASE Next
    BY <1>2, OrderlyStep, Zenon DEF PresenceInv, Next
<1> QED
    BY <1>1, <1>2

LEMMA PresenceInvRight == PresenceInv => CountdownMeansAway /\ RoomIsTold
<1>1. PresenceInv => CountdownMeansAway
    <2> SUFFICES ASSUME Typed, Orderly
                 PROVE  CountdownMeansAway
        BY DEF PresenceInv, CountdownMeansAway
    <2>1. \A u \in Away : Here(u) = {}
        BY DEF Away, Orderly, AwayHaveNone
    <2>2. Quiet => \A u \in members : entry[u] # "none" /\ Here(u) = {} => u \in Away
        BY DEF Quiet, Orderly, SomebodyChecks, Away, Typed, Shaped
    <2> QED
        BY <2>1, <2>2, Zenon DEF CountdownMeansAway
<1>2. PresenceInv => RoomIsTold
    <2> SUFFICES ASSUME Typed, WasSo, Orderly, Quiet
                 PROVE  /\ told.members = members /\ told.away = Away \cap members
                        /\ votes \subseteq members
                        /\ told.votes = votes \/ (wiped = voteRev /\ votes = {})
        BY DEF PresenceInv, RoomIsTold
    <2>1. KnowsState /\ KnowsVotes
        BY DEF Quiet, Orderly, StateIsTold, VotesAreTold
    <2>2. told.members = members /\ told.away = Away \cap members
        BY <2>1 DEF KnowsState, WasSo, ToldWasSo
    <2>3. told.votes = votes \/ (wiped = voteRev /\ votes = {})
        BY <2>1 DEF KnowsVotes, WasSo, ToldWasSo
    <2>4. votes \subseteq members
        BY DEF Quiet, Orderly, SomebodyUnvotes
    <2> QED
        BY <2>2, <2>3, <2>4, Zenon
<1> QED
    BY <1>1, <1>2

\* Nobody who has a socket in the room is counted down to an eviction, and in a
\* quiet room every member who came by a socket and has none left there is
\* (markDisconnectedIfLastSocket, markOnline, cancelEviction).
THEOREM CountdownMeansAwayCorrect == Spec => []CountdownMeansAway
BY PresenceInvRight, InitPresence, StepPresence, PTL DEF Spec

\* When nothing is in progress, the room was last told who its members are and who
\* of them is away, though every broadcast reads and sends in steps of its own; the
\* votes are those of members, and the room was told them unless a game's start
\* cleared them last (handleMemberRemoved, onVoteGame, broadcastRoomState, doStart).
THEOREM RoomIsToldCorrect == Spec => []RoomIsTold
BY PresenceInvRight, InitPresence, StepPresence, PTL DEF Spec

-----------------------------------------------------------------------------
(***************************************************************************)
(* Screens.  Of the status and the sessions the invariant says in which    *)
(* order they are set and who still owes the room the news; of the stores, *)
(* that each shows what was sent last or belongs to someone whose join is  *)
(* about to bring it.                                                      *)
(***************************************************************************)
Statuses == {"lobby", "in_game", "results"}
Rows == [status : Statuses \cup {"none"}, edition : Nat]
CallSteps == {"free", "started", "acted", "finished", "end", "state", "send"}
JobSteps == {"clean", "removed", "asked", "admitted", "entered", "state", "send",
             "catch up", "standings", "answer"}
Calls == [at : CallSteps, read : Rows, ends : BOOLEAN]
JobRecords ==
    [kind : {"return", "leave", "join"}, by : Players \cup {"server"}, conn : Nat,
     at : JobSteps, read : Rows, last : Nat]
Stores == [room : Statuses \cup {"none"}, view : Nat \X Nat, standings : Nat]

\* Where a job of each kind can be, and whose it is.
JobFits(j) ==
    \/ j.kind = "return" /\ j.at \in {"clean", "state", "send"}
    \/ j.kind = "leave" /\ j.at \in {"removed", "state", "send"}
    \/ /\ j.kind = "join" /\ j.by \in Players /\ j.conn # 0
       /\ j.at \in JobSteps \ {"clean", "removed"}

ScreensTyped ==
    /\ status \in Statuses
    /\ edition \in Nat /\ session \in Nat /\ version \in Nat
    /\ standings \in Nat /\ games \in Nat /\ spent \in Nat
    /\ sent \in Nat /\ begun \in Nat /\ ended \in Nat
    /\ call \in Calls
    /\ jobs \subseteq JobRecords /\ \A j \in jobs : JobFits(j)
    /\ conn \in [Players -> Nat]
    /\ inRoom \subseteq Connected
    /\ store \in [Players -> Stores]

\* What the status says of the session at each step of the call under the lock.
StatusFits ==
    /\ call.at = "free" => (status = "in_game" <=> session # 0)
    /\ call.at \in {"started", "acted", "finished"} => status = "in_game" /\ session # 0
    /\ call.at = "end" => status = "results" /\ session # 0 /\ call.ends
    /\ call.at \in {"state", "send"} =>
          IF call.ends THEN status = "results" /\ session = 0 ELSE status = "in_game" /\ session # 0
    /\ call.at = "finished" => call.ends
    /\ call.at \in {"started", "acted"} => ~call.ends
    /\ returning => call.at = "free" /\ status = "results"

\* Sessions are numbered in the order in which they begin and end.
SessionsInOrder ==
    /\ ended <= games /\ begun <= games
    /\ session # 0 => ended < session /\ session <= games
    /\ session # 0 /\ call.at # "started" => begun = session
    /\ standings <= ended
    /\ \A j \in jobs : j.last <= ended
    /\ status = "results" /\ call.at # "end" =>
          standings = ended /\ begun = ended /\ ended # 0

\* A row that was read is no newer than the room, and true while it is as new.
IsRow(read) == read.edition <= edition /\ (read.edition = edition => read.status = status)
HasRead(j) == j.at \in {"send", "catch up", "standings", "answer"}
ReadsAreRows ==
    /\ call.at = "send" => IsRow(call.read)
    /\ \A j \in jobs : HasRead(j) => IsRow(j.read)

\* Whoever has changed the status is about to tell.
Owes(j) == j.at \in {"clean", "state"} \/ (j.at = "send" /\ j.read.edition = edition)
StatusIsOwed ==
    /\ sent <= edition
    /\ \/ sent = edition
       \/ call.at \in {"started", "end", "state"}
       \/ call.at = "send" /\ call.read.edition = edition
       \/ \E j \in jobs : Owes(j)

Enters(p) == \E j \in jobs : j.kind = "join" /\ j.by = p /\ j.at \in {"entered", "state", "send"}

\* The stores in the room show the room as it was told last.
RoomFollows ==
    sent = edition => \A p \in inRoom : store[p].room = status \/ Enters(p)

Resumes(p) == \E j \in jobs : j.kind = "join" /\ j.by = p /\ j.at = "entered"

\* They show the game as it was pushed last.
ViewFollows ==
    session # 0 /\ call.at \notin {"started", "acted"} =>
        \A p \in inRoom : store[p].view = <<session, version>> \/ Resumes(p)

\* Who came after the game had ended is owed its standings.
CatchesUp(j) ==
    \/ j.at \in {"entered", "state"}
    \/ j.at \in {"send", "catch up"} /\ j.read.status = "results"
    \/ j.at = "standings" /\ j.last = ended
IsOwed(p) == \E j \in jobs : j.kind = "join" /\ j.by = p /\ j.conn = conn[p] /\ CatchesUp(j)

StandingsFollow ==
    status = "results" /\ call.at # "end" =>
        \A p \in inRoom : store[p].standings = ended \/ IsOwed(p)

InOrder == StatusFits /\ SessionsInOrder /\ ReadsAreRows /\ StatusIsOwed
Shown == RoomFollows /\ ViewFollows /\ StandingsFollow

ScreensInv == ScreensTyped /\ (~late => InOrder /\ Shown)

-----------------------------------------------------------------------------
\* The call under the lock goes on.
LEMMA FreeCall ==
    /\ Free \in Calls /\ Free.at = "free" /\ ~Free.ends
    /\ Free.read \in Rows /\ Free.read.edition = 0
<1>1. PICK row : row = [status |-> "none", edition |-> 0]
    OBVIOUS
<1>2. row \in Rows /\ row.edition = 0
    BY <1>1 DEF Rows
<1>3. PICK none \in BOOLEAN : ~none /\ none = FALSE
    OBVIOUS
<1>4. PICK c : c = [at |-> "free", read |-> row, ends |-> none]
    OBVIOUS
<1>5. c \in Calls
    BY <1>2, <1>3, <1>4 DEF Calls, CallSteps
<1>6. c.at = "free" /\ c.read = row
    BY <1>4
<1>7. ~c.ends
    BY <1>3, <1>4
<1>8. Free = c
    BY <1>1, <1>3, <1>4, Zenon DEF Free
<1> QED
    BY <1>2, <1>5, <1>6, <1>7, <1>8

LEMMA CallGoesOn ==
    ASSUME call \in Calls, NEW at \in CallSteps, OnTo(at)
    PROVE  call' \in Calls /\ call'.at = at /\ (call'.ends <=> call.ends) /\ call'.read = call.read
<1>1. call' = [call EXCEPT !.at = at]
    BY DEF OnTo
<1>2. call' \in Calls
    BY <1>1 DEF Calls
<1>3. call'.at = at /\ call'.read = call.read
    BY <1>1 DEF Calls
<1>4. call'.ends = call.ends
    BY <1>1 DEF Calls
<1> QED
    BY <1>2, <1>3, <1>4, Zenon

LEMMA CallFinishes ==
    ASSUME call \in Calls, call' = [call EXCEPT !.at = "finished", !.ends = TRUE]
    PROVE  call' \in Calls /\ call'.at = "finished" /\ call'.ends
<1>1. call' \in Calls /\ call'.at = "finished"
    BY DEF Calls, CallSteps
<1>2. call'.ends = TRUE
    BY DEF Calls
<1> QED
    BY <1>1, <1>2, Zenon

LEMMA RowIsRead == status \in Statuses /\ edition \in Nat
                   => Row \in Rows /\ Row.status = status /\ Row.edition = edition
BY DEF Row, Rows

LEMMA CallReads ==
    ASSUME call \in Calls, status \in Statuses, edition \in Nat,
           call' = [call EXCEPT !.at = "send", !.read = Row]
    PROVE  /\ call' \in Calls /\ call'.at = "send" /\ (call'.ends <=> call.ends)
           /\ call'.read.status = status /\ call'.read.edition = edition
<1>1. PICK row \in Rows : row = Row /\ row.status = status /\ row.edition = edition
    BY RowIsRead
<1>2. call' = [call EXCEPT !.at = "send", !.read = row]
    BY <1>1
<1>3. call' \in Calls /\ call'.at = "send" /\ call'.read = row
    BY <1>2 DEF Calls, CallSteps
<1>4. call'.ends = call.ends
    BY <1>2 DEF Calls
<1> QED
    BY <1>1, <1>3, <1>4, Zenon

-----------------------------------------------------------------------------
\* A job goes on: it is the same job at a later step.
JobGoes(j, u) ==
    /\ jobs' = (jobs \ {j}) \cup {u}
    /\ u \in JobRecords /\ u.kind = j.kind /\ u.by = j.by /\ u.conn = j.conn

LEMMA JobMoves ==
    ASSUME NEW j \in JobRecords, NEW at \in JobSteps, GoesTo(j, at)
    PROVE  \E u : JobGoes(j, u) /\ u.at = at /\ u.read = j.read /\ u.last = j.last
<1>1. PICK u : u = [j EXCEPT !.at = at]
    OBVIOUS
<1>2. u \in JobRecords /\ u.kind = j.kind /\ u.by = j.by /\ u.conn = j.conn
    BY <1>1 DEF JobRecords
<1>3. u.at = at /\ u.read = j.read /\ u.last = j.last
    BY <1>1 DEF JobRecords
<1>4. jobs' = (jobs \ {j}) \cup {u}
    BY <1>1 DEF GoesTo
<1> QED
    BY <1>2, <1>3, <1>4 DEF JobGoes

LEMMA JobReads ==
    ASSUME ScreensTyped, NEW j \in jobs, ReadState(j)
    PROVE  \E u : /\ JobGoes(j, u) /\ u.at = "send" /\ u.last = j.last
                  /\ u.read.status = status /\ u.read.edition = edition
<1>1. PICK row \in Rows : row = Row /\ row.status = status /\ row.edition = edition
    BY RowIsRead DEF ScreensTyped
<1>2. PICK u : u = [j EXCEPT !.at = "send", !.read = row]
    OBVIOUS
<1>3. j \in JobRecords
    BY DEF ScreensTyped
<1>4. u \in JobRecords /\ u.kind = j.kind /\ u.by = j.by /\ u.conn = j.conn
    BY <1>1, <1>2, <1>3 DEF JobRecords, JobSteps
<1>5. u.at = "send" /\ u.read = row /\ u.last = j.last
    BY <1>2, <1>3 DEF JobRecords
<1>6. jobs' = (jobs \ {j}) \cup {u}
    BY <1>1, <1>2 DEF ReadState
<1> QED
    BY <1>1, <1>4, <1>5, <1>6 DEF JobGoes

LEMMA JobTakesStandings ==
    ASSUME ScreensTyped, NEW j \in jobs,
           jobs' = (jobs \ {j}) \cup {[j EXCEPT !.at = "standings", !.last = standings]}
    PROVE  \E u : JobGoes(j, u) /\ u.at = "standings" /\ u.last = standings /\ u.read = j.read
<1>1. PICK u : u = [j EXCEPT !.at = "standings", !.last = standings]
    OBVIOUS
<1>2. j \in JobRecords /\ standings \in Nat
    BY DEF ScreensTyped
<1>3. u \in JobRecords /\ u.kind = j.kind /\ u.by = j.by /\ u.conn = j.conn
    BY <1>1, <1>2 DEF JobRecords, JobSteps
<1>4. u.at = "standings" /\ u.last = standings /\ u.read = j.read
    BY <1>1, <1>2 DEF JobRecords
<1>5. jobs' = (jobs \ {j}) \cup {u}
    BY <1>1
<1> QED
    BY <1>3, <1>4, <1>5 DEF JobGoes

LEMMA JobBegins ==
    ASSUME NEW kind \in {"return", "leave", "join"}, NEW p \in Players \cup {"server"},
           NEW c \in Nat, NEW at \in JobSteps, Adds(Job(kind, p, c, at))
    PROVE  \E u \in JobRecords :
              /\ jobs' = jobs \cup {u}
              /\ u.kind = kind /\ u.by = p /\ u.conn = c /\ u.at = at /\ u.last = 0
<1>1. PICK row : row = Free.read
    OBVIOUS
<1>2. row \in Rows
    BY <1>1, FreeCall
<1>3. PICK u : u = [kind |-> kind, by |-> p, conn |-> c, at |-> at, read |-> row, last |-> 0]
    OBVIOUS
<1>4. u \in JobRecords
    BY <1>2, <1>3 DEF JobRecords
<1>5. u.kind = kind /\ u.by = p /\ u.conn = c /\ u.at = at /\ u.last = 0
    BY <1>3
<1>6. jobs' = jobs \cup {u}
    BY <1>1, <1>3 DEF Adds, Job
<1> QED
    BY <1>4, <1>5, <1>6

-----------------------------------------------------------------------------
\* The stores take what they are told.
LEMMA StoresTold ==
    ASSUME store \in [Players -> Stores], NEW players
    PROVE  /\ \A v \in Statuses \cup {"none"} : store' = Tells(players, "room", v) =>
                 /\ store' \in [Players -> Stores]
                 /\ \A p \in Players : p \in players => store'[p].room = v
                 /\ \A p \in Players : p \notin players => store'[p].room = store[p].room
                 /\ \A p \in Players : store'[p].view = store[p].view
                 /\ \A p \in Players : store'[p].standings = store[p].standings
           /\ \A v \in Nat \X Nat : store' = Tells(players, "view", v) =>
                 /\ store' \in [Players -> Stores]
                 /\ \A p \in Players : p \in players => store'[p].view = v
                 /\ \A p \in Players : p \notin players => store'[p].view = store[p].view
                 /\ \A p \in Players : store'[p].room = store[p].room
                 /\ \A p \in Players : store'[p].standings = store[p].standings
<1>1. ASSUME NEW v \in Statuses \cup {"none"}, store' = Tells(players, "room", v)
      PROVE  /\ store' \in [Players -> Stores]
             /\ \A p \in Players : p \in players => store'[p].room = v
             /\ \A p \in Players : p \notin players => store'[p].room = store[p].room
             /\ \A p \in Players : store'[p].view = store[p].view
             /\ \A p \in Players : store'[p].standings = store[p].standings
    <2>1. store' = [p \in Players |-> IF p \in players THEN [store[p] EXCEPT !.room = v] ELSE store[p]]
        BY <1>1 DEF Tells
    <2>2. \A p \in Players : [store[p] EXCEPT !.room = v] \in Stores
        BY DEF Stores
    <2>3. store' \in [Players -> Stores]
        BY <2>1, <2>2
    <2>4. \A p \in Players : p \notin players => store'[p] = store[p]
        BY <2>1
    <2>5. \A p \in Players : p \in players => store'[p] = [store[p] EXCEPT !.room = v]
        BY <2>1
    <2>6. \A p \in Players : store[p] \in Stores
        OBVIOUS
    <2>7. \A p \in Players : p \in players =>
             store'[p].room = v /\ store'[p].view = store[p].view /\ store'[p].standings = store[p].standings
        BY <2>5, <2>6 DEF Stores
    <2> QED
        BY <2>3, <2>4, <2>7
<1>2. ASSUME NEW v \in Nat \X Nat, store' = Tells(players, "view", v)
      PROVE  /\ store' \in [Players -> Stores]
             /\ \A p \in Players : p \in players => store'[p].view = v
             /\ \A p \in Players : p \notin players => store'[p].view = store[p].view
             /\ \A p \in Players : store'[p].room = store[p].room
             /\ \A p \in Players : store'[p].standings = store[p].standings
    <2>1. store' = [p \in Players |-> IF p \in players THEN [store[p] EXCEPT !.view = v] ELSE store[p]]
        BY <1>2 DEF Tells
    <2>2. \A p \in Players : [store[p] EXCEPT !.view = v] \in Stores
        BY DEF Stores
    <2>3. store' \in [Players -> Stores]
        BY <2>1, <2>2
    <2>4. \A p \in Players : p \notin players => store'[p] = store[p]
        BY <2>1
    <2>5. \A p \in Players : p \in players => store'[p] = [store[p] EXCEPT !.view = v]
        BY <2>1
    <2>6. \A p \in Players : store[p] \in Stores
        OBVIOUS
    <2>7. \A p \in Players : p \in players =>
             store'[p].view = v /\ store'[p].room = store[p].room /\ store'[p].standings = store[p].standings
        BY <2>5, <2>6 DEF Stores
    <2> QED
        BY <2>3, <2>4, <2>7
<1> QED
    BY <1>1, <1>2

\* A push of a start or an end sets view and standings together.
Pushed(players, v, n) ==
    [p \in Players |-> IF p \in players
        THEN [store[p] EXCEPT !.view = v, !.standings = n] ELSE store[p]]

LEMMA StoresPushed ==
    ASSUME store \in [Players -> Stores], NEW players, NEW v \in Nat \X Nat, NEW n \in Nat,
           store' = Pushed(players, v, n)
    PROVE  /\ store' \in [Players -> Stores]
           /\ \A p \in Players : p \in players => store'[p].view = v /\ store'[p].standings = n
           /\ \A p \in Players : p \notin players => store'[p] = store[p]
           /\ \A p \in Players : store'[p].room = store[p].room
<1>1. \A p \in Players : [store[p] EXCEPT !.view = v, !.standings = n] \in Stores
    BY DEF Stores
<1>2. store' \in [Players -> Stores]
    BY <1>1 DEF Pushed
<1>3. \A p \in Players : store[p] \in Stores
    OBVIOUS
<1>4. \A p \in Players : p \in players =>
         store'[p].view = v /\ store'[p].standings = n /\ store'[p].room = store[p].room
    BY <1>3 DEF Stores, Pushed
<1>5. \A p \in Players : p \notin players => store'[p] = store[p]
    BY DEF Pushed
<1> QED
    BY <1>2, <1>4, <1>5

-----------------------------------------------------------------------------
\* Types.
JobsTyped == jobs \subseteq JobRecords /\ \A j \in jobs : JobFits(j)

LEMMA JobGoesTyped ==
    ASSUME JobsTyped, NEW j \in jobs, NEW u, JobGoes(j, u), JobFits(u)
    PROVE  /\ JobsTyped' /\ u \in jobs'
           /\ \A i \in jobs : i = j \/ i \in jobs'
           /\ \A i \in jobs' : i = u \/ i \in jobs
BY DEF JobsTyped, JobGoes, JobFits

LEMMA JobEndsTyped ==
    ASSUME JobsTyped, NEW j \in jobs, Done(j)
    PROVE  /\ JobsTyped'
           /\ \A i \in jobs : i = j \/ i \in jobs'
           /\ \A i \in jobs' : i \in jobs
BY DEF JobsTyped, Done, JobFits

LEMMA JobBeginsTyped ==
    ASSUME JobsTyped, NEW u \in JobRecords, jobs' = jobs \cup {u}, JobFits(u)
    PROVE  JobsTyped'
BY DEF JobsTyped, JobFits

LEMMA PartsTyped ==
    ASSUME ScreensTyped
    PROVE  /\ call \in Calls /\ store \in [Players -> Stores] /\ JobsTyped
           /\ \A j \in jobs : j \in JobRecords /\ JobFits(j) /\ j.last \in Nat
                              /\ j.read \in Rows /\ j.read.edition \in Nat
           /\ call.read \in Rows /\ call.read.edition \in Nat
           /\ \A p \in inRoom : p \in Players /\ p \in Connected /\ conn[p] # 0
           /\ <<session, version>> \in Nat \X Nat /\ NoView \in Nat \X Nat
           /\ status \in Statuses /\ edition \in Nat
           /\ sent \in Nat /\ begun \in Nat /\ ended \in Nat /\ session \in Nat
<1>1. \A j \in jobs : j \in JobRecords /\ JobFits(j)
    BY DEF ScreensTyped
<1>2. \A j \in JobRecords : j.last \in Nat /\ j.read \in Rows
    BY DEF JobRecords
<1>3. \A r \in Rows : r.edition \in Nat
    BY DEF Rows
<1>4. call.read \in Rows
    BY DEF ScreensTyped, Calls
<1>5. \A p \in inRoom : p \in Players /\ p \in Connected /\ conn[p] # 0
    BY DEF ScreensTyped, Connected
<1>6. <<session, version>> \in Nat \X Nat /\ NoView \in Nat \X Nat
    BY DEF ScreensTyped, NoView
<1> QED
    BY <1>1, <1>2, <1>3, <1>4, <1>5, <1>6 DEF ScreensTyped, JobsTyped

LEMMA LinksStay ==
    ASSUME ScreensTyped, UNCHANGED links
    PROVE  conn' \in [Players -> Nat] /\ inRoom' \subseteq Connected' /\ spent' \in Nat
BY DEF ScreensTyped, links, Connected

\* What a step must keep of the types, part by part.
LEMMA StaysTyped ==
    ASSUME status' \in Statuses, edition' \in Nat, session' \in Nat, version' \in Nat,
           standings' \in Nat, games' \in Nat,
           sent' \in Nat, begun' \in Nat, ended' \in Nat,
           call' \in Calls, JobsTyped',
           conn' \in [Players -> Nat] /\ inRoom' \subseteq Connected' /\ spent' \in Nat,
           store' \in [Players -> Stores]
    PROVE  ScreensTyped'
BY DEF ScreensTyped, JobsTyped

LEMMA ServerStays ==
    ASSUME ScreensTyped, UNCHANGED server
    PROVE  /\ status' \in Statuses /\ edition' \in Nat /\ session' \in Nat /\ version' \in Nat
           /\ standings' \in Nat /\ games' \in Nat
BY DEF ScreensTyped, server

-----------------------------------------------------------------------------
\* What a step must keep for the screens, store by store.
LEMMA RoomKept ==
    ASSUME RoomFollows, UNCHANGED <<sent, edition, status>>,
           \A p \in inRoom' :
              \/ Enters(p)'
              \/ store'[p].room = status
              \/ p \in inRoom /\ store'[p].room = store[p].room /\ (Enters(p) => Enters(p)')
    PROVE  RoomFollows'
<1>1. sent' = sent /\ edition' = edition /\ status' = status
    OBVIOUS
<1> QED
    BY <1>1, Zenon DEF RoomFollows

LEMMA ViewKept ==
    ASSUME ViewFollows, UNCHANGED <<session, version>>,
           session # 0 /\ call'.at \notin {"started", "acted"} =>
              /\ call.at \notin {"started", "acted"}
              /\ \A p \in inRoom' :
                    \/ Resumes(p)'
                    \/ store'[p].view = <<session, version>>
                    \/ p \in inRoom /\ store'[p].view = store[p].view /\ (Resumes(p) => Resumes(p)')
    PROVE  ViewFollows'
<1>1. session' = session /\ version' = version
    OBVIOUS
<1> QED
    BY <1>1, Zenon DEF ViewFollows

LEMMA StandingsKept ==
    ASSUME StandingsFollow, ended' = ended,
           status' = "results" /\ call'.at # "end" =>
              /\ status = "results" /\ call.at # "end"
              /\ \A p \in inRoom' :
                    \/ IsOwed(p)'
                    \/ store'[p].standings = ended
                    \/ /\ p \in inRoom /\ store'[p].standings = store[p].standings
                       /\ IsOwed(p) => IsOwed(p)'
    PROVE  StandingsFollow'
BY Zenon DEF StandingsFollow

\* Jobs that stay keep what they owe to those who keep their connections.
LEMMA OwedStays ==
    ASSUME NEW p, conn'[p] = conn[p], ended' = ended,
           \A j \in jobs : j.kind = "join" /\ j.by = p => j \in jobs'
    PROVE  /\ Enters(p) => Enters(p)'
           /\ Resumes(p) => Resumes(p)'
           /\ IsOwed(p) => IsOwed(p)'
<1>1. Enters(p) => Enters(p)'
    BY DEF Enters
<1>2. Resumes(p) => Resumes(p)'
    BY DEF Resumes
<1>3. IsOwed(p) => IsOwed(p)'
    BY DEF IsOwed, CatchesUp
<1> QED
    BY <1>1, <1>2, <1>3

\* A job that goes on keeps what it owes, unless this is the step that pays.
LEMMA OwedMoves ==
    ASSUME JobsTyped, NEW j \in jobs, NEW u, JobGoes(j, u), JobFits(u),
           NEW p, conn'[p] = conn[p], ended' = ended
    PROVE  /\ j.at \notin {"entered", "state", "send"} \/ u.at \in {"entered", "state", "send"}
              => (Enters(p) => Enters(p)')
           /\ j.at # "entered" \/ j.by # p => (Resumes(p) => Resumes(p)')
           /\ j.kind # "join" \/ j.by # p \/ j.conn # conn[p] \/ ~CatchesUp(j) \/ CatchesUp(u)
              => (IsOwed(p) => IsOwed(p)')
<1>1. \A i \in jobs : i = j \/ i \in jobs'
    BY JobGoesTyped
<1>2. u \in jobs' /\ u.kind = j.kind /\ u.by = j.by /\ u.conn = j.conn
    BY JobGoesTyped DEF JobGoes
<1>3. \A i : CatchesUp(i)' <=> CatchesUp(i)
    BY DEF CatchesUp
<1>4. j.at \notin {"entered", "state", "send"} \/ u.at \in {"entered", "state", "send"}
      => (Enters(p) => Enters(p)')
    BY <1>1, <1>2 DEF Enters
<1>5. j.at # "entered" \/ j.by # p => (Resumes(p) => Resumes(p)')
    BY <1>1, <1>2 DEF Resumes
<1>6. j.kind # "join" \/ j.by # p \/ j.conn # conn[p] \/ ~CatchesUp(j) \/ CatchesUp(u)
      => (IsOwed(p) => IsOwed(p)')
    BY <1>1, <1>2, <1>3 DEF IsOwed
<1> QED
    BY <1>4, <1>5, <1>6

\* A step that leaves the server and the call alone keeps their order.
LEMMA OrderStays ==
    ASSUME InOrder, UNCHANGED <<server, call, sent, begun, ended>>,
           \A u \in jobs' : u \in jobs \/ (u.last <= ended /\ (HasRead(u) => IsRow(u.read))),
           \A j \in jobs : Owes(j) => j \in jobs' \/ \E u \in jobs' : Owes(u)
    PROVE  InOrder'
<1>1. /\ status' = status /\ edition' = edition /\ session' = session /\ standings' = standings
      /\ returning' = returning /\ games' = games /\ call' = call
      /\ sent' = sent /\ begun' = begun /\ ended' = ended
    BY DEF server
<1>2. StatusFits'
    BY <1>1 DEF StatusFits, InOrder
<1>3. SessionsInOrder'
    BY <1>1 DEF SessionsInOrder, InOrder
<1>4. \A u \in jobs' : HasRead(u) => IsRow(u.read)
    BY DEF InOrder, ReadsAreRows
<1>5. \A r : IsRow(r)' <=> IsRow(r)
    BY <1>1 DEF IsRow
<1>6. \A u : (HasRead(u)' <=> HasRead(u)) /\ (Owes(u)' <=> Owes(u))
    BY <1>1 DEF HasRead, Owes
<1>7. ReadsAreRows'
    BY <1>1, <1>4, <1>5, <1>6 DEF ReadsAreRows, InOrder
<1>8. (\E j \in jobs : Owes(j)) => \E j \in jobs' : Owes(j)'
    BY <1>6
<1>9. StatusIsOwed'
    BY <1>1, <1>8 DEF StatusIsOwed, InOrder
<1> QED
    BY <1>2, <1>3, <1>7, <1>9 DEF InOrder

\* A step that sets the status makes all that was read and sent older than it.
LEMMA StatusIsNewer ==
    ASSUME ScreensTyped, InOrder, edition' = edition + 1, sent' = sent,
           call'.at # "send",
           \A u \in jobs' : HasRead(u) => u \in jobs
    PROVE  ReadsAreRows' /\ RoomFollows' /\ sent' <= edition'
<1>1. edition \in Nat /\ sent \in Nat /\ sent <= edition
    BY DEF ScreensTyped, InOrder, StatusIsOwed
<1>2. \A u \in jobs' : HasRead(u) => u.read.edition <= edition /\ u.read.edition \in Nat
    BY PartsTyped DEF InOrder, ReadsAreRows, IsRow
<1>3. \A u \in jobs' : HasRead(u) => IsRow(u.read)'
    BY <1>1, <1>2 DEF IsRow
<1>4. \A u : HasRead(u)' <=> HasRead(u)
    BY DEF HasRead
<1>5. ReadsAreRows'
    BY <1>3, <1>4 DEF ReadsAreRows
<1>6. RoomFollows'
    BY <1>1 DEF RoomFollows
<1> QED
    BY <1>1, <1>5, <1>6

\* A step of the call leaves the jobs and the links alone.
LEMMA LinksKept ==
    ASSUME ScreensTyped, UNCHANGED <<jobs, links>>
    PROVE  /\ JobsTyped'
           /\ conn' \in [Players -> Nat] /\ inRoom' \subseteq Connected' /\ spent' \in Nat
           /\ jobs' = jobs /\ conn' = conn /\ inRoom' = inRoom
           /\ \A p : (Enters(p) => Enters(p)') /\ (Resumes(p) => Resumes(p)')
           /\ \A p : ended' = ended => (IsOwed(p) => IsOwed(p)')
           /\ \A p \in inRoom' : p \in inRoom /\ p \in Players
<1>1. jobs' = jobs /\ conn' = conn /\ inRoom' = inRoom
    BY DEF links
<1>2. JobsTyped'
    BY <1>1, PartsTyped DEF JobsTyped, JobFits
<1>3. \A p : (Enters(p) => Enters(p)') /\ (Resumes(p) => Resumes(p)')
    BY <1>1 DEF Enters, Resumes
<1>4. \A p : ended' = ended => (IsOwed(p) => IsOwed(p)')
    BY <1>1 DEF IsOwed, CatchesUp
<1>5. \A p \in inRoom' : p \in inRoom /\ p \in Players
    BY <1>1, PartsTyped
<1> QED
    BY <1>1, <1>2, <1>3, <1>4, <1>5, LinksStay

\* A step of the call that sets no status leaves what is owed to the jobs.
LEMMA ReadsStay ==
    ASSUME InOrder, UNCHANGED <<status, edition, jobs>>, call'.at # "send"
    PROVE  ReadsAreRows'
<1>1. \A r : IsRow(r)' <=> IsRow(r)
    BY DEF IsRow
<1>2. \A u : HasRead(u)' <=> HasRead(u)
    BY DEF HasRead
<1> QED
    BY <1>1, <1>2 DEF ReadsAreRows, InOrder

LEMMA DebtStays ==
    ASSUME UNCHANGED <<edition, jobs>>, \E j \in jobs : Owes(j)
    PROVE  (\E j \in jobs : Owes(j))'
BY DEF Owes

-----------------------------------------------------------------------------
\* The steps of the call, each with what it keeps.
LEMMA StartGameKeeps ==
    ASSUME ScreensTyped, InOrder, StartGame
    PROVE  ScreensTyped' /\ InOrder' /\ Shown'
<1>0. call = Free /\ call.at = "free" /\ ~call.ends
    BY FreeCall DEF StartGame, Unlocked
<1>1. status = "lobby" /\ status' = "in_game" /\ edition' = edition + 1
      /\ games' = games + 1 /\ session' = games' /\ version' = 0
    BY DEF StartGame, SetStatus
<1>2. call' \in Calls /\ call'.at = "started" /\ (call'.ends <=> call.ends)
    <2>1. OnTo("started")
        BY DEF StartGame
    <2> QED
        BY <2>1, CallGoesOn, PartsTyped DEF CallSteps
<1>3. UNCHANGED <<standings, returning, seated, jobs, links, store, past>>
    BY DEF StartGame
<1>4. UNCHANGED <<standings, returning, store, sent, begun, ended>> /\ UNCHANGED <<jobs, links>>
    BY <1>3 DEF past
<1>5. ScreensTyped'
    <2>1. /\ status' \in Statuses /\ edition' \in Nat /\ games' \in Nat /\ session' \in Nat
          /\ version' \in Nat /\ standings' \in Nat
          /\ sent' \in Nat /\ begun' \in Nat /\ ended' \in Nat /\ store' \in [Players -> Stores]
        BY <1>1, <1>4 DEF ScreensTyped, Statuses
    <2> QED
        BY <1>2, <1>4, <2>1, LinksKept, StaysTyped
<1>6. ~returning
    BY <1>1 DEF InOrder, StatusFits
<1>7. StatusFits'
    <2>1. ~returning' /\ ~call'.ends
        BY <1>0, <1>2, <1>4, <1>6, Zenon
    <2>2. session' # 0
        BY <1>1 DEF ScreensTyped
    <2> QED
        BY <1>1, <1>2, <2>1, <2>2 DEF StatusFits
<1>8. SessionsInOrder'
    <2>1. ended <= games /\ begun <= games /\ standings <= ended /\ \A j \in jobs : j.last <= ended
        BY DEF InOrder, SessionsInOrder
    <2>2. ended \in Nat /\ begun \in Nat /\ games \in Nat
        BY DEF ScreensTyped
    <2> QED
        BY <1>1, <1>2, <1>4, <2>1, <2>2 DEF SessionsInOrder
<1>9. ReadsAreRows' /\ RoomFollows' /\ sent' <= edition'
    BY <1>1, <1>2, <1>4, StatusIsNewer
<1>10. StatusIsOwed'
    BY <1>2, <1>9 DEF StatusIsOwed
<1>11. ViewFollows' /\ StandingsFollow'
    BY <1>1, <1>2 DEF ViewFollows, StandingsFollow
<1> QED
    BY <1>5, <1>7, <1>8, <1>9, <1>10, <1>11 DEF InOrder, Shown

LEMMA PushStartKeeps ==
    ASSUME ScreensTyped, InOrder, Shown, PushStart
    PROVE  ScreensTyped' /\ InOrder' /\ Shown'
<1>1. call.at = "started" /\ begun' = session
    BY DEF PushStart
<1>2. call' \in Calls /\ call'.at = "state" /\ (call'.ends <=> call.ends)
    <2>1. OnTo("state")
        BY DEF PushStart
    <2> QED
        BY <2>1, CallGoesOn, PartsTyped DEF CallSteps
<1>3. UNCHANGED <<server, seated, jobs, links, sent, ended, late>>
    BY DEF PushStart
<1>4. UNCHANGED server /\ UNCHANGED <<status, edition, session, version, standings, returning, games>>
      /\ UNCHANGED <<sent, ended>> /\ UNCHANGED <<jobs, links>>
    BY <1>3 DEF server
<1>5. PICK v \in Nat \X Nat : v = <<session, version>>
    BY PartsTyped
<1>6. /\ store' \in [Players -> Stores]
      /\ \A p \in Players : p \in Connected => store'[p].view = v
      /\ \A p \in Players : store'[p].room = store[p].room
    <2>1. PICK players : players = Connected
        OBVIOUS
    <2>2. PICK n \in Nat : n = 0
        OBVIOUS
    <2>3. store' = Pushed(players, v, n)
        BY <1>5, <2>1, <2>2 DEF PushStart, Pushed
    <2>4. store \in [Players -> Stores]
        BY PartsTyped
    <2>5. /\ store' \in [Players -> Stores]
          /\ \A p \in Players : p \in players => store'[p].view = v
          /\ \A p \in Players : store'[p].room = store[p].room
        BY <2>3, <2>4, StoresPushed
    <2> QED
        BY <2>1, <2>5
<1>7. ScreensTyped'
    <2>1. sent' \in Nat /\ begun' \in Nat /\ ended' \in Nat
        BY <1>1, <1>4 DEF ScreensTyped
    <2> QED
        BY <1>2, <1>4, <1>6, <2>1, LinksKept, ServerStays, StaysTyped
<1>8. status = "in_game" /\ session # 0 /\ ~call.ends /\ ~returning
    BY <1>1 DEF InOrder, StatusFits
<1>9. StatusFits'
    <2>1. ~returning' /\ ~call'.ends
        BY <1>2, <1>4, <1>8, Zenon
    <2> QED
        BY <1>2, <1>4, <1>8, <2>1 DEF StatusFits
<1>10. SessionsInOrder'
    BY <1>1, <1>2, <1>4, <1>8 DEF InOrder, SessionsInOrder
<1>11. ReadsAreRows'
    BY <1>2, <1>4, ReadsStay
<1>12. StatusIsOwed'
    BY <1>2, <1>4 DEF StatusIsOwed, InOrder
<1>13. RoomFollows'
    BY <1>4, <1>6, LinksKept, RoomKept DEF Shown
<1>14. ViewFollows'
    BY <1>4, <1>5, <1>6, LinksKept, PartsTyped DEF ViewFollows
<1>15. StandingsFollow'
    BY <1>4, <1>8 DEF StandingsFollow
<1> QED
    BY <1>7, <1>9, <1>10, <1>11, <1>12, <1>13, <1>14, <1>15 DEF InOrder, Shown

LEMMA ActKeeps ==
    ASSUME ScreensTyped, InOrder, Shown, Act
    PROVE  ScreensTyped' /\ InOrder' /\ Shown'
<1>0. call = Free /\ call.at = "free" /\ ~call.ends /\ session # 0
    BY FreeCall DEF Act, Unlocked
<1>1. status = "in_game" /\ ~returning
    BY <1>0 DEF InOrder, StatusFits
<1>2. call' \in Calls /\ call'.at = "acted" /\ (call'.ends <=> call.ends)
    <2>1. OnTo("acted")
        BY DEF Act
    <2> QED
        BY <2>1, CallGoesOn, PartsTyped DEF CallSteps
<1>3. UNCHANGED <<status, edition, session, standings, returning, games>>
      /\ UNCHANGED <<jobs, links>> /\ UNCHANGED <<store, sent, begun, ended>>
    BY DEF Act, past
<1>4. ScreensTyped'
    <2>1. /\ status' \in Statuses /\ edition' \in Nat /\ games' \in Nat /\ session' \in Nat
          /\ version' \in Nat /\ standings' \in Nat
          /\ sent' \in Nat /\ begun' \in Nat /\ ended' \in Nat /\ store' \in [Players -> Stores]
        BY <1>3 DEF ScreensTyped, Act
    <2> QED
        BY <1>2, <1>3, <2>1, LinksKept, StaysTyped
<1>5. StatusFits'
    <2>1. ~returning' /\ ~call'.ends
        BY <1>0, <1>1, <1>2, <1>3, Zenon
    <2> QED
        BY <1>0, <1>1, <1>2, <1>3, <2>1 DEF StatusFits
<1>6. SessionsInOrder'
    BY <1>0, <1>1, <1>2, <1>3 DEF InOrder, SessionsInOrder
<1>7. ReadsAreRows'
    BY <1>2, <1>3, ReadsStay
<1>8. StatusIsOwed'
    <2>1. sent <= edition /\ (sent = edition \/ \E j \in jobs : Owes(j))
        BY <1>0 DEF InOrder, StatusIsOwed
    <2> QED
        BY <1>3, <2>1, DebtStays DEF StatusIsOwed
<1>9. RoomFollows'
    BY <1>3, LinksKept, RoomKept DEF Shown
<1>10. ViewFollows' /\ StandingsFollow'
    BY <1>1, <1>2, <1>3 DEF ViewFollows, StandingsFollow
<1> QED
    BY <1>4, <1>5, <1>6, <1>7, <1>8, <1>9, <1>10 DEF InOrder, Shown

LEMMA PushKeeps ==
    ASSUME ScreensTyped, InOrder, Shown, Push
    PROVE  ScreensTyped' /\ InOrder' /\ Shown'
<1>0. call.at = "acted"
    BY DEF Push
<1>1. status = "in_game" /\ session # 0 /\ ~call.ends /\ ~returning
    BY <1>0 DEF InOrder, StatusFits
<1>2. /\ call' \in Calls /\ call'.at \in {"free", "finished"}
      /\ call'.at = "free" => ~call'.ends
      /\ call'.at = "finished" => call'.ends
    <2>1. CASE call' = Free
        BY <2>1, FreeCall
    <2>2. CASE call' = [call EXCEPT !.at = "finished", !.ends = TRUE]
        BY <2>2, CallFinishes, PartsTyped
    <2> QED
        BY <2>1, <2>2 DEF Push
<1>3. UNCHANGED server /\ UNCHANGED <<status, edition, session, version, standings, returning, games>>
      /\ UNCHANGED <<jobs, links>> /\ UNCHANGED <<sent, begun, ended>>
    BY DEF Push, past, server
<1>4. PICK v \in Nat \X Nat : v = <<session, version>>
    BY PartsTyped
<1>5. PICK players : players = Connected
    OBVIOUS
<1>6. /\ store' \in [Players -> Stores]
      /\ \A p \in Players : p \in players => store'[p].view = v
      /\ \A p \in Players : store'[p].room = store[p].room
    <2>1. store' = Tells(players, "view", v)
        BY <1>4, <1>5 DEF Push, ShowView
    <2> QED
        BY <2>1, StoresTold, PartsTyped
<1>7. ScreensTyped'
    <2>1. sent' \in Nat /\ begun' \in Nat /\ ended' \in Nat
        BY <1>3 DEF ScreensTyped
    <2> QED
        BY <1>2, <1>3, <1>6, <2>1, LinksKept, ServerStays, StaysTyped
<1>8. StatusFits'
    <2>1. ~returning'
        BY <1>1, <1>3, Zenon
    <2> QED
        BY <1>1, <1>2, <1>3, <2>1 DEF StatusFits
<1>9. SessionsInOrder'
    BY <1>0, <1>1, <1>2, <1>3 DEF InOrder, SessionsInOrder
<1>10. ReadsAreRows'
    BY <1>2, <1>3, ReadsStay
<1>11. StatusIsOwed'
    <2>1. sent <= edition /\ (sent = edition \/ \E j \in jobs : Owes(j))
        BY <1>0 DEF InOrder, StatusIsOwed
    <2> QED
        BY <1>3, <2>1, DebtStays DEF StatusIsOwed
<1>12. RoomFollows'
    BY <1>3, <1>6, LinksKept, RoomKept DEF Shown
<1>13. ViewFollows'
    BY <1>3, <1>4, <1>5, <1>6, LinksKept, PartsTyped DEF ViewFollows
<1>14. StandingsFollow'
    BY <1>1, <1>3 DEF StandingsFollow
<1> QED
    BY <1>7, <1>8, <1>9, <1>10, <1>11, <1>12, <1>13, <1>14 DEF InOrder, Shown

LEMMA FinishKeeps ==
    ASSUME ScreensTyped, InOrder, Shown, Finish
    PROVE  ScreensTyped' /\ InOrder' /\ Shown'
<1>0. call.at = "finished" /\ status' = "results" /\ edition' = edition + 1
    BY DEF Finish, SetStatus
<1>1. status = "in_game" /\ session # 0 /\ call.ends /\ ~returning
    BY <1>0 DEF InOrder, StatusFits
<1>2. call' \in Calls /\ call'.at = "end" /\ (call'.ends <=> call.ends)
    <2>1. OnTo("end")
        BY DEF Finish
    <2> QED
        BY <2>1, CallGoesOn, PartsTyped DEF CallSteps
<1>3. UNCHANGED <<session, version, standings, returning, games>>
      /\ UNCHANGED <<jobs, links>> /\ UNCHANGED <<store, sent, begun, ended>>
    BY DEF Finish, past
<1>4. ScreensTyped'
    <2>1. /\ status' \in Statuses /\ edition' \in Nat /\ games' \in Nat /\ session' \in Nat
          /\ version' \in Nat /\ standings' \in Nat
          /\ sent' \in Nat /\ begun' \in Nat /\ ended' \in Nat /\ store' \in [Players -> Stores]
        BY <1>0, <1>3 DEF ScreensTyped, Statuses
    <2> QED
        BY <1>2, <1>3, <2>1, LinksKept, StaysTyped
<1>5. StatusFits'
    <2>1. ~returning' /\ call'.ends
        BY <1>1, <1>2, <1>3, Zenon
    <2> QED
        BY <1>0, <1>1, <1>2, <1>3, <2>1 DEF StatusFits
<1>6. SessionsInOrder'
    BY <1>0, <1>1, <1>2, <1>3 DEF InOrder, SessionsInOrder
<1>7. ReadsAreRows' /\ RoomFollows' /\ sent' <= edition'
    BY <1>0, <1>2, <1>3, StatusIsNewer
<1>8. StatusIsOwed'
    BY <1>2, <1>7 DEF StatusIsOwed
<1>9. ViewFollows'
    BY <1>0, <1>3, LinksKept, ViewKept DEF Shown
<1>10. StandingsFollow'
    BY <1>2 DEF StandingsFollow
<1> QED
    BY <1>4, <1>5, <1>6, <1>7, <1>8, <1>9, <1>10 DEF InOrder, Shown

LEMMA EndKeeps ==
    ASSUME ScreensTyped, InOrder, Shown, End
    PROVE  ScreensTyped' /\ InOrder' /\ Shown'
<1>0. call.at = "end" /\ session' = 0 /\ version' = 0 /\ standings' = session /\ ended' = session
    BY DEF End
<1>1. status = "results" /\ session # 0 /\ call.ends /\ ~returning
    BY <1>0 DEF InOrder, StatusFits
<1>2. call' \in Calls /\ call'.at = "state" /\ (call'.ends <=> call.ends)
    <2>1. OnTo("state")
        BY DEF End
    <2> QED
        BY <2>1, CallGoesOn, PartsTyped DEF CallSteps
<1>3. UNCHANGED <<status, edition, returning, games>>
      /\ UNCHANGED <<jobs, links>> /\ UNCHANGED <<sent, begun>>
    BY DEF End
<1>4. PICK n \in Nat : n = session
    BY PartsTyped
<1>5. PICK players : players = Connected
    OBVIOUS
<1>6. /\ store' \in [Players -> Stores]
      /\ \A p \in Players : p \in players => store'[p].standings = n
      /\ \A p \in Players : store'[p].room = store[p].room
    <2>1. PICK v \in Nat \X Nat : v = NoView
        BY PartsTyped
    <2>2. store' = Pushed(players, v, n)
        BY <1>4, <1>5, <2>1 DEF End, Pushed
    <2>3. store \in [Players -> Stores]
        BY PartsTyped
    <2> QED
        BY <2>2, <2>3, StoresPushed
<1>7. ScreensTyped'
    <2>1. /\ status' \in Statuses /\ edition' \in Nat /\ games' \in Nat /\ session' \in Nat
          /\ version' \in Nat /\ standings' \in Nat
          /\ sent' \in Nat /\ begun' \in Nat /\ ended' \in Nat
        BY <1>0, <1>3 DEF ScreensTyped
    <2> QED
        BY <1>2, <1>3, <1>6, <2>1, LinksKept, StaysTyped
<1>8. StatusFits'
    <2>1. ~returning' /\ call'.ends
        BY <1>1, <1>2, <1>3, Zenon
    <2> QED
        BY <1>0, <1>1, <1>2, <1>3, <2>1 DEF StatusFits
<1>9. SessionsInOrder'
    <2>1. /\ ended < session /\ session <= games /\ begun = session /\ begun <= games
          /\ \A j \in jobs : j.last <= ended /\ j.last \in Nat
          /\ ended \in Nat /\ session \in Nat
        BY <1>0, <1>1, PartsTyped DEF InOrder, SessionsInOrder
    <2> QED
        BY <1>0, <1>1, <1>2, <1>3, <2>1 DEF SessionsInOrder
<1>10. ReadsAreRows'
    BY <1>2, <1>3, ReadsStay
<1>11. StatusIsOwed'
    BY <1>2, <1>3 DEF StatusIsOwed, InOrder
<1>12. RoomFollows'
    BY <1>3, <1>6, LinksKept, RoomKept DEF Shown
<1>13. ViewFollows'
    BY <1>0 DEF ViewFollows
<1>14. StandingsFollow'
    <2>1. \A p \in inRoom' : p \in Players /\ p \in players
        BY <1>3, <1>5, LinksKept, PartsTyped
    <2>2. \A p \in inRoom' : store'[p].standings = ended'
        BY <1>0, <1>4, <1>6, <2>1
    <2> QED
        BY <2>2 DEF StandingsFollow
<1> QED
    BY <1>7, <1>8, <1>9, <1>10, <1>11, <1>12, <1>13, <1>14 DEF InOrder, Shown

LEMMA ReadUnderLockKeeps ==
    ASSUME ScreensTyped, InOrder, Shown, ReadUnderLock
    PROVE  ScreensTyped' /\ InOrder' /\ Shown'
<1>0. call.at = "state"
    BY DEF ReadUnderLock
<1>1. /\ call' \in Calls /\ call'.at = "send" /\ (call'.ends <=> call.ends)
      /\ call'.read.status = status /\ call'.read.edition = edition
    BY CallReads, PartsTyped DEF ReadUnderLock
<1>2. UNCHANGED server /\ UNCHANGED <<status, edition, session, version, standings, returning, games>>
      /\ UNCHANGED <<jobs, links>> /\ UNCHANGED <<store, sent, begun, ended>>
    BY DEF ReadUnderLock, past, server
<1>3. ScreensTyped'
    <2>1. sent' \in Nat /\ begun' \in Nat /\ ended' \in Nat /\ store' \in [Players -> Stores]
        BY <1>2 DEF ScreensTyped
    <2> QED
        BY <1>1, <1>2, <2>1, LinksKept, ServerStays, StaysTyped
<1>4. ~returning
    BY <1>0 DEF InOrder, StatusFits
<1>5. StatusFits'
    <2>1. ~returning'
        BY <1>2, <1>4, Zenon
    <2>2. IF call.ends THEN status = "results" /\ session = 0 ELSE status = "in_game" /\ session # 0
        BY <1>0 DEF InOrder, StatusFits
    <2>3. IF call'.ends THEN status' = "results" /\ session' = 0
          ELSE status' = "in_game" /\ session' # 0
        BY <1>1, <1>2, <2>2, Zenon
    <2> QED
        BY <1>1, <2>1, <2>3 DEF StatusFits
<1>6. SessionsInOrder'
    BY <1>0, <1>1, <1>2 DEF InOrder, SessionsInOrder
<1>7. ReadsAreRows'
    <2>1. \A r : IsRow(r)' <=> IsRow(r)
        BY <1>2 DEF IsRow
    <2>2. \A u : HasRead(u)' <=> HasRead(u)
        BY DEF HasRead
    <2>3. IsRow(call.read)'
        BY <1>1, <1>2, PartsTyped DEF IsRow
    <2> QED
        BY <1>2, <2>1, <2>2, <2>3 DEF ReadsAreRows, InOrder
<1>8. StatusIsOwed'
    <2>1. sent <= edition
        BY DEF InOrder, StatusIsOwed
    <2> QED
        BY <1>1, <1>2, <2>1 DEF StatusIsOwed
<1>9. RoomFollows'
    BY <1>2, LinksKept, RoomKept DEF Shown
<1>10. ViewFollows'
    BY <1>0, <1>2, LinksKept, ViewKept DEF Shown
<1>11. StandingsFollow'
    BY <1>0, <1>2, LinksKept, StandingsKept DEF Shown
<1> QED
    BY <1>3, <1>5, <1>6, <1>7, <1>8, <1>9, <1>10, <1>11 DEF InOrder, Shown

\* A broadcast of a row that is not outdated brings the room up to it.
LEMMA BroadcastTells ==
    ASSUME ScreensTyped, NEW r \in Rows, Broadcast(r)
    PROVE  /\ store' \in [Players -> Stores] /\ sent' \in Nat
           /\ \A p \in Players : p \in inRoom => store'[p].room = r.status
           /\ \A p \in Players : store'[p].view = store[p].view
           /\ \A p \in Players : store'[p].standings = store[p].standings
           /\ ~late' => sent <= r.edition /\ sent' = r.edition
<1>1. PICK v \in Statuses \cup {"none"} : v = r.status
    BY DEF Rows
<1>2. store' = Tells(inRoom, "room", v)
    BY <1>1 DEF Broadcast
<1>3. store \in [Players -> Stores] /\ sent \in Nat /\ r.edition \in Nat
    BY PartsTyped DEF Rows
<1>4. /\ store' \in [Players -> Stores]
      /\ \A p \in Players : p \in inRoom => store'[p].room = v
      /\ \A p \in Players : store'[p].view = store[p].view
      /\ \A p \in Players : store'[p].standings = store[p].standings
    BY <1>2, <1>3, StoresTold
<1>5. sent' = IF Outdated(r) THEN sent ELSE r.edition
    BY DEF Broadcast
<1>6. sent' \in Nat
    BY <1>3, <1>5
<1>7. ~late' => ~Outdated(r)
    BY Zenon DEF Broadcast
<1>8. ~late' => sent <= r.edition /\ sent' = r.edition
    BY <1>3, <1>5, <1>7 DEF Outdated
<1> QED
    BY <1>1, <1>4, <1>6, <1>8

LEMMA SendUnderLockKeeps ==
    ASSUME ScreensTyped, InOrder, Shown, SendUnderLock
    PROVE  ScreensTyped' /\ (~late' => InOrder' /\ Shown')
<1>0. call.at = "send" /\ call' = Free /\ Broadcast(call.read) /\ returning' = (returning \/ call.ends)
    BY DEF SendUnderLock
<1>1. call' \in Calls /\ call'.at = "free" /\ ~call'.ends
    BY <1>0, FreeCall
<1>2. UNCHANGED <<status, edition, session, version, standings, games>>
      /\ UNCHANGED <<jobs, links>> /\ UNCHANGED <<begun, ended>>
    BY DEF SendUnderLock
<1>3. PICK r \in Rows : r = call.read
    BY PartsTyped
<1>4. /\ store' \in [Players -> Stores] /\ sent' \in Nat
      /\ \A p \in Players : p \in inRoom => store'[p].room = r.status
      /\ \A p \in Players : store'[p].view = store[p].view
      /\ \A p \in Players : store'[p].standings = store[p].standings
      /\ ~late' => sent <= r.edition /\ sent' = r.edition
    BY <1>0, <1>3, BroadcastTells
<1>5. ScreensTyped'
    <2>1. /\ status' \in Statuses /\ edition' \in Nat /\ games' \in Nat /\ session' \in Nat
          /\ version' \in Nat /\ standings' \in Nat /\ begun' \in Nat /\ ended' \in Nat
        BY <1>2 DEF ScreensTyped
    <2> QED
        BY <1>1, <1>2, <1>4, <2>1, LinksKept, StaysTyped
<1>6. ~returning
    BY <1>0 DEF InOrder, StatusFits
<1>7. IF call.ends THEN status = "results" /\ session = 0 ELSE status = "in_game" /\ session # 0
    BY <1>0 DEF InOrder, StatusFits
<1>8. StatusFits'
    <2>1. returning' => status = "results"
        BY <1>0, <1>6, <1>7, Zenon
    <2>2. status = "in_game" <=> session # 0
        BY <1>7
    <2> QED
        BY <1>1, <1>2, <2>1, <2>2 DEF StatusFits
<1>9. SessionsInOrder'
    BY <1>0, <1>1, <1>2 DEF InOrder, SessionsInOrder
<1>10. ReadsAreRows'
    BY <1>1, <1>2, ReadsStay
<1>11. r.edition <= edition /\ (r.edition = edition => r.status = status)
    BY <1>0, <1>3 DEF InOrder, ReadsAreRows, IsRow
<1>12. ASSUME ~late'
       PROVE  StatusIsOwed' /\ RoomFollows'
    <2>1. sent <= r.edition /\ sent' = r.edition
        BY <1>4, <1>12, Zenon
    <2>2. sent = edition \/ r.edition = edition \/ \E j \in jobs : Owes(j)
        BY <1>0, <1>3 DEF InOrder, StatusIsOwed
    <2>3. StatusIsOwed'
        <3>1. sent' = edition \/ \E j \in jobs : Owes(j)
            BY <1>11, <2>1, <2>2, <1>3, PartsTyped
        <3> QED
            BY <1>2, <1>11, <2>1, <3>1, DebtStays DEF StatusIsOwed
    <2>4. sent' = edition => \A p \in inRoom' : store'[p].room = status
        BY <1>2, <1>4, <1>11, <2>1, LinksKept
    <2> QED
        BY <1>2, <2>3, <2>4 DEF RoomFollows
<1>13. ViewFollows'
    BY <1>0, <1>2, <1>4, LinksKept, ViewKept DEF Shown
<1>14. StandingsFollow'
    BY <1>0, <1>2, <1>4, LinksKept, StandingsKept DEF Shown
<1> QED
    BY <1>5, <1>8, <1>9, <1>10, <1>12, <1>13, <1>14, Zenon DEF InOrder, Shown

-----------------------------------------------------------------------------
\* The return to the lobby and what follows it.
LEMMA ReturnKeeps ==
    ASSUME ScreensTyped, InOrder, Shown, Return
    PROVE  ScreensTyped' /\ InOrder' /\ Shown'
<1>0. returning /\ ~returning' /\ status' = "lobby" /\ edition' = edition + 1
    BY Zenon DEF Return, SetStatus
<1>1. call.at = "free" /\ status = "results" /\ session = 0
    BY <1>0 DEF InOrder, StatusFits
<1>2. UNCHANGED <<session, version, standings, games>> /\ UNCHANGED call /\ UNCHANGED links
      /\ UNCHANGED <<store, sent, begun, ended>>
    BY DEF Return, past
<1>3. PICK u \in JobRecords :
         jobs' = jobs \cup {u} /\ u.kind = "return" /\ u.at = "clean" /\ u.last = 0
    <2>1. PICK kind \in {"return", "leave", "join"} : kind = "return"
        OBVIOUS
    <2>2. PICK p \in Players \cup {"server"} : p = "server"
        OBVIOUS
    <2>3. PICK c \in Nat : c = 0
        OBVIOUS
    <2>4. PICK at \in JobSteps : at = "clean"
        BY DEF JobSteps
    <2>5. Adds(Job(kind, p, c, at))
        BY <2>1, <2>2, <2>3, <2>4 DEF Return
    <2> QED
        BY <2>1, <2>4, <2>5, JobBegins
<1>4. JobsTyped'
    BY <1>3, JobBeginsTyped, PartsTyped DEF JobFits
<1>5. ScreensTyped'
    <2>1. /\ status' \in Statuses /\ edition' \in Nat /\ games' \in Nat /\ session' \in Nat
          /\ version' \in Nat /\ standings' \in Nat /\ call' \in Calls
          /\ sent' \in Nat /\ begun' \in Nat /\ ended' \in Nat /\ store' \in [Players -> Stores]
        BY <1>0, <1>2 DEF ScreensTyped, Statuses
    <2> QED
        BY <1>2, <1>4, <2>1, LinksStay, StaysTyped
<1>6. StatusFits'
    BY <1>0, <1>1, <1>2 DEF StatusFits
<1>7. SessionsInOrder'
    <2>1. ended <= games /\ begun <= games /\ standings <= ended /\ ended \in Nat
          /\ \A j \in jobs : j.last <= ended
        BY PartsTyped DEF InOrder, SessionsInOrder
    <2> QED
        BY <1>0, <1>1, <1>2, <1>3, <2>1 DEF SessionsInOrder
<1>8. ReadsAreRows' /\ RoomFollows' /\ sent' <= edition'
    <2>1. \A i \in jobs' : HasRead(i) => i \in jobs
        BY <1>3 DEF HasRead
    <2> QED
        BY <1>0, <1>1, <1>2, <2>1, StatusIsNewer
<1>9. StatusIsOwed'
    BY <1>3, <1>8 DEF StatusIsOwed, Owes
<1>10. ViewFollows' /\ StandingsFollow'
    BY <1>0, <1>1, <1>2 DEF ViewFollows, StandingsFollow
<1> QED
    BY <1>5, <1>6, <1>7, <1>8, <1>9, <1>10 DEF InOrder, Shown

LEMMA CleanKeeps ==
    ASSUME ScreensTyped, InOrder, Shown, NEW j \in jobs, Clean(j)
    PROVE  ScreensTyped' /\ (~late' => InOrder' /\ Shown')
<1>0. j.at = "clean" /\ standings' = 0 /\ (~late' => status # "results")
    BY Zenon DEF Clean
<1>1. UNCHANGED <<status, edition, session, version, returning, games>> /\ UNCHANGED call
      /\ UNCHANGED links /\ UNCHANGED <<store, sent, begun, ended>>
    BY DEF Clean
<1>2. j \in JobRecords /\ JobFits(j) /\ j.kind = "return"
    BY <1>0, PartsTyped DEF JobFits
<1>3. PICK u : JobGoes(j, u) /\ u.at = "state" /\ u.last = j.last
    <2>1. GoesTo(j, "state")
        BY DEF Clean
    <2>2. "state" \in JobSteps
        BY DEF JobSteps
    <2> QED
        BY <1>2, <2>1, <2>2, JobMoves
<1>4. JobFits(u)
    BY <1>2, <1>3 DEF JobFits, JobGoes
<1>5. JobsTyped' /\ u \in jobs' /\ \A i \in jobs' : i = u \/ i \in jobs
    BY <1>3, <1>4, JobGoesTyped, PartsTyped
<1>6. ScreensTyped'
    <2>1. /\ status' \in Statuses /\ edition' \in Nat /\ games' \in Nat /\ session' \in Nat
          /\ version' \in Nat /\ standings' \in Nat /\ call' \in Calls
          /\ sent' \in Nat /\ begun' \in Nat /\ ended' \in Nat /\ store' \in [Players -> Stores]
        BY <1>0, <1>1 DEF ScreensTyped
    <2> QED
        BY <1>1, <1>5, <2>1, LinksStay, StaysTyped
<1>7. ASSUME ~late'
      PROVE  SessionsInOrder' /\ StandingsFollow'
    <2>1. status # "results"
        BY <1>0, <1>7, Zenon
    <2>2. SessionsInOrder'
        <3>1. \A i \in jobs' : i.last <= ended
            BY <1>3, <1>5 DEF InOrder, SessionsInOrder
        <3>2. 0 <= ended
            BY PartsTyped
        <3> QED
            BY <1>0, <1>1, <2>1, <3>1, <3>2 DEF InOrder, SessionsInOrder
    <2> QED
        BY <1>1, <2>1, <2>2 DEF StandingsFollow
<1>8. StatusFits'
    BY <1>1 DEF InOrder, StatusFits
<1>9. ReadsAreRows'
    <2>1. \A r : IsRow(r)' <=> IsRow(r)
        BY <1>1 DEF IsRow
    <2>2. \A i \in jobs' : HasRead(i) => i \in jobs
        BY <1>3, <1>5 DEF HasRead
    <2>3. \A i : HasRead(i)' <=> HasRead(i)
        BY DEF HasRead
    <2> QED
        BY <1>1, <2>1, <2>2, <2>3 DEF InOrder, ReadsAreRows
<1>10. StatusIsOwed'
    <2>1. Owes(u)'
        BY <1>3 DEF Owes
    <2> QED
        BY <1>1, <1>5, <2>1 DEF StatusIsOwed, InOrder
<1>11. \A p \in inRoom' : /\ p \in inRoom
                          /\ (Enters(p) => Enters(p)') /\ (Resumes(p) => Resumes(p)')
    BY <1>1, <1>0, <1>3, <1>4, OwedMoves, PartsTyped DEF links
<1>12. RoomFollows'
    BY <1>1, <1>11, RoomKept DEF Shown
<1>13. ViewFollows'
    BY <1>1, <1>11, ViewKept DEF Shown
<1> QED
    BY <1>6, <1>7, <1>8, <1>9, <1>10, <1>12, <1>13, Zenon DEF InOrder, Shown

-----------------------------------------------------------------------------
\* The steps of the jobs that leave the server and the call alone.
LEMMA JobStepTyped ==
    ASSUME ScreensTyped, UNCHANGED <<server, call>>, JobsTyped',
           sent' \in Nat, UNCHANGED <<begun, ended>>,
           conn' \in [Players -> Nat] /\ inRoom' \subseteq Connected' /\ spent' \in Nat,
           store' \in [Players -> Stores]
    PROVE  /\ ScreensTyped'
           /\ UNCHANGED <<status, edition, session, version, standings, returning, games, call>>
<1>1. UNCHANGED <<status, edition, session, version, standings, returning, games, call>>
    BY DEF server
<1>2. /\ status' \in Statuses /\ edition' \in Nat /\ games' \in Nat /\ session' \in Nat
      /\ version' \in Nat /\ standings' \in Nat /\ call' \in Calls /\ begun' \in Nat /\ ended' \in Nat
    BY <1>1 DEF ScreensTyped
<1> QED
    BY <1>1, <1>2, StaysTyped

LEMMA ReadStateKeeps ==
    ASSUME ScreensTyped, InOrder, Shown, NEW j \in jobs, ReadState(j)
    PROVE  ScreensTyped' /\ InOrder' /\ Shown'
<1>0. j.at = "state" /\ JobFits(j)
    BY PartsTyped DEF ReadState
<1>1. UNCHANGED <<server, call>> /\ UNCHANGED links /\ UNCHANGED <<store, sent, begun, ended>>
    BY DEF ReadState, past
<1>2. PICK u : /\ JobGoes(j, u) /\ u.at = "send" /\ u.last = j.last
               /\ u.read.status = status /\ u.read.edition = edition
    BY JobReads
<1>3. JobFits(u)
    BY <1>0, <1>2 DEF JobFits, JobGoes, JobSteps
<1>4. JobsTyped' /\ u \in jobs' /\ (\A i \in jobs : i = j \/ i \in jobs')
      /\ \A i \in jobs' : i = u \/ i \in jobs
    BY <1>2, <1>3, JobGoesTyped, PartsTyped
<1>5. ScreensTyped' /\ UNCHANGED <<status, edition, session, version>>
    <2>1. sent' \in Nat /\ store' \in [Players -> Stores]
        BY <1>1 DEF ScreensTyped
    <2> QED
        BY <1>1, <1>4, <2>1, LinksStay, JobStepTyped
<1>6. InOrder'
    <2>1. u.last <= ended /\ IsRow(u.read)
        BY <1>2, PartsTyped DEF InOrder, SessionsInOrder, IsRow
    <2>2. Owes(u)
        BY <1>2 DEF Owes
    <2> QED
        BY <1>1, <1>4, <2>1, <2>2, OrderStays
<1>7. \A p \in inRoom' : /\ p \in inRoom
                         /\ (Enters(p) => Enters(p)') /\ (Resumes(p) => Resumes(p)')
                         /\ status = "results" => (IsOwed(p) => IsOwed(p)')
    <2>1. status = "results" => CatchesUp(u)
        BY <1>2 DEF CatchesUp
    <2> QED
        BY <1>0, <1>1, <1>2, <1>3, <2>1, OwedMoves, PartsTyped DEF links
<1>8. RoomFollows'
    BY <1>1, <1>5, <1>7, RoomKept DEF Shown
<1>9. ViewFollows'
    BY <1>1, <1>5, <1>7, ViewKept DEF Shown
<1>10. StandingsFollow'
    BY <1>1, <1>5, <1>7, StandingsKept DEF Shown
<1> QED
    BY <1>5, <1>6, <1>8, <1>9, <1>10 DEF Shown

LEMMA SendStateKeeps ==
    ASSUME ScreensTyped, InOrder, Shown, NEW j \in jobs, SendState(j)
    PROVE  ScreensTyped' /\ (~late' => InOrder' /\ Shown')
<1>0. j.at = "send" /\ JobFits(j) /\ j \in JobRecords /\ Broadcast(j.read)
    BY PartsTyped DEF SendState
<1>1. UNCHANGED <<server, call>> /\ UNCHANGED links /\ UNCHANGED <<begun, ended>>
    BY DEF SendState
<1>2. PICK r \in Rows : r = j.read
    BY PartsTyped
<1>3. /\ store' \in [Players -> Stores] /\ sent' \in Nat
      /\ \A p \in Players : p \in inRoom => store'[p].room = r.status
      /\ \A p \in Players : store'[p].view = store[p].view
      /\ \A p \in Players : store'[p].standings = store[p].standings
      /\ ~late' => sent <= r.edition /\ sent' = r.edition
    BY <1>0, <1>2, BroadcastTells
<1>4. /\ JobsTyped'
      /\ \A i \in jobs : i = j \/ i \in jobs'
      /\ \A i \in jobs' : i \in jobs \/ (i.at = "catch up" /\ i.last = j.last /\ i.read = j.read)
      /\ \A p : conn'[p] = conn[p] =>
            (Resumes(p) => Resumes(p)') /\ (IsOwed(p) => IsOwed(p)')
    <2>1. CASE j.kind = "join"
        <3>1. GoesTo(j, "catch up") /\ "catch up" \in JobSteps
            BY <2>1 DEF SendState, JobSteps
        <3>2. PICK u : JobGoes(j, u) /\ u.at = "catch up" /\ u.read = j.read /\ u.last = j.last
            BY <1>0, <3>1, JobMoves
        <3>3. JobFits(u)
            BY <1>0, <2>1, <3>2 DEF JobFits, JobGoes, JobSteps
        <3>4. CatchesUp(j) => CatchesUp(u)
            BY <1>0, <3>2 DEF CatchesUp
        <3>5. ended' = ended
            BY <1>1
        <3> QED
            BY <1>0, <3>2, <3>3, <3>4, <3>5, JobGoesTyped, OwedMoves, PartsTyped
    <2>2. CASE j.kind # "join"
        <3>1. Done(j)
            BY <2>2 DEF SendState
        <3>2. JobsTyped' /\ (\A i \in jobs : i = j \/ i \in jobs') /\ \A i \in jobs' : i \in jobs
            BY <3>1, JobEndsTyped, PartsTyped
        <3>3. \A i \in jobs : i.kind = "join" => i \in jobs'
            BY <2>2, <3>2
        <3> QED
            BY <1>1, <3>2, <3>3, OwedStays
    <2> QED
        BY <2>1, <2>2
<1>5. ScreensTyped' /\ UNCHANGED <<status, edition, session, version, standings, returning, games, call>>
    BY <1>1, <1>3, <1>4, LinksStay, JobStepTyped
<1>6. StatusFits'
    BY <1>5 DEF InOrder, StatusFits
<1>7. SessionsInOrder'
    <2>1. \A i \in jobs' : i.last <= ended
        BY <1>4 DEF InOrder, SessionsInOrder
    <2> QED
        BY <1>1, <1>5, <2>1 DEF InOrder, SessionsInOrder
<1>8. r.edition <= edition /\ (r.edition = edition => r.status = status) /\ r.edition \in Nat
    BY <1>0, <1>2, PartsTyped DEF InOrder, ReadsAreRows, IsRow, HasRead
<1>9. ReadsAreRows'
    <2>1. \A i \in jobs' : HasRead(i) => IsRow(i.read)
        BY <1>0, <1>4 DEF InOrder, ReadsAreRows, HasRead
    <2>2. \A q : IsRow(q)' <=> IsRow(q)
        BY <1>5 DEF IsRow
    <2>3. \A i : HasRead(i)' <=> HasRead(i)
        BY DEF HasRead
    <2> QED
        BY <1>5, <2>1, <2>2, <2>3 DEF InOrder, ReadsAreRows
<1>10. ASSUME ~late'
       PROVE  StatusIsOwed' /\ RoomFollows'
    <2>1. sent <= r.edition /\ sent' = r.edition
        BY <1>3, <1>10, Zenon
    <2>2. StatusIsOwed'
        <3>1. CASE r.edition = edition
            BY <1>5, <1>8, <2>1, <3>1 DEF StatusIsOwed
        <3>2. CASE r.edition # edition
            <4>1. sent # edition /\ sent' <= edition
                BY <1>8, <2>1, <3>2, PartsTyped
            <4>2. ~Owes(j)
                BY <1>0, <1>2, <3>2 DEF Owes
            <4>3. \A i : Owes(i)' <=> Owes(i)
                BY <1>5 DEF Owes
            <4>4. (\E i \in jobs : Owes(i)) => (\E i \in jobs : Owes(i))'
                BY <1>4, <4>2, <4>3
            <4> QED
                BY <1>5, <4>1, <4>4 DEF StatusIsOwed, InOrder
        <3> QED
            BY <3>1, <3>2
    <2>3. sent' = edition => \A p \in inRoom' : store'[p].room = status
        BY <1>1, <1>3, <1>8, <2>1, PartsTyped DEF links
    <2> QED
        BY <1>5, <2>2, <2>3 DEF RoomFollows
<1>11. \A p \in inRoom' : /\ p \in inRoom /\ p \in Players
                          /\ (Resumes(p) => Resumes(p)') /\ (IsOwed(p) => IsOwed(p)')
    BY <1>1, <1>4, PartsTyped DEF links
<1>12. ViewFollows'
    BY <1>1, <1>3, <1>5, <1>11, ViewKept DEF Shown
<1>13. StandingsFollow'
    BY <1>1, <1>3, <1>5, <1>11, StandingsKept DEF Shown
<1> QED
    BY <1>5, <1>6, <1>7, <1>9, <1>10, <1>12, <1>13, Zenon DEF InOrder, Shown

LEMMA LetInKeeps ==
    ASSUME ScreensTyped, InOrder, Shown, NEW j \in jobs, LetIn(j)
    PROVE  ScreensTyped' /\ InOrder' /\ Shown'
<1>0. j.at = "asked" /\ JobFits(j) /\ j \in JobRecords
    BY PartsTyped DEF LetIn
<1>1. UNCHANGED <<server, call>> /\ UNCHANGED links /\ UNCHANGED <<store, sent, begun, ended>>
    BY DEF LetIn, past
<1>2. PICK u : JobGoes(j, u) /\ u.at = "admitted" /\ u.last = j.last
    <2>1. GoesTo(j, "admitted") /\ "admitted" \in JobSteps
        BY DEF LetIn, JobSteps
    <2> QED
        BY <1>0, <2>1, JobMoves
<1>3. JobFits(u)
    BY <1>0, <1>2 DEF JobFits, JobGoes, JobSteps
<1>4. JobsTyped' /\ u \in jobs' /\ (\A i \in jobs : i = j \/ i \in jobs')
      /\ \A i \in jobs' : i = u \/ i \in jobs
    BY <1>2, <1>3, JobGoesTyped, PartsTyped
<1>5. ScreensTyped' /\ UNCHANGED <<status, edition, session, version>>
    <2>1. sent' \in Nat /\ store' \in [Players -> Stores]
        BY <1>1 DEF ScreensTyped
    <2> QED
        BY <1>1, <1>4, <2>1, LinksStay, JobStepTyped
<1>6. InOrder'
    <2>1. u.last <= ended /\ ~HasRead(u)
        BY <1>2 DEF InOrder, SessionsInOrder, HasRead
    <2>2. ~Owes(j)
        BY <1>0 DEF Owes
    <2> QED
        BY <1>1, <1>4, <2>1, <2>2, OrderStays
<1>7. \A p \in inRoom' : /\ p \in inRoom
                         /\ (Enters(p) => Enters(p)') /\ (Resumes(p) => Resumes(p)')
                         /\ (IsOwed(p) => IsOwed(p)')
    <2>1. ~CatchesUp(j)
        BY <1>0 DEF CatchesUp
    <2> QED
        BY <1>0, <1>1, <1>2, <1>3, <2>1, OwedMoves, PartsTyped DEF links
<1>8. RoomFollows'
    BY <1>1, <1>5, <1>7, RoomKept DEF Shown
<1>9. ViewFollows'
    BY <1>1, <1>5, <1>7, ViewKept DEF Shown
<1>10. StandingsFollow'
    BY <1>1, <1>5, <1>7, StandingsKept DEF Shown
<1> QED
    BY <1>5, <1>6, <1>8, <1>9, <1>10 DEF Shown

LEMMA IntoRoomKeeps ==
    ASSUME ScreensTyped, InOrder, Shown, NEW j \in jobs, IntoRoom(j)
    PROVE  ScreensTyped' /\ InOrder' /\ Shown'
<1>0. j.at = "admitted" /\ JobFits(j) /\ j \in JobRecords
    BY PartsTyped DEF IntoRoom
<1>1. /\ UNCHANGED <<server, call>> /\ UNCHANGED <<store, sent, begun, ended>>
      /\ conn' = conn /\ spent' = spent /\ inRoom' = inRoom \cup Listening(j)
    BY DEF IntoRoom, past
<1>2. j.kind = "join" /\ j.by \in Players /\ j.conn # 0
    BY <1>0 DEF JobFits
<1>3. \A p \in Listening(j) : p = j.by /\ p \in Players /\ conn[p] = j.conn
    BY <1>2 DEF Listening
<1>4. PICK u : JobGoes(j, u) /\ u.at = "entered" /\ u.last = j.last
    <2>1. GoesTo(j, "entered") /\ "entered" \in JobSteps
        BY DEF IntoRoom, JobSteps
    <2> QED
        BY <1>0, <2>1, JobMoves
<1>5. JobFits(u) /\ u.kind = "join" /\ u.by = j.by /\ u.conn = j.conn
    BY <1>0, <1>2, <1>4 DEF JobFits, JobGoes, JobSteps
<1>6. JobsTyped' /\ u \in jobs' /\ (\A i \in jobs : i = j \/ i \in jobs')
      /\ \A i \in jobs' : i = u \/ i \in jobs
    BY <1>4, <1>5, JobGoesTyped, PartsTyped
<1>7. ScreensTyped' /\ UNCHANGED <<status, edition, session, version>>
    <2>1. sent' \in Nat /\ store' \in [Players -> Stores] /\ conn' \in [Players -> Nat] /\ spent' \in Nat
        BY <1>1 DEF ScreensTyped
    <2>2. inRoom' \subseteq Connected'
        BY <1>1, <1>2, <1>3, PartsTyped DEF Connected
    <2> QED
        BY <1>1, <1>6, <2>1, <2>2, JobStepTyped
<1>8. InOrder'
    <2>1. u.last <= ended /\ ~HasRead(u)
        BY <1>4 DEF InOrder, SessionsInOrder, HasRead
    <2>2. ~Owes(j)
        BY <1>0 DEF Owes
    <2> QED
        BY <1>1, <1>6, <2>1, <2>2, OrderStays
<1>9. \A p \in inRoom' :
         \/ Enters(p)' /\ Resumes(p)' /\ IsOwed(p)'
         \/ /\ p \in inRoom
            /\ (Enters(p) => Enters(p)') /\ (Resumes(p) => Resumes(p)')
            /\ (IsOwed(p) => IsOwed(p)')
    <2>1. ASSUME NEW p \in Listening(j)
          PROVE  Enters(p)' /\ Resumes(p)' /\ IsOwed(p)'
        <3>1. u.by = p /\ u.conn = conn'[p]
            BY <1>1, <1>3, <1>5
        <3>2. CatchesUp(u)'
            BY <1>4 DEF CatchesUp
        <3> QED
            BY <1>4, <1>5, <1>6, <3>1, <3>2 DEF Enters, Resumes, IsOwed
    <2>2. ASSUME NEW p \in inRoom
          PROVE  /\ (Enters(p) => Enters(p)') /\ (Resumes(p) => Resumes(p)')
                 /\ (IsOwed(p) => IsOwed(p)')
        <3>1. ~CatchesUp(j)
            BY <1>0 DEF CatchesUp
        <3> QED
            BY <1>0, <1>1, <1>4, <1>5, <3>1, OwedMoves, PartsTyped
    <2> QED
        BY <1>1, <2>1, <2>2
<1>10. RoomFollows'
    BY <1>1, <1>7, <1>9, RoomKept DEF Shown
<1>11. ViewFollows'
    BY <1>1, <1>7, <1>9, ViewKept DEF Shown
<1>12. StandingsFollow'
    BY <1>1, <1>7, <1>9, StandingsKept DEF Shown
<1> QED
    BY <1>7, <1>8, <1>10, <1>11, <1>12 DEF Shown

LEMMA ResumeKeeps ==
    ASSUME ScreensTyped, InOrder, Shown, NEW j \in jobs, Resume(j)
    PROVE  ScreensTyped' /\ InOrder' /\ Shown'
<1>0. j.at = "entered" /\ JobFits(j) /\ j \in JobRecords
    BY PartsTyped DEF Resume
<1>1. UNCHANGED <<server, call>> /\ UNCHANGED links /\ UNCHANGED <<sent, begun, ended>>
    BY DEF Resume, past
<1>2. PICK u : JobGoes(j, u) /\ u.at = "state" /\ u.last = j.last
    <2>1. GoesTo(j, "state") /\ "state" \in JobSteps
        BY DEF Resume, JobSteps
    <2> QED
        BY <1>0, <2>1, JobMoves
<1>3. JobFits(u)
    BY <1>0, <1>2 DEF JobFits, JobGoes, JobSteps
<1>4. JobsTyped' /\ u \in jobs' /\ (\A i \in jobs : i = j \/ i \in jobs')
      /\ \A i \in jobs' : i = u \/ i \in jobs
    BY <1>2, <1>3, JobGoesTyped, PartsTyped
<1>5. /\ store' \in [Players -> Stores]
      /\ \A p \in Players : store'[p].room = store[p].room /\ store'[p].standings = store[p].standings
      /\ session # 0 => \A p \in Players :
            /\ p \in Connected /\ p = j.by => store'[p].view = <<session, version>>
            /\ p # j.by => store'[p].view = store[p].view
    <2>1. CASE session = 0
        <3>1. store' = store
            BY <2>1 DEF Resume
        <3> QED
            BY <2>1, <3>1, PartsTyped
    <2>2. CASE session # 0
        <3>1. PICK v \in Nat \X Nat : v = <<session, version>>
            BY PartsTyped
        <3>2. PICK players : players = Connected \cap {j.by}
            OBVIOUS
        <3>3. store' = Tells(players, "view", v)
            BY <2>2, <3>1, <3>2 DEF Resume, ShowView
        <3>4. /\ store' \in [Players -> Stores]
              /\ \A p \in Players : p \in players => store'[p].view = v
              /\ \A p \in Players : p \notin players => store'[p].view = store[p].view
              /\ \A p \in Players : store'[p].room = store[p].room
              /\ \A p \in Players : store'[p].standings = store[p].standings
            BY <3>3, StoresTold, PartsTyped
        <3> QED
            BY <3>1, <3>2, <3>4
    <2> QED
        BY <2>1, <2>2
<1>6. ScreensTyped' /\ UNCHANGED <<status, edition, session, version>>
    <2>1. sent' \in Nat
        BY <1>1 DEF ScreensTyped
    <2> QED
        BY <1>1, <1>4, <1>5, <2>1, LinksStay, JobStepTyped
<1>7. InOrder'
    <2>1. u.last <= ended /\ ~HasRead(u)
        BY <1>2 DEF InOrder, SessionsInOrder, HasRead
    <2>2. Owes(u)
        BY <1>2 DEF Owes
    <2> QED
        BY <1>1, <1>4, <2>1, <2>2, OrderStays
<1>8. \A p \in inRoom' : /\ p \in inRoom /\ p \in Players /\ p \in Connected
                         /\ (Enters(p) => Enters(p)') /\ (IsOwed(p) => IsOwed(p)')
                         /\ p # j.by => (Resumes(p) => Resumes(p)')
    <2>1. CatchesUp(u)
        BY <1>2 DEF CatchesUp
    <2> QED
        BY <1>1, <1>2, <1>3, <2>1, OwedMoves, PartsTyped DEF links
<1>9. RoomFollows'
    BY <1>1, <1>5, <1>6, <1>8, RoomKept DEF Shown
<1>10. ViewFollows'
    BY <1>1, <1>5, <1>6, <1>8, ViewKept DEF Shown
<1>11. StandingsFollow'
    BY <1>1, <1>5, <1>6, <1>8, StandingsKept DEF Shown
<1> QED
    BY <1>6, <1>7, <1>9, <1>10, <1>11 DEF Shown

LEMMA CatchUpKeeps ==
    ASSUME ScreensTyped, InOrder, Shown, NEW j \in jobs, CatchUp(j)
    PROVE  ScreensTyped' /\ InOrder' /\ Shown'
<1>0. j.at = "catch up" /\ JobFits(j) /\ j \in JobRecords
    BY PartsTyped DEF CatchUp
<1>1. UNCHANGED <<server, call>> /\ UNCHANGED links /\ UNCHANGED <<store, sent, begun, ended>>
    BY DEF CatchUp, past
<1>2. PICK u : /\ JobGoes(j, u) /\ u.at \in {"standings", "answer"} /\ u.read = j.read
               /\ u.last <= ended
               /\ j.read.status = "results" /\ standings # 0
                  => u.at = "standings" /\ u.last = standings
    <2>1. CASE j.read.status = "results" /\ standings # 0
        <3>1. jobs' = (jobs \ {j}) \cup {[j EXCEPT !.at = "standings", !.last = standings]}
            BY <2>1 DEF CatchUp
        <3>2. standings <= ended
            BY DEF InOrder, SessionsInOrder
        <3> QED
            BY <3>1, <3>2, JobTakesStandings
    <2>2. CASE ~(j.read.status = "results" /\ standings # 0)
        <3>1. GoesTo(j, "answer") /\ "answer" \in JobSteps
            BY <2>2 DEF CatchUp, JobSteps
        <3>2. PICK u : JobGoes(j, u) /\ u.at = "answer" /\ u.read = j.read /\ u.last = j.last
            BY <1>0, <3>1, JobMoves
        <3>3. j.last <= ended
            BY DEF InOrder, SessionsInOrder
        <3> QED
            BY <2>2, <3>2, <3>3
    <2> QED
        BY <2>1, <2>2
<1>3. JobFits(u)
    BY <1>0, <1>2 DEF JobFits, JobGoes, JobSteps
<1>4. JobsTyped' /\ u \in jobs' /\ (\A i \in jobs : i = j \/ i \in jobs')
      /\ \A i \in jobs' : i = u \/ i \in jobs
    BY <1>2, <1>3, JobGoesTyped, PartsTyped
<1>5. ScreensTyped' /\ UNCHANGED <<status, edition, session, version>>
    <2>1. sent' \in Nat /\ store' \in [Players -> Stores]
        BY <1>1 DEF ScreensTyped
    <2> QED
        BY <1>1, <1>4, <2>1, LinksStay, JobStepTyped
<1>6. InOrder'
    <2>1. IsRow(u.read)
        BY <1>0, <1>2 DEF InOrder, ReadsAreRows, HasRead
    <2>2. ~Owes(j)
        BY <1>0 DEF Owes
    <2> QED
        BY <1>1, <1>2, <1>4, <2>1, <2>2, OrderStays
<1>7. \A p \in inRoom' : /\ p \in inRoom
                         /\ (Enters(p) => Enters(p)') /\ (Resumes(p) => Resumes(p)')
                         /\ status = "results" /\ call.at # "end" => (IsOwed(p) => IsOwed(p)')
    <2>1. status = "results" /\ call.at # "end" /\ CatchesUp(j) => CatchesUp(u)
        BY <1>0, <1>2 DEF CatchesUp, InOrder, SessionsInOrder
    <2> QED
        BY <1>0, <1>1, <1>2, <1>3, <2>1, OwedMoves, PartsTyped DEF links
<1>8. RoomFollows'
    BY <1>1, <1>5, <1>7, RoomKept DEF Shown
<1>9. ViewFollows'
    BY <1>1, <1>5, <1>7, ViewKept DEF Shown
<1>10. StandingsFollow'
    BY <1>1, <1>5, <1>7, StandingsKept DEF Shown
<1> QED
    BY <1>5, <1>6, <1>8, <1>9, <1>10 DEF Shown

LEMMA SendStandingsKeeps ==
    ASSUME ScreensTyped, InOrder, Shown, NEW j \in jobs, SendStandings(j)
    PROVE  ScreensTyped' /\ (~late' => InOrder' /\ Shown')
<1>0. j.at = "standings" /\ JobFits(j) /\ j \in JobRecords /\ j.last \in Nat
    BY PartsTyped DEF SendStandings
<1>1. UNCHANGED <<server, call>> /\ UNCHANGED links /\ UNCHANGED <<sent, begun, ended>>
    BY DEF SendStandings
<1>2. PICK u : JobGoes(j, u) /\ u.at = "answer" /\ u.last = j.last /\ u.read = j.read
    <2>1. GoesTo(j, "answer") /\ "answer" \in JobSteps
        BY DEF SendStandings, JobSteps
    <2> QED
        BY <1>0, <2>1, JobMoves
<1>3. JobFits(u)
    BY <1>0, <1>2 DEF JobFits, JobGoes, JobSteps
<1>4. JobsTyped' /\ u \in jobs' /\ (\A i \in jobs : i = j \/ i \in jobs')
      /\ \A i \in jobs' : i = u \/ i \in jobs
    BY <1>2, <1>3, JobGoesTyped, PartsTyped
<1>5. PICK players : players = Listening(j)
    OBVIOUS
<1>6. /\ store' \in [Players -> Stores]
      /\ \A p \in Players : p \in players => store'[p].standings = j.last
      /\ \A p \in Players : p \notin players => store'[p] = store[p]
      /\ \A p \in Players : store'[p].room = store[p].room
    <2>1. PICK v \in Nat \X Nat : v = NoView
        BY PartsTyped
    <2>2. PICK n \in Nat : n = j.last
        BY <1>0
    <2>3. store' = Pushed(players, v, n)
        BY <1>5, <2>1, <2>2 DEF SendStandings, Pushed
    <2>4. store \in [Players -> Stores]
        BY PartsTyped
    <2>5. /\ store' \in [Players -> Stores]
          /\ \A p \in Players : p \in players => store'[p].standings = n
          /\ \A p \in Players : p \notin players => store'[p] = store[p]
          /\ \A p \in Players : store'[p].room = store[p].room
        BY <2>3, <2>4, StoresPushed
    <2> QED
        BY <2>2, <2>5
<1>7. ScreensTyped' /\ UNCHANGED <<status, edition, session, version>>
    <2>1. sent' \in Nat
        BY <1>1 DEF ScreensTyped
    <2> QED
        BY <1>1, <1>4, <1>6, <2>1, LinksStay, JobStepTyped
<1>8. InOrder'
    <2>1. u.last <= ended /\ IsRow(u.read)
        BY <1>0, <1>2 DEF InOrder, SessionsInOrder, ReadsAreRows, HasRead
    <2>2. ~Owes(j)
        BY <1>0 DEF Owes
    <2> QED
        BY <1>1, <1>4, <2>1, <2>2, OrderStays
<1>9. \A p \in inRoom' : /\ p \in inRoom /\ p \in Players
                         /\ (Enters(p) => Enters(p)') /\ (Resumes(p) => Resumes(p)')
                         /\ p \notin players => (IsOwed(p) => IsOwed(p)')
    <2>1. \A p : p \notin players => j.by # p \/ j.conn # conn[p]
        BY <1>5 DEF Listening
    <2> QED
        BY <1>0, <1>1, <1>2, <1>3, <2>1, OwedMoves, PartsTyped DEF links
<1>10. RoomFollows'
    BY <1>1, <1>6, <1>7, <1>9, RoomKept DEF Shown
<1>11. ASSUME ~late'
       PROVE  ViewFollows' /\ StandingsFollow'
    <2>1. late' = (Listening(j) # {} /\ begun > j.last)
        BY DEF SendStandings
    <2>2. ~(Listening(j) # {} /\ begun > j.last)
        BY <1>11, <2>1, Zenon
    <2>3. \A p : p \in players => begun <= j.last
        BY <1>0, <1>5, <2>2, PartsTyped
    <2>4. j.last <= ended
        BY DEF InOrder, SessionsInOrder
    <2>5. session # 0 /\ call.at \notin {"started", "acted"} => \A p : p \notin players
        <3>1. session # 0 /\ call.at # "started" => ended < begun
            BY DEF InOrder, SessionsInOrder
        <3> QED
            BY <1>0, <2>3, <2>4, <3>1, PartsTyped
    <2>6. status = "results" /\ call.at # "end" => \A p : p \in players => j.last = ended
        <3>1. status = "results" /\ call.at # "end" => begun = ended
            BY DEF InOrder, SessionsInOrder
        <3> QED
            BY <1>0, <2>3, <2>4, <3>1, PartsTyped
    <2>7. ViewFollows'
        BY <1>1, <1>6, <1>7, <1>9, <2>5, ViewKept DEF Shown
    <2>8. StandingsFollow'
        BY <1>1, <1>6, <1>7, <1>9, <2>6, StandingsKept DEF Shown
    <2> QED
        BY <2>7, <2>8
<1> QED
    BY <1>7, <1>8, <1>10, <1>11, Zenon DEF Shown

LEMMA AnswerKeeps ==
    ASSUME ScreensTyped, InOrder, Shown, NEW j \in jobs, Answer(j)
    PROVE  ScreensTyped' /\ (~late' => InOrder' /\ Shown')
<1>0. j.at = "answer" /\ JobFits(j) /\ j \in JobRecords /\ j.last \in Nat
    BY PartsTyped DEF Answer
<1>1. UNCHANGED <<server, call>> /\ UNCHANGED links /\ UNCHANGED <<sent, begun, ended>>
    BY DEF Answer
<1>2. JobsTyped' /\ (\A i \in jobs : i = j \/ i \in jobs') /\ \A i \in jobs' : i \in jobs
    <2>1. Done(j)
        BY DEF Answer
    <2> QED
        BY <2>1, JobEndsTyped, PartsTyped
<1>3. PICK players : players = Listening(j)
    OBVIOUS
<1>4. PICK v \in Statuses \cup {"none"} : v = j.read.status
    <2>1. j.read \in Rows
        BY PartsTyped
    <2> QED
        BY <2>1 DEF Rows
<1>5. /\ store' \in [Players -> Stores]
      /\ \A p \in Players : p \in players => store'[p].room = v
      /\ \A p \in Players : p \notin players => store'[p].room = store[p].room
      /\ \A p \in Players : store'[p].view = store[p].view
      /\ \A p \in Players : store'[p].standings = store[p].standings
    <2>1. store' = Tells(players, "room", v)
        BY <1>3, <1>4 DEF Answer
    <2> QED
        BY <2>1, StoresTold, PartsTyped
<1>6. ScreensTyped' /\ UNCHANGED <<status, edition, session, version>>
    <2>1. sent' \in Nat
        BY <1>1 DEF ScreensTyped
    <2> QED
        BY <1>1, <1>2, <1>5, <2>1, LinksStay, JobStepTyped
<1>7. InOrder'
    <2>1. ~Owes(j)
        BY <1>0 DEF Owes
    <2> QED
        BY <1>1, <1>2, <2>1, OrderStays
<1>8. \A p \in inRoom' : /\ p \in inRoom /\ p \in Players
                         /\ (Enters(p) => Enters(p)') /\ (Resumes(p) => Resumes(p)')
                         /\ (IsOwed(p) => IsOwed(p)')
    <2>1. \A p \in inRoom' : p \in inRoom /\ p \in Players /\ conn'[p] = conn[p] /\ ended' = ended
        BY <1>1, PartsTyped DEF links
    <2>2. \A p : Enters(p) => Enters(p)'
        BY <1>0, <1>2 DEF Enters
    <2>3. \A p : Resumes(p) => Resumes(p)'
        BY <1>0, <1>2 DEF Resumes
    <2>4. \A p \in inRoom' : IsOwed(p) => IsOwed(p)'
        BY <1>0, <1>2, <2>1 DEF IsOwed, CatchesUp
    <2> QED
        BY <2>1, <2>2, <2>3, <2>4
<1>9. ASSUME ~late'
      PROVE  RoomFollows'
    <2>1. late' = (Listening(j) # {} /\ Outdated(j.read))
        BY DEF Answer
    <2>2. ~(Listening(j) # {} /\ Outdated(j.read))
        BY <1>9, <2>1, Zenon
    <2>3. IsRow(j.read)
        BY <1>0 DEF InOrder, ReadsAreRows, HasRead
    <2>4. \A p : p \in players /\ sent = edition => v = status
        BY <1>3, <1>4, <2>2, <2>3, PartsTyped DEF Outdated, IsRow
    <2>5. sent = edition => \A p \in inRoom' :
             \/ Enters(p)'
             \/ store'[p].room = status
             \/ p \in inRoom /\ store'[p].room = store[p].room /\ (Enters(p) => Enters(p)')
        BY <1>5, <1>8, <2>4
    <2>6. sent = edition => \A p \in inRoom' : store'[p].room = status \/ Enters(p)'
        BY <2>5 DEF Shown, RoomFollows
    <2> QED
        BY <1>1, <1>6, <2>6 DEF RoomFollows
<1>10. ViewFollows'
    BY <1>1, <1>5, <1>6, <1>8, ViewKept DEF Shown
<1>11. StandingsFollow'
    BY <1>1, <1>5, <1>6, <1>8, StandingsKept DEF Shown
<1> QED
    BY <1>6, <1>7, <1>9, <1>10, <1>11, Zenon DEF Shown

LEMMA AbandonKeeps ==
    ASSUME ScreensTyped, InOrder, Shown, NEW j \in jobs, Abandon(j)
    PROVE  ScreensTyped' /\ InOrder' /\ Shown'
<1>0. j.at = "removed" /\ JobFits(j) /\ j \in JobRecords /\ j.kind = "leave"
    BY PartsTyped DEF Abandon, JobFits
<1>1. UNCHANGED <<standings, returning, games>> /\ call' = call /\ UNCHANGED links
      /\ UNCHANGED <<store, sent, begun, ended>>
    BY DEF Abandon, past
<1>2. call.at = "free"
    BY FreeCall DEF Abandon, Unlocked
<1>3. PICK u : JobGoes(j, u) /\ u.at = "state" /\ u.last = j.last
    <2>1. GoesTo(j, "state") /\ "state" \in JobSteps
        BY DEF Abandon, JobSteps
    <2> QED
        BY <1>0, <2>1, JobMoves
<1>4. JobFits(u)
    BY <1>0, <1>3 DEF JobFits, JobGoes, JobSteps
<1>5. JobsTyped' /\ u \in jobs' /\ (\A i \in jobs : i = j \/ i \in jobs')
      /\ \A i \in jobs' : i = u \/ i \in jobs
    BY <1>3, <1>4, JobGoesTyped, PartsTyped
<1>6. \A p \in inRoom' : /\ p \in inRoom
                         /\ (Enters(p) => Enters(p)') /\ (Resumes(p) => Resumes(p)')
                         /\ (IsOwed(p) => IsOwed(p)')
    BY <1>0, <1>1, <1>3, <1>4, OwedMoves, PartsTyped DEF links
<1>7. Owes(u) /\ u.last <= ended /\ ~HasRead(u)
    BY <1>3 DEF Owes, HasRead, InOrder, SessionsInOrder
<1>8. CASE session = 0
    <2>1. UNCHANGED <<session, version, status, edition>>
        BY <1>8 DEF Abandon
    <2>2. ScreensTyped'
        <3>1. /\ status' \in Statuses /\ edition' \in Nat /\ games' \in Nat /\ session' \in Nat
              /\ version' \in Nat /\ standings' \in Nat /\ call' \in Calls
              /\ sent' \in Nat /\ begun' \in Nat /\ ended' \in Nat /\ store' \in [Players -> Stores]
            BY <1>1, <2>1 DEF ScreensTyped
        <3> QED
            BY <1>1, <1>5, <3>1, LinksStay, StaysTyped
    <2>3. InOrder'
        <3>1. UNCHANGED <<server, call, sent, begun, ended>>
            BY <1>1, <2>1 DEF server
        <3> QED
            BY <1>5, <1>7, <3>1, OrderStays
    <2>4. RoomFollows'
        BY <1>1, <2>1, <1>6, RoomKept DEF Shown
    <2>5. ViewFollows'
        BY <1>1, <2>1, <1>6, ViewKept DEF Shown
    <2>6. StandingsFollow'
        BY <1>1, <2>1, <1>6, StandingsKept DEF Shown
    <2> QED
        BY <2>2, <2>3, <2>4, <2>5, <2>6 DEF Shown
<1>9. CASE session # 0
    <2>1. session' = 0 /\ version' = 0 /\ status' = "lobby" /\ edition' = edition + 1
        BY <1>9 DEF Abandon, SetStatus
    <2>2. status = "in_game" /\ ~returning
        BY <1>2, <1>9 DEF InOrder, StatusFits
    <2>3. ScreensTyped'
        <3>1. /\ status' \in Statuses /\ edition' \in Nat /\ games' \in Nat /\ session' \in Nat
              /\ version' \in Nat /\ standings' \in Nat /\ call' \in Calls
              /\ sent' \in Nat /\ begun' \in Nat /\ ended' \in Nat /\ store' \in [Players -> Stores]
            BY <1>1, <2>1 DEF ScreensTyped, Statuses
        <3> QED
            BY <1>1, <1>5, <3>1, LinksStay, StaysTyped
    <2>4. StatusFits'
        <3>1. ~returning'
            BY <1>1, <2>2, Zenon
        <3> QED
            BY <1>1, <1>2, <2>1, <3>1 DEF StatusFits
    <2>5. SessionsInOrder'
        <3>1. \A i \in jobs' : i.last <= ended
            BY <1>5, <1>7 DEF InOrder, SessionsInOrder
        <3> QED
            BY <1>1, <1>2, <2>1, <3>1 DEF InOrder, SessionsInOrder
    <2>6. ReadsAreRows' /\ RoomFollows' /\ sent' <= edition'
        <3>1. \A i \in jobs' : HasRead(i) => i \in jobs
            BY <1>5, <1>7
        <3> QED
            BY <1>1, <1>2, <2>1, <3>1, StatusIsNewer
    <2>7. StatusIsOwed'
        <3>1. Owes(u)'
            BY <1>3 DEF Owes
        <3> QED
            BY <1>5, <2>6, <3>1 DEF StatusIsOwed
    <2>8. ViewFollows' /\ StandingsFollow'
        BY <2>1 DEF ViewFollows, StandingsFollow
    <2> QED
        BY <2>3, <2>4, <2>5, <2>6, <2>7, <2>8 DEF InOrder, Shown
<1> QED
    BY <1>8, <1>9

-----------------------------------------------------------------------------
\* The players' own steps.
LEMMA PageConnectsKeeps ==
    ASSUME ScreensTyped, InOrder, Shown, NEW q \in Players, PageConnects(q)
    PROVE  ScreensTyped' /\ InOrder' /\ Shown'
<1>0. /\ conn[q] = 0 /\ spent' = spent + 1 /\ conn' = [conn EXCEPT ![q] = spent']
      /\ UNCHANGED <<server, call>> /\ inRoom' = inRoom /\ UNCHANGED <<store, sent, begun, ended>>
    BY DEF PageConnects, past
<1>1. spent' \in Nat /\ spent' # 0 /\ conn' \in [Players -> Nat]
    BY <1>0 DEF ScreensTyped
<1>2. PICK u \in JobRecords :
         /\ jobs' = jobs \cup {u}
         /\ u.kind = "join" /\ u.by = q /\ u.conn = spent' /\ u.at = "asked" /\ u.last = 0
    <2>1. PICK kind \in {"return", "leave", "join"} : kind = "join"
        OBVIOUS
    <2>2. PICK p \in Players \cup {"server"} : p = q
        OBVIOUS
    <2>3. PICK c \in Nat : c = spent'
        BY <1>1
    <2>4. PICK at \in JobSteps : at = "asked"
        BY DEF JobSteps
    <2>5. Adds(Job(kind, p, c, at))
        BY <2>1, <2>2, <2>3, <2>4 DEF PageConnects
    <2> QED
        BY <2>1, <2>2, <2>3, <2>4, <2>5, JobBegins
<1>3. JobFits(u) /\ ~HasRead(u)
    BY <1>1, <1>2 DEF JobFits, JobSteps, HasRead
<1>4. JobsTyped'
    BY <1>2, <1>3, JobBeginsTyped, PartsTyped
<1>5. \A p \in inRoom' : p \in inRoom /\ p \in Players /\ conn[p] # 0 /\ conn'[p] = conn[p]
    BY <1>0, <1>1, PartsTyped DEF ScreensTyped
<1>6. ScreensTyped' /\ UNCHANGED <<status, edition, session, version>>
    <2>1. sent' \in Nat /\ store' \in [Players -> Stores]
        BY <1>0 DEF ScreensTyped
    <2>2. inRoom' \subseteq Connected'
        BY <1>5 DEF Connected
    <2> QED
        BY <1>0, <1>1, <1>4, <2>1, <2>2, JobStepTyped
<1>7. InOrder'
    <2>1. u.last <= ended
        BY <1>2, PartsTyped
    <2> QED
        BY <1>0, <1>2, <1>3, <2>1, OrderStays
<1>8. \A p \in inRoom' : /\ p \in inRoom
                         /\ (Enters(p) => Enters(p)') /\ (Resumes(p) => Resumes(p)')
                         /\ (IsOwed(p) => IsOwed(p)')
    BY <1>0, <1>2, <1>5, OwedStays
<1>9. RoomFollows'
    BY <1>0, <1>6, <1>8, RoomKept DEF Shown
<1>10. ViewFollows'
    BY <1>0, <1>6, <1>8, ViewKept DEF Shown
<1>11. StandingsFollow'
    BY <1>0, <1>6, <1>8, StandingsKept DEF Shown
<1> QED
    BY <1>6, <1>7, <1>9, <1>10, <1>11 DEF Shown

LEMMA PageGoesKeeps ==
    ASSUME ScreensTyped, InOrder, Shown, NEW q \in Players, PageDrops(q) \/ PageReloads(q)
    PROVE  ScreensTyped' /\ InOrder' /\ Shown'
<1>0. /\ conn' = [conn EXCEPT ![q] = 0] /\ inRoom' = inRoom \ {q}
      /\ UNCHANGED <<server, call>> /\ UNCHANGED jobs /\ UNCHANGED <<spent, sent, begun, ended>>
    BY DEF PageDrops, PageReloads, past
<1>1. /\ store' \in [Players -> Stores]
      /\ \A p \in Players : p # q => store'[p] = store[p]
    <2>1. Fresh \in Stores
        BY DEF Fresh, Stores, NoView
    <2>2. store \in [Players -> Stores]
        BY PartsTyped
    <2>3. store' = store \/ store' = [store EXCEPT ![q] = Fresh]
        BY DEF PageDrops, PageReloads, past
    <2> QED
        BY <2>1, <2>2, <2>3
<1>2. \A p \in inRoom' : p # q /\ p \in inRoom /\ p \in Players /\ conn[p] # 0 /\ conn'[p] = conn[p]
                         /\ store'[p] = store[p]
    BY <1>0, <1>1, PartsTyped DEF ScreensTyped
<1>3. ScreensTyped' /\ UNCHANGED <<status, edition, session, version>>
    <2>1. sent' \in Nat /\ spent' \in Nat /\ conn' \in [Players -> Nat]
        BY <1>0 DEF ScreensTyped
    <2>2. inRoom' \subseteq Connected'
        BY <1>2 DEF Connected
    <2>3. JobsTyped'
        BY <1>0, PartsTyped DEF JobsTyped, JobFits
    <2> QED
        BY <1>0, <1>1, <2>1, <2>2, <2>3, JobStepTyped
<1>4. InOrder'
    BY <1>0, OrderStays
<1>5. \A p \in inRoom' : /\ p \in inRoom
                         /\ (Enters(p) => Enters(p)') /\ (Resumes(p) => Resumes(p)')
                         /\ (IsOwed(p) => IsOwed(p)')
    BY <1>0, <1>2, OwedStays
<1>6. RoomFollows'
    BY <1>0, <1>2, <1>3, <1>5, RoomKept DEF Shown
<1>7. ViewFollows'
    BY <1>0, <1>2, <1>3, <1>5, ViewKept DEF Shown
<1>8. StandingsFollow'
    BY <1>0, <1>2, <1>3, <1>5, StandingsKept DEF Shown
<1> QED
    BY <1>3, <1>4, <1>6, <1>7, <1>8 DEF Shown

LEMMA EvictsKeeps ==
    ASSUME ScreensTyped, InOrder, Shown, NEW q \in Players, Evicts(q)
    PROVE  ScreensTyped' /\ InOrder' /\ Shown'
<1>0. /\ UNCHANGED <<server, call>> /\ UNCHANGED links /\ UNCHANGED <<store, sent, begun, ended>>
      /\ conn' = conn /\ inRoom' = inRoom
    BY DEF Evicts, past, links
<1>1. PICK u \in JobRecords :
         jobs' = jobs \cup {u} /\ u.kind = "leave" /\ u.at = "removed" /\ u.last = 0
    <2>1. PICK kind \in {"return", "leave", "join"} : kind = "leave"
        OBVIOUS
    <2>2. PICK p \in Players \cup {"server"} : p = q
        OBVIOUS
    <2>3. PICK c \in Nat : c = 0
        OBVIOUS
    <2>4. PICK at \in JobSteps : at = "removed"
        BY DEF JobSteps
    <2>5. Adds(Job(kind, p, c, at))
        BY <2>1, <2>2, <2>3, <2>4 DEF Evicts
    <2> QED
        BY <2>1, <2>3, <2>4, <2>5, JobBegins
<1>2. JobFits(u) /\ ~HasRead(u)
    BY <1>1 DEF JobFits, HasRead
<1>3. JobsTyped'
    BY <1>1, <1>2, JobBeginsTyped, PartsTyped
<1>4. ScreensTyped' /\ UNCHANGED <<status, edition, session, version>>
    <2>1. sent' \in Nat /\ store' \in [Players -> Stores]
        BY <1>0 DEF ScreensTyped
    <2> QED
        BY <1>0, <1>3, <2>1, LinksStay, JobStepTyped
<1>5. InOrder'
    <2>1. u.last <= ended
        BY <1>1, PartsTyped
    <2> QED
        BY <1>0, <1>1, <1>2, <2>1, OrderStays
<1>6. \A p \in inRoom' : /\ p \in inRoom
                         /\ (Enters(p) => Enters(p)') /\ (Resumes(p) => Resumes(p)')
                         /\ (IsOwed(p) => IsOwed(p)')
    BY <1>0, <1>1, OwedStays
<1>7. RoomFollows'
    BY <1>0, <1>4, <1>6, RoomKept DEF Shown
<1>8. ViewFollows'
    BY <1>0, <1>4, <1>6, ViewKept DEF Shown
<1>9. StandingsFollow'
    BY <1>0, <1>4, <1>6, StandingsKept DEF Shown
<1> QED
    BY <1>4, <1>5, <1>7, <1>8, <1>9 DEF Shown

-----------------------------------------------------------------------------
LEMMA ScreensStart == ScreensInit => ScreensInv
<1> SUFFICES ASSUME ScreensInit PROVE ScreensInv
    OBVIOUS
<1>1. call \in Calls /\ call.at = "free" /\ ~call.ends
    BY FreeCall DEF ScreensInit
<1>2. /\ status = "lobby" /\ edition = 0 /\ session = 0 /\ version = 0
      /\ standings = 0 /\ games = 0 /\ jobs = {} /\ spent = 1 /\ sent = 0 /\ begun = 0 /\ ended = 0
      /\ conn = [p \in Players |-> 1] /\ inRoom = Players
    BY DEF ScreensInit
<1>3. ~returning /\ ~late
    BY Zenon DEF ScreensInit
<1>4. store \in [Players -> Stores] /\ \A p \in Players : store[p].room = "lobby"
    <2>1. PICK s : s = [Fresh EXCEPT !.room = "lobby"]
        OBVIOUS
    <2>2. s \in Stores /\ s.room = "lobby"
        BY <2>1 DEF Fresh, Stores, Statuses, NoView
    <2>3. store = [p \in Players |-> s]
        BY <2>1 DEF ScreensInit
    <2> QED
        BY <2>2, <2>3
<1>5. ScreensTyped
    BY <1>1, <1>2, <1>4 DEF ScreensTyped, Statuses, Connected
<1>6. StatusFits
    BY <1>1, <1>2, <1>3 DEF StatusFits
<1>7. SessionsInOrder /\ ReadsAreRows /\ StatusIsOwed
    BY <1>1, <1>2 DEF SessionsInOrder, ReadsAreRows, StatusIsOwed
<1>8. Shown
    BY <1>2, <1>4 DEF Shown, RoomFollows, ViewFollows, StandingsFollow
<1> QED
    BY <1>5, <1>6, <1>7, <1>8 DEF ScreensInv, InOrder

LEMMA ScreensStep == ScreensInv /\ [ScreensNext]_screens => ScreensInv'
<1> SUFFICES ASSUME ScreensInv, [ScreensNext]_screens PROVE ScreensInv'
    OBVIOUS
<1>1. CASE ScreensNext
    <2>0. ~late
        BY <1>1 DEF ScreensNext
    <2>1. ScreensTyped /\ InOrder /\ Shown
        BY <2>0, Zenon DEF ScreensInv
    <2>2. ASSUME StartGame \/ Act \/ UnderLock
          PROVE  ScreensTyped' /\ (~late' => InOrder' /\ Shown')
        BY <2>1, <2>2, StartGameKeeps, ActKeeps, PushStartKeeps, PushKeeps, FinishKeeps, EndKeeps,
           ReadUnderLockKeeps, SendUnderLockKeeps, Zenon DEF UnderLock
    <2>3. ASSUME Return
          PROVE  ScreensTyped' /\ (~late' => InOrder' /\ Shown')
        BY <2>1, <2>3, ReturnKeeps, Zenon
    <2>4. ASSUME NEW p \in Movers, PageConnects(p) \/ PageDrops(p) \/ PageReloads(p) \/ Evicts(p)
          PROVE  ScreensTyped' /\ (~late' => InOrder' /\ Shown')
        <3>1. p \in Players
            BY MoversAssumption
        <3> QED
            BY <2>1, <2>4, <3>1, PageConnectsKeeps, PageGoesKeeps, EvictsKeeps, Zenon
    <2>5. ASSUME NEW j \in jobs, JobStep(j)
          PROVE  ScreensTyped' /\ (~late' => InOrder' /\ Shown')
        BY <2>1, <2>5, CleanKeeps, ReadStateKeeps, SendStateKeeps, LetInKeeps, IntoRoomKeeps,
           ResumeKeeps, CatchUpKeeps, SendStandingsKeeps, AnswerKeeps, AbandonKeeps, Zenon DEF JobStep
    <2>6. ScreensTyped' /\ (~late' => InOrder' /\ Shown')
        BY <1>1, <2>2, <2>3, <2>4, <2>5, Zenon DEF ScreensNext
    <2> QED
        BY <2>6, Zenon DEF ScreensInv
<1>2. CASE UNCHANGED screens
    <2>1. /\ UNCHANGED <<status, edition, session, version, standings, returning, games>>
          /\ UNCHANGED <<call, jobs, conn, inRoom, spent, store, sent, begun, ended>>
          /\ (late' <=> late)
        BY <1>2 DEF screens, server, links, past
    <2>2. ScreensTyped'
        BY <2>1 DEF ScreensInv, ScreensTyped, Connected, JobFits
    <2>3. InOrder => InOrder'
        BY <2>1 DEF InOrder, StatusFits, SessionsInOrder, ReadsAreRows, StatusIsOwed, IsRow, HasRead, Owes
    <2>4. RoomFollows => RoomFollows'
        BY <2>1 DEF RoomFollows, Enters
    <2>5. ViewFollows => ViewFollows'
        BY <2>1 DEF ViewFollows, Resumes
    <2>6. StandingsFollow => StandingsFollow'
        <3>1. \A p : IsOwed(p)' <=> IsOwed(p)
            BY <2>1 DEF IsOwed, CatchesUp
        <3> QED
            BY <2>1, <3>1 DEF StandingsFollow
    <2> QED
        BY <2>1, <2>2, <2>3, <2>4, <2>5, <2>6, Zenon DEF ScreensInv, Shown
<1> QED
    BY <1>1, <1>2

LEMMA ScreensInvRight == ScreensInv => ScreenRight
<1> SUFFICES ASSUME ScreensInv, Unlocked, jobs = {}, ~late, NEW p \in inRoom
    PROVE  Screen(p) = WhatTheRoomDoes
    BY Zenon DEF ScreenRight
<1>1. ScreensTyped /\ InOrder /\ Shown
    BY Zenon DEF ScreensInv
<1>2. call.at = "free"
    BY FreeCall DEF Unlocked
<1>3. sent = edition
    BY <1>1, <1>2 DEF InOrder, StatusIsOwed
<1>4. store[p].room = status
    BY <1>1, <1>3 DEF Shown, RoomFollows, Enters
<1>5. session # 0 => store[p].view = <<session, version>>
    BY <1>1, <1>2 DEF Shown, ViewFollows, Resumes
<1>6. status = "results" => store[p].standings = ended
    BY <1>1, <1>2 DEF Shown, StandingsFollow, IsOwed
<1>7. status = "in_game" <=> session # 0
    BY <1>1, <1>2 DEF InOrder, StatusFits
<1>8. status \in Statuses
    BY <1>1, PartsTyped
<1>9. CASE status = "lobby"
    BY <1>4, <1>9 DEF Screen, WhatTheRoomDoes
<1>10. CASE status = "in_game"
    <2>1. <<session, version>> # NoView
        BY <1>7, <1>10 DEF NoView
    <2>2. Screen(p) = GameArea(store[p])
        BY <1>4, <1>10 DEF Screen
    <2>3. GameArea(store[p]) = <<"game", <<session, version>> >>
        BY <1>5, <1>7, <1>10, <2>1 DEF GameArea
    <2> QED
        BY <1>10, <2>2, <2>3 DEF WhatTheRoomDoes
<1>11. CASE status = "results"
    BY <1>4, <1>6, <1>11 DEF Screen, WhatTheRoomDoes, ResultsArea
<1> QED
    BY <1>8, <1>9, <1>10, <1>11 DEF Statuses

\* When nothing is in progress, everybody in the room sees what the room does
\* (the room page and the pushes of game-runtime.service.ts), for any number of
\* players, games, connections and jobs, up to the first of the races.
THEOREM ScreenRightCorrect == ScreensInit /\ [][ScreensNext]_screens => []ScreenRight
<1>1. ScreensInit => ScreensInv
    BY ScreensStart
<1>2. ScreensInv /\ [ScreensNext]_screens => ScreensInv'
    BY ScreensStep
<1>3. ScreensInv => ScreenRight
    BY ScreensInvRight
<1> QED
    BY <1>1, <1>2, <1>3, PTL
=============================================================================
