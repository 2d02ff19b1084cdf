------------------------------- MODULE Rooms -------------------------------
(***************************************************************************)
(* Who calls RoomsService on one room: the gateway's handlers and the      *)
(* eviction of PresenceService, all under the lock room:<id>, and the REST *)
(* routes POST /rooms/:id/join and /leave, which take no lock.  The lock   *)
(* works (RedisLock).  Sockets, presence, votes and games are left out: a  *)
(* handler is what it does to the rows.                                    *)
(***************************************************************************)
EXTENDS RoomService

VARIABLES
    lock,  \* the call that holds room:<id>, or NoCall
    raced  \* history: a REST call and another have overlapped

vars == <<serviceVars, lock, raced>>

NoCall == "none"

Init == ServiceInit /\ lock = NoCall /\ raced = FALSE

Serving == {c \in Calls : pc[c] # "free"}
Moderation == {"kick", "ban", "transfer"}

-----------------------------------------------------------------------------
\* A call enters the service at one of its methods.
Enters(c, step, by, u) ==
    /\ pc[c] = "free"
    /\ pc' = [pc EXCEPT ![c] = step]
    /\ op' = [op EXCEPT ![c] = [by |-> by, user |-> u, known |-> FALSE,
                               wasHost |-> FALSE, remaining |-> {}]]
    /\ raced' = (raced \/ Serving # {})
    /\ UNCHANGED rows

\* withLock.  Nothing is read before, so a call that waits is not in flight yet.
Locks(c) == lock = NoCall /\ lock' = c

\* room:join, room:leave and the eviction after the grace period, for the user
\* themself; the sockets in the room may be those of former members.
CallOwn(c, u) == Locks(c) /\ \E method \in {"join", "remove"} : Enters(c, method, u, u)

\* room:kick, room:ban and room:transfer_host; nobody kicks or bans themself.
CallModeration(c, by, target) ==
    /\ Locks(c)
    /\ \E method \in Moderation :
          (method # "transfer" => target # by) /\ Enters(c, method, by, target)

\* POST /rooms/:id/join and /leave take no lock.
CallRest(c, u) ==
    /\ \E method \in {"join", "remove"} : Enters(c, method, u, u)
    /\ UNCHANGED lock

Serves(c) == ServiceStep(c) /\ UNCHANGED <<lock, raced>>

\* The lock is released, and the call is answered.
Answers(c) ==
    /\ pc[c] = "done"
    /\ pc' = [pc EXCEPT ![c] = "free"]
    /\ lock' = IF lock = c THEN NoCall ELSE lock
    /\ UNCHANGED <<rows, op, raced>>

Next ==
    \E c \in Calls :
        \/ \E u \in Users : CallOwn(c, u) \/ CallRest(c, u)
        \/ \E by, target \in Users : CallModeration(c, by, target)
        \/ Serves(c)
        \/ Answers(c)

Spec == Init /\ [][Next]_vars

-----------------------------------------------------------------------------
Steps == {"free", "done", "join", "join bans", "join row", "join count",
          "join write", "remove", "remove row", "remove write", "remaining", "close", "hand on",
          "kick", "ban", "ban write", "transfer", "transfer row", "transfer write"}

Operations == [by : Users, user : Users, known : BOOLEAN, wasHost : BOOLEAN,
               remaining : SUBSET Users]

\* Every variable has its type, nobody has two rows however joins overlap, and
\* members have one.
TypeOK ==
    /\ host \in Users /\ closed \in BOOLEAN /\ bans \subseteq Users
    /\ joined \in Seq(Users) /\ IsInjective(joined)
    /\ members \subseteq Range(joined)
    /\ pc \in [Calls -> Steps]
    /\ op \in [Calls -> {NoOp} \cup Operations]
    /\ lock \in Calls \cup {NoCall}
    /\ raced \in BOOLEAN

Quiet == Serving = {}

\* However removals overlap each other and joins, whoever leaves last closes the
\* room: no empty room stays open in the browser for ever.
EmptyRoomsClose == Quiet /\ members = {} => closed

\* A room is overbooked by the joins that overlapped and no more: one that has
\* counted leaves a place to itself, and a full room is closed to the next.
OverbookingBounded ==
    Cardinality(members) + Cardinality({c \in Calls : pc[c] = "join write"})
        <= MaxPlayers + Cardinality(Calls) - 1

\* Unless a REST call has overlapped another call, an open room has its host
\* among its members, a closed one is empty and nobody is overbooked
\* (removeActiveMember reads who remained some awaits before it hands on or
\* closes, join counts some awaits before it writes).
HostOrClosed ==
    Quiet /\ ~raced =>
        /\ IF closed THEN members = {} ELSE host \in members
        /\ Cardinality(members) <= MaxPlayers

\* Unless a REST call has overlapped another call, nobody who is banned is a
\* member (join reads the bans, then the rows; ban writes its row, then removes).
BansKept == Quiet /\ ~raced => bans \cap members = {}
=============================================================================
