---------------------------- MODULE RoomService ----------------------------
(***************************************************************************)
(* RoomsService: the rows of one room and the methods that change them,    *)
(* one step per database statement.  A call keeps what it has read: the    *)
(* room's host, whether the user has a row, who remained.  Saving a row    *)
(* writes the changed column only.  The service takes no lock: who calls   *)
(* it (module Rooms) does or does not.                                     *)
(***************************************************************************)
EXTENDS Naturals, SequencesExt

CONSTANTS
    Users,
    MaxPlayers,  \* the room's maxPlayers
    Calls        \* bound: how many calls are in flight together

ASSUME CapacityAssumption == MaxPlayers \in Nat \ {0}
ASSUME CallsAssumption == IsFiniteSet(Calls) /\ Calls # {}

VARIABLES
    host, closed,  \* the rooms row
    joined,        \* who has a room_members row, in the order of joinedAt
    members,       \* the rows whose leftAt is null
    bans,          \* the room_bans rows
    pc, op         \* how far each call came, and what it works with

rows == <<host, closed, joined, members, bans>>
serviceVars == <<rows, pc, op>>

NoOp == [kind |-> "none"]

\* create: the room and its host's row
ServiceInit ==
    /\ host \in Users
    /\ closed = FALSE
    /\ joined = <<host>>
    /\ members = {host}
    /\ bans = {}
    /\ pc = [c \in Calls |-> "free"]
    /\ op = [c \in Calls |-> NoOp]

-----------------------------------------------------------------------------
Goes(c, to) == pc' = [pc EXCEPT ![c] = to] /\ UNCHANGED op
Keeps(c, to, field, value) ==
    /\ pc' = [pc EXCEPT ![c] = to]
    /\ op' = [op EXCEPT ![c][field] = value]

\* A method returns, or throws RoomClosedError, RoomBannedError, RoomFullError,
\* Forbidden or NotFound: the rows do not know the difference.
Returns(c) ==
    /\ pc' = [pc EXCEPT ![c] = "done"]
    /\ op' = [op EXCEPT ![c] = NoOp]
Throws(c) == Returns(c)

User(c) == op[c].user

\* join
JoinReadsRoom(c) ==
    /\ pc[c] = "join"
    /\ IF closed THEN Throws(c) ELSE Goes(c, "join bans")
    /\ UNCHANGED rows

JoinReadsBans(c) ==
    /\ pc[c] = "join bans"
    /\ IF User(c) \in bans THEN Throws(c) ELSE Goes(c, "join row")
    /\ UNCHANGED rows

JoinReadsRow(c) ==
    /\ pc[c] = "join row"
    /\ IF User(c) \in members THEN Returns(c)
       ELSE Keeps(c, "join count", "known", User(c) \in Range(joined))
    /\ UNCHANGED rows

\* Deviation: the limit is missed by one.
JoinCountsLate(c) ==
    /\ pc[c] = "join count"
    /\ IF Cardinality(members) > MaxPlayers THEN Throws(c) ELSE Goes(c, "join write")
    /\ UNCHANGED rows

JoinCounts(c) ==
    /\ pc[c] = "join count"
    /\ IF Cardinality(members) >= MaxPlayers THEN Throws(c) ELSE Goes(c, "join write")
    /\ UNCHANGED rows

\* A row that was there is revived; a new one meets the unique constraint when
\* another call wrote it first, which counts as success.
JoinWrites(c) ==
    /\ pc[c] = "join write"
    /\ Returns(c)
    /\ IF op[c].known
       THEN members' = members \cup {User(c)} /\ UNCHANGED joined
       ELSE IF User(c) \in Range(joined) THEN UNCHANGED <<members, joined>>
       ELSE members' = members \cup {User(c)} /\ joined' = Append(joined, User(c))
    /\ UNCHANGED <<host, closed, bans>>

-----------------------------------------------------------------------------
\* removeActiveMember
RemoveReadsRoom(c) ==
    /\ pc[c] = "remove"
    /\ Keeps(c, "remove row", "wasHost", host = User(c))
    /\ UNCHANGED rows

RemoveReadsRow(c) ==
    /\ pc[c] = "remove row"
    /\ IF User(c) \in members THEN Goes(c, "remove write") ELSE Returns(c)
    /\ UNCHANGED rows

RemoveWrites(c) ==
    /\ pc[c] = "remove write"
    /\ Goes(c, "remaining")
    /\ members' = members \ {User(c)}
    /\ UNCHANGED <<host, closed, joined, bans>>

\* Deviation: only a host who leaves closes the room.
HostReadsRemaining(c) ==
    /\ pc[c] = "remaining"
    /\ IF ~op[c].wasHost THEN Returns(c)
       ELSE IF members = {} THEN Goes(c, "close")
       ELSE Keeps(c, "hand on", "remaining", members)
    /\ UNCHANGED rows

RemoveReadsRemaining(c) ==
    /\ pc[c] = "remaining"
    /\ IF members = {} THEN Goes(c, "close")
       ELSE IF op[c].wasHost THEN Keeps(c, "hand on", "remaining", members)
       ELSE Returns(c)
    /\ UNCHANGED rows

Close(c) ==
    /\ pc[c] = "close"
    /\ Returns(c)
    /\ closed' = TRUE
    /\ UNCHANGED <<host, joined, members, bans>>

\* The earliest joined of those who remained
Earliest(users) == joined[Min({i \in DOMAIN joined : joined[i] \in users})]

\* Deviation: the host of the room stays.
KeepsHost(c) == pc[c] = "hand on" /\ Returns(c) /\ UNCHANGED rows

\* Nothing is saved when the user is back and the earliest of them.
HandOn(c) ==
    /\ pc[c] = "hand on"
    /\ Returns(c)
    /\ LET next == Earliest(op[c].remaining) IN host' = IF next = User(c) THEN host ELSE next
    /\ UNCHANGED <<closed, joined, members, bans>>

-----------------------------------------------------------------------------
\* kick, ban and transferHost begin with assertHost.
AssertHost(c, kind, to) ==
    /\ pc[c] = kind
    /\ IF host = op[c].by THEN Goes(c, to) ELSE Throws(c)
    /\ UNCHANGED rows

Kick(c) == AssertHost(c, "kick", "remove")
Ban(c) == AssertHost(c, "ban", "ban write")
Transfer(c) == AssertHost(c, "transfer", "transfer row")

\* Deviation: a ban bars the door and leaves the member inside.
BanOnlyBars(c) ==
    /\ pc[c] = "ban write"
    /\ Returns(c)
    /\ bans' = bans \cup {User(c)}
    /\ UNCHANGED <<host, closed, joined, members>>

BanWrites(c) ==
    /\ pc[c] = "ban write"
    /\ Goes(c, "remove")
    /\ bans' = bans \cup {User(c)}
    /\ UNCHANGED <<host, closed, joined, members>>

TransferReadsRow(c) ==
    /\ pc[c] = "transfer row"
    /\ IF User(c) \in members THEN Goes(c, "transfer write") ELSE Throws(c)
    /\ UNCHANGED rows

TransferWrites(c) ==
    /\ pc[c] = "transfer write"
    /\ Returns(c)
    /\ host' = User(c)
    /\ UNCHANGED <<closed, joined, members, bans>>

ServiceStep(c) ==
    \/ JoinReadsRoom(c) \/ JoinReadsBans(c) \/ JoinReadsRow(c) \/ JoinCounts(c) \/ JoinWrites(c)
    \/ RemoveReadsRoom(c) \/ RemoveReadsRow(c) \/ RemoveWrites(c) \/ RemoveReadsRemaining(c)
    \/ Close(c) \/ HandOn(c)
    \/ Kick(c) \/ Ban(c) \/ BanWrites(c)
    \/ Transfer(c) \/ TransferReadsRow(c) \/ TransferWrites(c)
=============================================================================
