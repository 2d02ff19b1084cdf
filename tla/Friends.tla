------------------------------ MODULE Friends ------------------------------
(***************************************************************************)
(* The friendship of two users: the rows that friends.service.ts keeps,    *)
(* the notification of a request, and the page of each user that acts and  *)
(* then loads its lists again (friends-list.tsx).  A call reads the rows   *)
(* and then writes; any two calls interleave in between, and loads answer  *)
(* in any order.  The table has one unique index, on (userId, friendId).   *)
(***************************************************************************)
EXTENDS Integers, Sequences, FiniteSets

CONSTANTS
    Pair,      \* the two users
    MaxRows,   \* bound: requests ever made
    MaxCalls,  \* bound: calls in progress
    MaxLosses  \* bound: loads and notifications that fail

ASSUME PairAssumption == \E u, v \in Pair : u # v /\ Pair = {u, v}

VARIABLES
    rows,     \* the friendships: id, from, to, status
    ids,      \* rows created so far
    calls,    \* the calls in progress: who, what, and the row it has read
    notices,  \* the rows whose recipient was notified
    pages,    \* the lists of each user: read after its last call, before, or failed
    losses,   \* loads and notifications that have failed
    crossed,  \* history: two requests in opposite directions overlapped
    muddled,  \* history: two loads of one page overlapped
    over      \* history: a removal found its row and no request has been made since

people == <<rows, ids, calls, notices, pages, losses, crossed, muddled, over>>

Other(u) == CHOOSE v \in Pair : v # u
Row(id, from, status) == [id |-> id, from |-> from, to |-> Other(from), status |-> status]
PageCall(u, kind, at, read) == [user |-> u, kind |-> kind, at |-> at, read |-> read, fresh |-> FALSE]
Asking(u) == \E c \in calls : c.user = u /\ c.kind = "send"

FriendsInit ==
    /\ rows = {} /\ ids = 0 /\ calls = {} /\ notices = {}
    /\ pages = [u \in Pair |-> "fresh"]
    /\ losses = 0
    /\ crossed = FALSE /\ muddled = FALSE /\ over = FALSE

-----------------------------------------------------------------------------
Begins(c) ==
    /\ c \notin calls
    /\ Cardinality(calls) < MaxCalls
    /\ calls' = calls \cup {c}
Throws(c) == calls' = calls \ {c}

\* A call that is answered makes its page load the lists again; what was read
\* before is now old.
Reloads(c) ==
    /\ calls' = {IF d.user = c.user THEN [d EXCEPT !.fresh = FALSE] ELSE d : d \in calls \ {c}}
                  \cup {PageCall(c.user, "load", "read", {})}
    /\ pages' = [pages EXCEPT ![c.user] = "old"]
    /\ muddled' = (muddled \/ \E d \in calls : d.user = c.user /\ d.kind = "load")

\* sendRequest: no row in either direction
Ask(u) ==
    /\ ids + Cardinality({c \in calls : c.kind = "send"}) < MaxRows
    /\ rows = {}
    /\ Begins(PageCall(u, "send", "create", {}))
    /\ crossed' = (crossed \/ Asking(Other(u)))
    /\ over' = FALSE
    /\ UNCHANGED <<rows, ids, notices, pages, losses, muddled>>

\* sendRequest: a second row in the same direction breaks the index.
Create(c) ==
    /\ c.kind = "send" /\ c.at = "create"
    /\ IF \E r \in rows : r.from = c.user
       THEN Throws(c) /\ UNCHANGED <<rows, ids>>
       ELSE /\ ids' = ids + 1
            /\ LET row == Row(ids', c.user, "pending")
               IN  /\ rows' = rows \cup {row}
                   /\ calls' = (calls \ {c}) \cup {[c EXCEPT !.at = "notify", !.read = {row}]}
    /\ UNCHANGED <<notices, pages, losses, crossed, muddled, over>>

\* NotificationsService.push; when it fails the row is there without a notice
\* and the sender is told that the request failed.
Notify(c) ==
    /\ c.kind = "send" /\ c.at = "notify"
    /\ UNCHANGED <<rows, ids, crossed, over>>
    /\ \/ notices' = notices \cup c.read /\ Reloads(c) /\ UNCHANGED losses
       \/ losses < MaxLosses /\ losses' = losses + 1 /\ Throws(c) /\ UNCHANGED <<notices, pages, muddled>>

\* findPendingRequestForRecipient, for accept and decline
Find(u, kind) ==
    /\ \E r \in rows :
          /\ r.to = u /\ r.status = "pending"
          /\ Begins(PageCall(u, kind, "write", {r}))
    /\ UNCHANGED <<rows, ids, notices, pages, losses, crossed, muddled, over>>

\* Deviation: the friendship is mirrored into a row of the other direction.
AcceptMirrored(c) ==
    /\ c.kind = "accept" /\ c.at = "write"
    /\ LET found == {r \in rows : \E q \in c.read : q.id = r.id}
       IN  rows' = (rows \ found) \cup {[r EXCEPT !.status = "accepted"] : r \in found}
                   \cup {Row(0, c.user, "accepted")}
    /\ Reloads(c)
    /\ UNCHANGED <<ids, notices, losses, crossed, over>>

\* accept saves the status, if the row is still there.
Accept(c) ==
    /\ c.kind = "accept" /\ c.at = "write"
    /\ LET found == {r \in rows : \E q \in c.read : q.id = r.id}
       IN  rows' = (rows \ found) \cup {[r EXCEPT !.status = "accepted"] : r \in found}
    /\ Reloads(c)
    /\ UNCHANGED <<ids, notices, losses, crossed, over>>

\* remove finds one row of the pair.
FindAny(u) ==
    /\ \E r \in rows :
          /\ r.from = u \/ \A q \in rows : q.from # u
          /\ Begins(PageCall(u, "remove", "write", {r}))
    /\ UNCHANGED <<rows, ids, notices, pages, losses, crossed, muddled, over>>

\* decline and remove destroy what they have found.
Destroy(c) ==
    /\ c.kind \in {"decline", "remove"} /\ c.at = "write"
    /\ rows' = {r \in rows : \A q \in c.read : q.id # r.id}
    /\ Reloads(c)
    /\ over' = (over \/ (c.kind = "remove" /\ rows' # rows /\ \A u \in Pair : ~Asking(u)))
    /\ UNCHANGED <<ids, notices, losses, crossed>>

-----------------------------------------------------------------------------
\* loadAll: the three lists are read at one moment and shown at another.
ReadLists(c) ==
    /\ c.kind = "load" /\ c.at = "read"
    /\ calls' = (calls \ {c}) \cup {[c EXCEPT !.at = "show", !.fresh = TRUE]}
    /\ UNCHANGED <<rows, ids, notices, pages, losses, crossed, muddled, over>>

ShowLists(c) ==
    /\ c.kind = "load" /\ c.at = "show"
    /\ pages' = [pages EXCEPT ![c.user] = IF c.fresh THEN "fresh" ELSE "old"]
    /\ Throws(c)
    /\ UNCHANGED <<rows, ids, notices, losses, crossed, muddled, over>>

\* A load that fails leaves the lists as they are and shows an error.
LoadFails(c) ==
    /\ c.kind = "load"
    /\ losses < MaxLosses
    /\ losses' = losses + 1
    /\ pages' = [pages EXCEPT ![c.user] = "failed"]
    /\ Throws(c)
    /\ UNCHANGED <<rows, ids, notices, crossed, muddled, over>>

FriendsNext ==
    \/ \E u \in Pair : Ask(u)
    \/ \E u \in Pair, kind \in {"accept", "decline"} : Find(u, kind)
    \/ \E u \in Pair : FindAny(u)
    \/ \E c \in calls : Create(c)
    \/ \E c \in calls : Notify(c)
    \/ \E c \in calls : Accept(c)
    \/ \E c \in calls : Destroy(c)
    \/ \E c \in calls : ReadLists(c)
    \/ \E c \in calls : ShowLists(c)
    \/ \E c \in calls : LoadFails(c)

FriendsSpec == FriendsInit /\ [][FriendsNext]_people

-----------------------------------------------------------------------------
\* What friends.service.ts says of its rows ("stores exactly one row per
\* unordered pair", lines 22-24; "since only one row backs the pair", line 87).
\* It is not so: sendRequest looks for rows and then creates one.
OneRowBacksThePair == Cardinality(rows) <= 1

\* What the index and the calls do give: one row in each direction, always; a
\* second row for a pair only of two requests that crossed; and, but for that, a
\* removal that was answered ends the friendship, whatever accept or decline of
\* the same row was under way (sendRequest, accept, remove).
RowsOfThePair ==
    /\ \A r, q \in rows : r.from = q.from => r = q
    /\ ~crossed => OneRowBacksThePair /\ (over => rows = {})

\* A recipient can be told of every request that lasts, but for those whose
\* notification failed (sendRequest, NotificationsService.push).
RequestsAreNotified ==
    losses = 0 => \A r \in rows :
        \E n \in notices \cup UNION {c.read : c \in {d \in calls : d.at = "notify"}} : n.id = r.id

\* A page shows what its user has done, and whatever happened before, once it
\* has loaded its lists, unless the load failed or overlapped another
\* (handleAccept, handleDecline, handleRemove, handleSendRequest, loadAll).
OwnDeedsShow ==
    ~muddled => \A u \in Pair :
        \/ pages[u] # "old"
        \/ \E c \in calls : c.user = u /\ c.kind = "load"

FriendsRight == RowsOfThePair /\ RequestsAreNotified /\ OwnDeedsShow
=============================================================================
