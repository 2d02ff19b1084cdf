---------------------------- MODULE RoomsProofs ----------------------------
(***************************************************************************)
(* Proofs about Rooms, for any users, any limit and any number of calls in *)
(* flight.  That overbooking is bounded and that empty rooms close holds   *)
(* however REST calls and the gateway's overlap; that the host is there    *)
(* and the banned are not holds until a REST call overlaps another call.   *)
(***************************************************************************)
EXTENDS Rooms, FiniteSetTheorems, SequenceTheorems, WellFoundedInduction, TLAPS

Writing == {c \in Calls : pc[c] = "join write"}

\* What every step keeps of the types: the proofs need no more.
Shape ==
    /\ pc \in [Calls -> Steps]
    /\ IsFiniteSet(members)

\* The members and the joins about to write stay within the limit and the calls.
Overbooking ==
    /\ Shape
    /\ Cardinality(members) + Cardinality(Writing) <= MaxPlayers + Cardinality(Calls) - 1

\* An open room without members is about to be closed by who left last.
Emptied ==
    /\ pc \in [Calls -> Steps]
    /\ members = {} /\ ~closed => \E c \in Calls : pc[c] \in {"remaining", "close"}

LEMMA CallsFinite == IsFiniteSet(Calls) /\ Cardinality(Calls) \in Nat /\ Cardinality(Calls) >= 1
<1>1. IsFiniteSet(Calls) /\ Calls # {}
    BY CallsAssumption
<1>2. Cardinality(Calls) \in Nat /\ Cardinality(Calls) # 0
    BY <1>1, FS_CardinalityType, FS_EmptySet
<1> QED
    BY <1>1, <1>2

\* The calls at a step are finite and no more than all.
LEMMA WritingBounded ==
    ASSUME NEW S, S \subseteq Calls
    PROVE  IsFiniteSet(S) /\ Cardinality(S) \in Nat /\ Cardinality(S) <= Cardinality(Calls)
BY CallsFinite, FS_Subset, FS_CardinalityType

\* A step of the service, a new call or an answer moves one call only.
LEMMA OneMoves ==
    ASSUME Next, pc \in [Calls -> Steps]
    PROVE  /\ pc' \in [Calls -> Steps]
           /\ \E c \in Calls : pc' = [pc EXCEPT ![c] = pc'[c]]
<1> PICK c \in Calls :
        \/ \E u \in Users : CallOwn(c, u) \/ CallRest(c, u)
        \/ \E by, target \in Users : CallModeration(c, by, target)
        \/ Serves(c)
        \/ Answers(c)
    BY DEF Next
<1>1. ASSUME NEW u \in Users, CallOwn(c, u) \/ CallRest(c, u)
      PROVE  pc' = [pc EXCEPT ![c] = "join"] \/ pc' = [pc EXCEPT ![c] = "remove"]
    BY <1>1 DEF CallOwn, CallRest, Enters
<1>2. ASSUME NEW by \in Users, NEW target \in Users, CallModeration(c, by, target)
      PROVE  \E method \in Moderation : pc' = [pc EXCEPT ![c] = method]
    BY <1>2 DEF CallModeration, Enters
<1>3. ASSUME Serves(c)
      PROVE  \E step \in Steps : pc' = [pc EXCEPT ![c] = step]
    <2>1. CASE JoinReadsRoom(c) \/ JoinReadsBans(c) \/ JoinReadsRow(c) \/ JoinCounts(c) \/ JoinWrites(c)
        BY <2>1 DEF JoinReadsRoom, JoinReadsBans, JoinReadsRow, JoinCounts, JoinWrites,
                    Returns, Throws, Goes, Keeps, Steps
    <2>2. CASE RemoveReadsRoom(c) \/ RemoveReadsRow(c) \/ RemoveWrites(c) \/ RemoveReadsRemaining(c)
        BY <2>2 DEF RemoveReadsRoom, RemoveReadsRow, RemoveWrites, RemoveReadsRemaining,
                    Returns, Goes, Keeps, Steps
    <2>3. CASE Close(c) \/ HandOn(c) \/ TransferReadsRow(c) \/ TransferWrites(c)
        BY <2>3 DEF Close, HandOn, TransferReadsRow, TransferWrites, Returns, Throws, Goes, Steps
    <2>4. CASE Kick(c) \/ Ban(c) \/ BanWrites(c) \/ Transfer(c)
        BY <2>4 DEF Kick, Ban, BanWrites, Transfer, AssertHost, Returns, Throws, Goes, Steps
    <2> QED
        BY <1>3, <2>1, <2>2, <2>3, <2>4 DEF Serves, ServiceStep
<1>4. ASSUME Answers(c)
      PROVE  pc' = [pc EXCEPT ![c] = "free"]
    BY <1>4 DEF Answers
<1>5. \E step \in Steps : pc' = [pc EXCEPT ![c] = step]
    BY <1>1, <1>2, <1>3, <1>4 DEF Steps, Moderation
<1> QED
    BY <1>5

-----------------------------------------------------------------------------
\* What the call that moves does to the members and to the door.
CountsIn(c) ==
    /\ pc' = [pc EXCEPT ![c] = "join write"]
    /\ Cardinality(members) < MaxPlayers
    /\ members' = members

WritesIn(c) ==
    /\ pc[c] = "join write"
    /\ pc' = [pc EXCEPT ![c] = "done"]
    /\ members' \in {members, members \cup {User(c)}}

StaysOut(c) ==
    /\ pc' = [pc EXCEPT ![c] = pc'[c]]
    /\ pc'[c] # "join write"
    /\ members' \subseteq members

LEMMA MembersStep ==
    ASSUME Next, Shape
    PROVE  \E c \in Calls : CountsIn(c) \/ WritesIn(c) \/ StaysOut(c)
<1> USE DEF Shape
<1> PICK c \in Calls :
        \/ \E u \in Users : CallOwn(c, u) \/ CallRest(c, u)
        \/ \E by, target \in Users : CallModeration(c, by, target)
        \/ Serves(c)
        \/ Answers(c)
    BY DEF Next
<1>1. ASSUME NEW u \in Users, CallOwn(c, u) \/ CallRest(c, u)
      PROVE  StaysOut(c)
    BY <1>1 DEF CallOwn, CallRest, Enters, rows, StaysOut
<1>2. ASSUME NEW by \in Users, NEW target \in Users, CallModeration(c, by, target)
      PROVE  StaysOut(c)
    BY <1>2 DEF CallModeration, Enters, rows, StaysOut, Moderation
<1>3. ASSUME Serves(c)
      PROVE  CountsIn(c) \/ WritesIn(c) \/ StaysOut(c)
    <2>1. CASE JoinReadsRoom(c) \/ JoinReadsBans(c) \/ JoinReadsRow(c)
        BY <2>1 DEF JoinReadsRoom, JoinReadsBans, JoinReadsRow, Returns, Throws, Goes, Keeps,
                    rows, StaysOut
    <2>2. CASE JoinCounts(c)
        <3>1. Cardinality(members) \in Nat /\ MaxPlayers \in Nat
            BY FS_CardinalityType, CapacityAssumption
        <3>2. CASE Cardinality(members) >= MaxPlayers
            BY <2>2, <3>2 DEF JoinCounts, Throws, Returns, rows, StaysOut
        <3>3. CASE ~(Cardinality(members) >= MaxPlayers)
            <4>1. Cardinality(members) < MaxPlayers
                BY <3>1, <3>3
            <4>2. Goes(c, "join write") /\ UNCHANGED rows
                BY <2>2, <3>3, Zenon DEF JoinCounts
            <4> QED
                BY <4>1, <4>2 DEF Goes, rows, CountsIn
        <3> QED
            BY <3>2, <3>3
    <2>3. CASE JoinWrites(c)
        <3>1. members' = members \/ members' = members \cup {User(c)}
            BY <2>3, Zenon DEF JoinWrites
        <3>2. pc[c] = "join write" /\ pc' = [pc EXCEPT ![c] = "done"]
            BY <2>3 DEF JoinWrites, Returns
        <3> QED
            BY <3>1, <3>2 DEF WritesIn
    <2>4. CASE RemoveReadsRoom(c) \/ RemoveReadsRow(c) \/ RemoveWrites(c) \/ RemoveReadsRemaining(c)
        BY <2>4 DEF RemoveReadsRoom, RemoveReadsRow, RemoveWrites, RemoveReadsRemaining,
                    Returns, Goes, Keeps, rows, StaysOut
    <2>5. CASE Close(c) \/ HandOn(c) \/ TransferReadsRow(c) \/ TransferWrites(c)
        BY <2>5 DEF Close, HandOn, TransferReadsRow, TransferWrites, Returns, Throws, Goes,
                    rows, StaysOut
    <2>6. CASE Kick(c) \/ Ban(c) \/ BanWrites(c) \/ Transfer(c)
        BY <2>6 DEF Kick, Ban, BanWrites, Transfer, AssertHost, Returns, Throws, Goes, rows, StaysOut
    <2> QED
        BY <1>3, <2>1, <2>2, <2>3, <2>4, <2>5, <2>6 DEF Serves, ServiceStep
<1>4. ASSUME Answers(c)
      PROVE  StaysOut(c)
    BY <1>4 DEF Answers, rows, StaysOut
<1> QED
    BY <1>1, <1>2, <1>3, <1>4

LEMMA OverbookingInit == Init => Overbooking
<1> SUFFICES ASSUME Init PROVE Overbooking
    OBVIOUS
<1>1. pc \in [Calls -> Steps] /\ Writing = {} /\ members = {host}
    BY DEF Init, ServiceInit, Steps, Writing
<1>2. IsFiniteSet(members) /\ Cardinality(members) = 1
    BY <1>1, FS_Singleton
<1>3. Cardinality(Writing) = 0
    BY <1>1, FS_EmptySet
<1> QED
    BY <1>1, <1>2, <1>3, CallsFinite, CapacityAssumption DEF Overbooking, Shape

LEMMA OverbookingStep == Overbooking /\ [Next]_vars => Overbooking'
<1> SUFFICES ASSUME Overbooking, [Next]_vars PROVE Overbooking'
    OBVIOUS
<1>1. CASE UNCHANGED vars
    BY <1>1 DEF vars, serviceVars, rows, Overbooking, Shape, Writing
<1>2. CASE Next
    <2>1. Shape
        BY DEF Overbooking
    <2>2. pc' \in [Calls -> Steps]
        BY <1>2, <2>1, OneMoves DEF Shape
    <2>3. PICK c \in Calls : CountsIn(c) \/ WritesIn(c) \/ StaysOut(c)
        BY <1>2, <2>1, MembersStep
    <2>4. /\ IsFiniteSet(members) /\ Cardinality(members) \in Nat /\ MaxPlayers \in Nat
          /\ IsFiniteSet(Writing) /\ Cardinality(Writing) \in Nat
          /\ Cardinality(Writing') \in Nat /\ Cardinality(Writing') <= Cardinality(Calls)
          /\ Cardinality(Calls) \in Nat
        <3>1. Writing \subseteq Calls /\ Writing' \subseteq Calls
            BY DEF Writing
        <3> QED
            BY <2>1, <3>1, WritingBounded, CallsFinite, FS_CardinalityType, CapacityAssumption DEF Shape
    <2>5. CASE CountsIn(c)
        <3>1. members' = members /\ Cardinality(members) < MaxPlayers
            BY <2>5 DEF CountsIn
        <3> QED
            BY <2>2, <2>4, <3>1 DEF Overbooking, Shape
    <2>6. CASE WritesIn(c)
        <3>1. c \in Writing /\ Writing' = Writing \ {c}
            BY <2>1, <2>6 DEF WritesIn, Writing, Shape
        <3>2. Cardinality(Writing') = Cardinality(Writing) - 1
            BY <2>4, <3>1, FS_RemoveElement
        <3>3. /\ IsFiniteSet(members') /\ Cardinality(members') \in Nat
              /\ Cardinality(members') <= Cardinality(members) + 1
            <4>1. CASE members' = members
                BY <2>4, <4>1
            <4>2. CASE members' = members \cup {User(c)}
                <5>1. /\ IsFiniteSet(members \cup {User(c)})
                      /\ \/ Cardinality(members \cup {User(c)}) = Cardinality(members)
                         \/ Cardinality(members \cup {User(c)}) = Cardinality(members) + 1
                    BY <2>4, FS_AddElement
                <5> QED
                    BY <2>4, <4>2, <5>1
            <4> QED
                BY <2>6, <4>1, <4>2 DEF WritesIn
        <3> QED
            BY <2>2, <2>4, <3>2, <3>3 DEF Overbooking, Shape
    <2>7. CASE StaysOut(c)
        <3>1. Writing' \subseteq Writing
            BY <2>1, <2>7 DEF StaysOut, Writing, Shape
        <3>2. Cardinality(Writing') <= Cardinality(Writing)
            BY <2>4, <3>1, FS_Subset
        <3>3. /\ IsFiniteSet(members') /\ Cardinality(members') \in Nat
              /\ Cardinality(members') <= Cardinality(members)
            BY <2>4, <2>7, FS_Subset, FS_CardinalityType DEF StaysOut
        <3> QED
            BY <2>2, <2>4, <3>2, <3>3 DEF Overbooking, Shape
    <2> QED
        BY <2>3, <2>5, <2>6, <2>7
<1> QED
    BY <1>1, <1>2

\* However many REST joins overlap, a room is overbooked by at most one less
\* than the calls in flight (join counts the members, then writes).
THEOREM OverbookingBoundedCorrect == Spec => []OverbookingBounded
<1>1. Overbooking => OverbookingBounded
    BY DEF Overbooking, OverbookingBounded, Writing
<1> QED
    BY <1>1, OverbookingInit, OverbookingStep, PTL DEF Spec

-----------------------------------------------------------------------------
LEMMA EmptiedInit == Init => Emptied
BY DEF Init, ServiceInit, Emptied, Steps

LEMMA EmptiedStep == Emptied /\ [Next]_vars => Emptied'
<1> SUFFICES ASSUME Emptied, [Next]_vars PROVE Emptied'
    OBVIOUS
<1> USE DEF Emptied
<1>1. CASE UNCHANGED vars
    BY <1>1 DEF vars, serviceVars, rows
<1>2. CASE Next
    <2>1. pc' \in [Calls -> Steps]
        BY <1>2, OneMoves
    <2> PICK c \in Calls :
            \/ \E u \in Users : CallOwn(c, u) \/ CallRest(c, u)
            \/ \E by, target \in Users : CallModeration(c, by, target)
            \/ Serves(c)
            \/ Answers(c)
        BY <1>2 DEF Next
    <2>2. ASSUME NEW u \in Users, CallOwn(c, u) \/ CallRest(c, u)
          PROVE  Emptied'
        BY <2>1, <2>2 DEF CallOwn, CallRest, Enters, rows
    <2>3. ASSUME NEW by \in Users, NEW target \in Users, CallModeration(c, by, target)
          PROVE  Emptied'
        BY <2>1, <2>3 DEF CallModeration, Enters, rows
    <2>4. ASSUME Serves(c) PROVE Emptied'
        <3>1. CASE JoinReadsRoom(c) \/ JoinReadsBans(c) \/ JoinReadsRow(c) \/ JoinCounts(c)
            BY <2>1, <3>1 DEF JoinReadsRoom, JoinReadsBans, JoinReadsRow, JoinCounts, Returns,
                              Throws, Goes, Keeps, rows
        <3>2. CASE JoinWrites(c)
            BY <2>1, <3>2 DEF JoinWrites, Returns
        <3>3. CASE RemoveReadsRoom(c) \/ RemoveReadsRow(c) \/ RemoveWrites(c)
            BY <2>1, <3>3 DEF RemoveReadsRoom, RemoveReadsRow, RemoveWrites, Returns, Goes, Keeps, rows
        <3>4. CASE RemoveReadsRemaining(c)
            BY <2>1, <3>4 DEF RemoveReadsRemaining, Returns, Goes, Keeps, rows
        <3>5. CASE Close(c)
            BY <2>1, <3>5 DEF Close
        <3>6. CASE HandOn(c) \/ TransferReadsRow(c) \/ TransferWrites(c)
            BY <2>1, <3>6 DEF HandOn, TransferReadsRow, TransferWrites, Returns, Throws, Goes, rows
        <3>7. CASE Kick(c) \/ Ban(c) \/ BanWrites(c) \/ Transfer(c)
            BY <2>1, <3>7 DEF Kick, Ban, BanWrites, Transfer, AssertHost, Returns, Throws, Goes, rows
        <3> QED
            BY <2>4, <3>1, <3>2, <3>3, <3>4, <3>5, <3>6, <3>7 DEF Serves, ServiceStep
    <2>5. ASSUME Answers(c) PROVE Emptied'
        BY <2>1, <2>5 DEF Answers, rows
    <2> QED
        BY <2>2, <2>3, <2>4, <2>5
<1> QED
    BY <1>1, <1>2

\* However removals overlap each other and joins, no empty room stays open: who
\* leaves last reads that nobody remained (removeActiveMember).
THEOREM EmptyRoomsCloseCorrect == Spec => []EmptyRoomsClose
<1>1. Emptied => EmptyRoomsClose
    BY DEF Emptied, EmptyRoomsClose, Quiet, Serving
<1> QED
    BY <1>1, EmptiedInit, EmptiedStep, PTL DEF Spec

-----------------------------------------------------------------------------
\* A call that is at work knows whom it is about; a row it has read is still
\* there, and whoever remained when it looked has one.
Working ==
    \A c \in Calls : pc[c] \notin {"free", "done"} =>
        /\ op[c] \in Operations
        /\ op[c].known => op[c].user \in Range(joined)
        /\ pc[c] = "hand on" => op[c].remaining # {} /\ op[c].remaining \subseteq Range(joined)

Typed == TypeOK /\ Working

LEMMA Least ==
    ASSUME NEW T, T \subseteq Nat, T # {}
    PROVE  \E x \in T : \A y \in T : x <= y
<1>1. PICK x \in T : \A y \in T : ~(<<y, x>> \in OpToRel(<, Nat))
    BY NatLessThanWellFounded, WFMin, Zenon
<1>2. \A y \in T : ~(y < x)
    BY <1>1, Zenon DEF OpToRel
<1> QED
    BY <1>2

\* The host is handed on to one of those who remained.
LEMMA EarliestIsThere ==
    ASSUME joined \in Seq(Users), NEW S, S \subseteq Range(joined), S # {}
    PROVE  Earliest(S) \in S
<1> DEFINE T == {i \in DOMAIN joined : joined[i] \in S}
<1>1. T \subseteq Nat /\ T # {}
    BY DEF Range
<1>2. \E x \in T : \A y \in T : x =< y
    BY <1>1, Least
<1>3. Min(T) \in T
    BY <1>2, Zenon DEF Min
<1> QED
    BY <1>3 DEF Earliest

\* A row is written for whoever has none.
LEMMA NewRow ==
    ASSUME joined \in Seq(Users), IsInjective(joined), NEW u \in Users, u \notin Range(joined)
    PROVE  /\ Append(joined, u) \in Seq(Users) /\ IsInjective(Append(joined, u))
           /\ Range(Append(joined, u)) = Range(joined) \cup {u}
<1> DEFINE n == Len(joined)
           longer == Append(joined, u)
<1>1. /\ longer \in Seq(Users) /\ n \in Nat /\ DOMAIN joined = 1..n /\ DOMAIN longer = 1..(n + 1)
      /\ longer[n + 1] = u /\ \A i \in 1..n : longer[i] = joined[i]
    OBVIOUS
<1>2. \A i \in 1..n : joined[i] # u
    BY <1>1 DEF Range
<1>3. ASSUME NEW i \in 1..(n + 1), NEW j \in 1..(n + 1), longer[i] = longer[j]
      PROVE  i = j
    <2>1. CASE i \in 1..n /\ j \in 1..n
        BY <1>1, <1>3, <2>1 DEF IsInjective
    <2>2. CASE i = n + 1 \/ j = n + 1
        BY <1>1, <1>2, <1>3, <2>2
    <2> QED
        BY <1>1, <2>1, <2>2
<1>4. Range(longer) = Range(joined) \cup {u}
    <2>1. \A i \in 1..(n + 1) : longer[i] \in Range(joined) \cup {u}
        BY <1>1 DEF Range
    <2>2. \A i \in 1..n : joined[i] \in Range(longer)
        BY <1>1 DEF Range
    <2>3. u \in Range(longer)
        BY <1>1 DEF Range
    <2> QED
        BY <1>1, <2>1, <2>2, <2>3 DEF Range
<1> QED
    BY <1>1, <1>3, <1>4 DEF IsInjective

\* The rows keep their types, and nobody's row is lost.
RowsTyped ==
    /\ host \in Users /\ closed \in BOOLEAN /\ bans \subseteq Users
    /\ joined \in Seq(Users) /\ IsInjective(joined)
    /\ members \subseteq Range(joined)

\* One call moves on with what it works with; the others stay.
LEMMA TypedMove ==
    ASSUME Typed, RowsTyped', Range(joined) \subseteq Range(joined'),
           lock' \in Calls \cup {NoCall}, raced' \in BOOLEAN,
           NEW c \in Calls, NEW to \in Steps, pc' = [pc EXCEPT ![c] = to],
           NEW o \in {NoOp} \cup Operations, op' = [op EXCEPT ![c] = o],
           to \notin {"free", "done"} =>
              o \in Operations /\ (o.known => o.user \in Range(joined)),
           to = "hand on" => o.remaining # {} /\ o.remaining \subseteq Range(joined)
    PROVE  Typed'
BY DEF Typed, TypeOK, Working, RowsTyped

LEMMA IsTrueOrFalse == \A x, S : (x \in S) \in BOOLEAN
OBVIOUS

LEMMA KnownKept ==
    ASSUME NEW o \in Operations, NEW b \in BOOLEAN
    PROVE  /\ [o EXCEPT !["known"] = b] \in Operations
           /\ [o EXCEPT !["known"] = b].known <=> b
           /\ [o EXCEPT !["known"] = b].user = o.user
BY Zenon DEF Operations

LEMMA HostKept ==
    ASSUME NEW o \in Operations, NEW b \in BOOLEAN
    PROVE  /\ [o EXCEPT !["wasHost"] = b] \in Operations
           /\ [o EXCEPT !["wasHost"] = b].wasHost <=> b
           /\ [o EXCEPT !["wasHost"] = b].known <=> o.known
           /\ [o EXCEPT !["wasHost"] = b].user = o.user
BY Zenon DEF Operations

LEMMA RemainingKept ==
    ASSUME NEW o \in Operations, NEW left \in SUBSET Users
    PROVE  /\ [o EXCEPT !["remaining"] = left] \in Operations
           /\ [o EXCEPT !["remaining"] = left].remaining = left
           /\ [o EXCEPT !["remaining"] = left].known <=> o.known
           /\ [o EXCEPT !["remaining"] = left].user = o.user
BY Zenon DEF Operations

LEMMA UsersHaveRows ==
    ASSUME joined \in Seq(Users)
    PROVE  Range(joined) \subseteq Users
BY ElementOfSeq DEF Range

LEMMA KeepsMove ==
    ASSUME Typed, NEW c \in Calls, NEW to, NEW field, NEW value, Keeps(c, to, field, value)
    PROVE  op' = [op EXCEPT ![c] = [op[c] EXCEPT ![field] = value]]
BY DEF Typed, TypeOK, Keeps

LEMMA TypedStep == Typed /\ [Next]_vars => Typed'
<1> SUFFICES ASSUME Typed, [Next]_vars PROVE Typed'
    OBVIOUS
<1>1. ASSUME NEW c \in Calls, NEW u \in Users, NEW by \in Users, NEW method \in Steps,
             Enters(c, method, by, u), lock' \in Calls \cup {NoCall}, method # "hand on"
      PROVE  Typed'
    <2> DEFINE o == [by |-> by, user |-> u, known |-> FALSE, wasHost |-> FALSE, remaining |-> {}]
    <2>1. o \in Operations
        BY DEF Operations
    <2>4. ~o.known
        OBVIOUS
    <2>2. RowsTyped' /\ joined' = joined
        BY <1>1 DEF Enters, rows, Typed, TypeOK, RowsTyped
    <2>3. raced' \in BOOLEAN /\ pc' = [pc EXCEPT ![c] = method] /\ op' = [op EXCEPT ![c] = o]
        BY <1>1 DEF Enters, Typed, TypeOK
    <2> HIDE DEF o
    <2> QED
        BY <1>1, <2>1, <2>2, <2>3, <2>4, TypedMove
<1>2. ASSUME NEW c \in Calls, NEW u \in Users, CallOwn(c, u) \/ CallRest(c, u)
      PROVE  Typed'
    <2>1. \E method \in {"join", "remove"} : Enters(c, method, u, u)
        BY <1>2 DEF CallOwn, CallRest
    <2>2. lock' \in Calls \cup {NoCall}
        BY <1>2 DEF CallOwn, CallRest, Locks, Typed, TypeOK
    <2> QED
        BY <1>1, <2>1, <2>2 DEF Steps
<1>3. ASSUME NEW c \in Calls, NEW by \in Users, NEW target \in Users, CallModeration(c, by, target)
      PROVE  Typed'
    <2>1. \E method \in Moderation : Enters(c, method, by, target)
        BY <1>3 DEF CallModeration
    <2>2. lock' \in Calls \cup {NoCall}
        BY <1>3 DEF CallModeration, Locks
    <2> QED
        BY <1>1, <2>1, <2>2 DEF Steps, Moderation
<1>4. ASSUME NEW c \in Calls, Serves(c)
      PROVE  Typed'
    <2> USE DEF Typed, TypeOK, Working
    <2>1. lock' \in Calls \cup {NoCall} /\ raced' \in BOOLEAN
        BY <1>4 DEF Serves
    <2>2. CASE JoinReadsRoom(c) \/ JoinReadsBans(c) \/ JoinCounts(c) \/ RemoveReadsRow(c) \/ RemoveWrites(c)
        BY <2>1, <2>2 DEF JoinReadsRoom, JoinReadsBans, JoinCounts, RemoveReadsRow, RemoveWrites,
                          Returns, Throws, Goes, rows, Steps
    <2>3. CASE JoinReadsRow(c)
        <3>1. CASE User(c) \in members
            BY <2>1, <2>3, <3>1 DEF JoinReadsRow, Returns, rows, Steps
        <3>2. CASE User(c) \notin members
            <4> DEFINE b == User(c) \in Range(joined)
                       o == [op[c] EXCEPT !["known"] = b]
            <4>1. /\ Keeps(c, "join count", "known", b)
                  /\ op[c] \in Operations /\ RowsTyped' /\ joined' = joined
                BY <2>3, <3>2 DEF JoinReadsRow, RowsTyped, rows
            <4>2. b \in BOOLEAN
                BY IsTrueOrFalse
            <4>3. op' = [op EXCEPT ![c] = o] /\ pc' = [pc EXCEPT ![c] = "join count"]
                BY <4>1, KeepsMove DEF Keeps
            <4>4. b => User(c) \in Range(joined)
                OBVIOUS
            <4> HIDE DEF b
            <4>5. o \in Operations /\ (o.known => o.user \in Range(joined))
                BY <4>1, <4>2, <4>4, KnownKept, Zenon DEF User
            <4> HIDE DEF o
            <4> QED
                BY <2>1, <4>1, <4>3, <4>5, TypedMove DEF Steps
        <3> QED
            BY <3>1, <3>2
    <2>4. CASE JoinWrites(c)
        <3>1. /\ User(c) \in Users /\ UNCHANGED <<host, closed, bans>>
              /\ pc' = [pc EXCEPT ![c] = "done"] /\ op' = [op EXCEPT ![c] = NoOp]
              /\ op[c].known => User(c) \in Range(joined)
            BY <2>4 DEF JoinWrites, Returns, User, Operations
        <3>2. \/ members' = members \cup {User(c)} /\ joined' = joined /\ User(c) \in Range(joined)
              \/ members' = members /\ joined' = joined
              \/ /\ members' = members \cup {User(c)} /\ joined' = Append(joined, User(c))
                 /\ User(c) \notin Range(joined)
            BY <2>4, <3>1, Zenon DEF JoinWrites
        <3>3. RowsTyped' /\ Range(joined) \subseteq Range(joined')
            BY <3>1, <3>2, NewRow DEF RowsTyped
        <3> QED
            BY <2>1, <3>1, <3>3, TypedMove DEF Steps
    <2>5. CASE RemoveReadsRoom(c)
        <3> DEFINE b == host = User(c)
                   o == [op[c] EXCEPT !["wasHost"] = b]
        <3>1. /\ Keeps(c, "remove row", "wasHost", b)
              /\ op[c] \in Operations /\ RowsTyped' /\ joined' = joined
            BY <2>5 DEF RemoveReadsRoom, RowsTyped, rows
        <3>2. b \in BOOLEAN
            OBVIOUS
        <3>3. op' = [op EXCEPT ![c] = o] /\ pc' = [pc EXCEPT ![c] = "remove row"]
            BY <3>1, KeepsMove DEF Keeps
        <3>4. op[c].known => op[c].user \in Range(joined)
            BY <2>5 DEF RemoveReadsRoom
        <3> HIDE DEF b
        <3>5. o \in Operations /\ (o.known => o.user \in Range(joined))
            BY <3>1, <3>2, <3>4, HostKept, Zenon
        <3> HIDE DEF o
        <3> QED
            BY <2>1, <3>1, <3>3, <3>5, TypedMove DEF Steps
    <2>6. CASE RemoveReadsRemaining(c)
        <3>1. CASE members = {} \/ ~op[c].wasHost
            BY <2>1, <2>6, <3>1 DEF RemoveReadsRemaining, Goes, Returns, rows, Steps
        <3>2. CASE members # {} /\ op[c].wasHost
            <4> DEFINE o == [op[c] EXCEPT !["remaining"] = members]
            <4>1. /\ Keeps(c, "hand on", "remaining", members)
                  /\ op[c] \in Operations /\ RowsTyped' /\ joined' = joined
                  /\ op[c].known => op[c].user \in Range(joined)
                BY <2>6, <3>2 DEF RemoveReadsRemaining, RowsTyped, rows
            <4>2. op' = [op EXCEPT ![c] = o] /\ pc' = [pc EXCEPT ![c] = "hand on"]
                BY <4>1, KeepsMove DEF Keeps
            <4>3. members \in SUBSET Users
                BY UsersHaveRows
            <4>4. /\ o \in Operations /\ (o.known => o.user \in Range(joined))
                  /\ o.remaining = members
                BY <4>1, <4>3, RemainingKept, Zenon
            <4> HIDE DEF o
            <4> QED
                BY <2>1, <3>2, <4>1, <4>2, <4>4, TypedMove DEF Steps
        <3> QED
            BY <3>1, <3>2
    <2>7. CASE Close(c) \/ TransferReadsRow(c) \/ TransferWrites(c)
        <3>1. op[c] \in Operations
            BY <2>7 DEF Close, TransferReadsRow, TransferWrites
        <3>2. User(c) \in Users
            BY <3>1 DEF User, Operations
        <3> QED
            BY <2>1, <2>7, <3>2 DEF Close, TransferReadsRow, TransferWrites, Returns, Throws,
                                    Goes, rows, Steps
    <2>8. CASE HandOn(c)
        <3>1. /\ op[c].remaining \subseteq Range(joined) /\ op[c].remaining # {}
              /\ Range(joined) \subseteq Users
            BY <2>8, UsersHaveRows DEF HandOn
        <3>2. Earliest(op[c].remaining) \in Users
            BY <3>1, EarliestIsThere
        <3>3. host' \in Users
            BY <2>8, <3>2 DEF HandOn
        <3> QED
            BY <2>1, <2>8, <3>3 DEF HandOn, Returns, Steps
    <2>9. CASE Kick(c) \/ Ban(c) \/ Transfer(c)
        BY <2>1, <2>9, ZenonT(60) DEF Kick, Ban, Transfer, AssertHost, Returns, Throws, Goes, rows, Steps
    <2>10. CASE BanWrites(c)
        <3>1. User(c) \in Users
            BY <2>10 DEF BanWrites, User, Operations
        <3> QED
            BY <2>1, <2>10, <3>1 DEF BanWrites, Goes, Steps
    <2> QED
        BY <1>4, <2>2, <2>3, <2>4, <2>5, <2>6, <2>7, <2>8, <2>9, <2>10 DEF Serves, ServiceStep
<1>5. ASSUME NEW c \in Calls, Answers(c)
      PROVE  Typed'
    BY <1>5 DEF Answers, rows, Typed, TypeOK, Working, Steps
<1>6. CASE UNCHANGED vars
    BY <1>6 DEF vars, serviceVars, rows, Typed, TypeOK, Working
<1> QED
    BY <1>2, <1>3, <1>4, <1>5, <1>6 DEF Next

LEMMA TypedInvariant == Spec => []Typed
<1>1. Init => Typed
    <2> SUFFICES ASSUME Init PROVE Typed
        OBVIOUS
    <2>1. joined \in Seq(Users) /\ IsInjective(joined) /\ Range(joined) = {host}
        BY DEF Init, ServiceInit, IsInjective, Range
    <2> QED
        BY <2>1 DEF Init, ServiceInit, Typed, TypeOK, Working, Steps
<1> QED
    BY <1>1, TypedStep, PTL DEF Spec

\* Every variable has its type; however joins overlap nobody has two rows, and
\* every member has one (the unique constraint and join's upsert).
THEOREM TypeCorrect == Spec => []TypeOK
<1>1. Typed => TypeOK
    BY DEF Typed
<1> QED
    BY <1>1, TypedInvariant, PTL

-----------------------------------------------------------------------------
\* Until a REST call overlaps another, one call at a time is served.  What it
\* has read is still so when it writes, step by step.
HostPresent == IF closed THEN members = {} ELSE host \in members
Agreed == HostPresent /\ bans \cap members = {}

RemoveSteps == {"remove", "remove row", "remove write"}
JoinReads == {"join bans", "join row", "join count", "join write"}

JoinRight(c) ==
    /\ pc[c] \in JoinReads => ~closed
    /\ pc[c] \in JoinReads \ {"join bans"} => User(c) \notin bans
    /\ pc[c] = "join write" => Cardinality(members) < MaxPlayers
RemoveRight(c) ==
    /\ pc[c] \in RemoveSteps => HostPresent /\ bans \cap members \subseteq {User(c)}
    /\ pc[c] \in {"remove row", "remove write", "remaining"} => (op[c].wasHost <=> host = User(c))
    /\ pc[c] \in {"remove write", "transfer write"} => User(c) \in members
    /\ pc[c] \in {"remaining", "hand on"} =>
          ~closed /\ User(c) \notin members /\ bans \cap members = {}
    /\ pc[c] = "remaining" => host = User(c) \/ host \in members
    /\ pc[c] = "close" => members = {}
    /\ pc[c] = "hand on" => op[c].remaining = members
Progress(c) ==
    /\ pc[c] \notin RemoveSteps \cup {"remaining", "close", "hand on"} => Agreed
    /\ JoinRight(c)
    /\ RemoveRight(c)

NotFull == IsFiniteSet(members) /\ Cardinality(members) <= MaxPlayers

Undisturbed ==
    ~raced =>
        /\ \A c, d \in Serving : c = d
        /\ NotFull
        /\ Quiet => Agreed
        /\ \A c \in Serving : Progress(c)

\* A step of the call that is served alone keeps what it relies on.
LEMMA ProgressStep ==
    ASSUME Typed, NEW c \in Calls, Progress(c), NotFull, ServiceStep(c)
    PROVE  Progress(c)' /\ NotFull'
<1>1. /\ pc \in [Calls -> Steps] /\ op \in [Calls -> {NoOp} \cup Operations]
      /\ joined \in Seq(Users) /\ members \subseteq Range(joined)
      /\ pc[c] \notin {"free", "done"} => op[c] \in Operations
    BY DEF Typed, TypeOK, Working
<1>2. IsFiniteSet(members) /\ Cardinality(members) \in Nat /\ Cardinality(members) <= MaxPlayers
    BY FS_CardinalityType DEF NotFull
<1>3. members' = members => NotFull'
    BY DEF NotFull
<1>4. CASE JoinReadsRow(c)
    <2>1. CASE User(c) \in members
        BY <1>1, <1>3, <1>4, <2>1 DEF JoinReadsRow, Returns, Progress, JoinRight, RemoveRight,
          Agreed, HostPresent, RemoveSteps, JoinReads, User, rows
    <2>2. CASE User(c) \notin members
        <3> DEFINE b == User(c) \in Range(joined)
        <3>1. /\ Keeps(c, "join count", "known", b) /\ UNCHANGED rows /\ pc[c] = "join row"
            BY <1>4, <2>2 DEF JoinReadsRow
        <3>2. b \in BOOLEAN /\ op[c] \in Operations
            BY <1>1, <3>1, IsTrueOrFalse
        <3> HIDE DEF b
        <3>3. /\ op' = [op EXCEPT ![c] = [op[c] EXCEPT !["known"] = b]]
              /\ pc' = [pc EXCEPT ![c] = "join count"]
            BY <3>1, KeepsMove DEF Keeps
        <3>4. op'[c].user = op[c].user
            BY <1>1, <3>2, <3>3, KnownKept
        <3>5. /\ UNCHANGED <<host, closed, members, bans>> /\ pc[c] = "join row"
              /\ pc'[c] = "join count"
            BY <1>1, <3>1, <3>3 DEF rows
        <3> QED
            BY <1>3, <3>4, <3>5 DEF Progress, JoinRight, RemoveRight,
          Agreed, HostPresent, RemoveSteps, JoinReads, User
    <2> QED
        BY <2>1, <2>2
<1>5. CASE JoinCounts(c)
    <2>1. CASE Cardinality(members) >= MaxPlayers
        BY <1>1, <1>3, <1>5, <2>1 DEF JoinCounts, Throws, Returns, Progress, JoinRight, RemoveRight,
          Agreed, HostPresent, RemoveSteps, JoinReads, User, rows
    <2>2. CASE ~(Cardinality(members) >= MaxPlayers)
        <3>1. Cardinality(members) < MaxPlayers
            BY <1>2, <2>2, CapacityAssumption
        <3>2. pc[c] = "join count" /\ Goes(c, "join write") /\ UNCHANGED rows
            BY <1>5, <2>2, Zenon DEF JoinCounts
        <3> QED
            BY <1>1, <1>3, <3>1, <3>2 DEF Goes, Progress, JoinRight, RemoveRight,
          Agreed, HostPresent, RemoveSteps, JoinReads, User, rows
    <2> QED
        BY <2>1, <2>2
<1>6. CASE JoinWrites(c)
    <2>1. members' = members \/ members' = members \cup {User(c)}
        BY <1>6, Zenon DEF JoinWrites
    <2>2. /\ pc[c] = "join write" /\ pc' = [pc EXCEPT ![c] = "done"]
          /\ UNCHANGED <<host, closed, bans>>
        BY <1>6 DEF JoinWrites, Returns
    <2>3. Progress(c)'
        BY <1>1, <2>1, <2>2 DEF Progress, JoinRight, RemoveRight,
          Agreed, HostPresent, RemoveSteps, JoinReads, User, rows
    <2>4. Cardinality(members) < MaxPlayers
        BY <2>2 DEF Progress, JoinRight
    <2>5. /\ IsFiniteSet(members \cup {User(c)})
          /\ \/ Cardinality(members \cup {User(c)}) = Cardinality(members)
             \/ Cardinality(members \cup {User(c)}) = Cardinality(members) + 1
        BY <1>2, FS_AddElement
    <2>6. Cardinality(members \cup {User(c)}) <= MaxPlayers
        BY <1>2, <2>4, <2>5, CapacityAssumption
    <2> QED
        BY <1>3, <2>1, <2>3, <2>5, <2>6 DEF NotFull
<1>7. CASE RemoveReadsRoom(c)
    <2> DEFINE b == host = User(c)
    <2>1. Keeps(c, "remove row", "wasHost", b) /\ UNCHANGED rows /\ pc[c] = "remove"
        BY <1>7 DEF RemoveReadsRoom
    <2>2. b \in BOOLEAN /\ (b <=> host = User(c)) /\ op[c] \in Operations
        BY <1>1, <2>1
    <2> HIDE DEF b
    <2>3. /\ op' = [op EXCEPT ![c] = [op[c] EXCEPT !["wasHost"] = b]]
          /\ pc' = [pc EXCEPT ![c] = "remove row"]
        BY <2>1, KeepsMove DEF Keeps
    <2>4. op'[c].user = op[c].user /\ (op'[c].wasHost <=> b)
        BY <1>1, <2>2, <2>3, HostKept
    <2> QED
        BY <1>1, <1>3, <2>1, <2>2, <2>3, <2>4 DEF Progress, JoinRight, RemoveRight,
          Agreed, HostPresent, RemoveSteps, JoinReads, User, rows
<1>8. CASE RemoveWrites(c)
    <2>1. /\ members' = members \ {User(c)} /\ pc[c] = "remove write"
          /\ pc' = [pc EXCEPT ![c] = "remaining"]
          /\ UNCHANGED <<host, closed, bans, op>>
        BY <1>8 DEF RemoveWrites, Goes
    <2>2. Progress(c)'
        BY <1>1, <2>1 DEF Progress, JoinRight, RemoveRight,
          Agreed, HostPresent, RemoveSteps, JoinReads, User, rows
    <2>3. IsFiniteSet(members') /\ Cardinality(members') <= Cardinality(members)
          /\ Cardinality(members') \in Nat
        BY <1>2, <2>1, FS_Subset, FS_CardinalityType
    <2> QED
        BY <1>2, <2>2, <2>3, CapacityAssumption DEF NotFull
<1>9. CASE RemoveReadsRemaining(c)
    <2>1. CASE members = {}
        BY <1>1, <1>3, <1>9, <2>1 DEF RemoveReadsRemaining, Goes, Progress, JoinRight, RemoveRight,
          Agreed, HostPresent, RemoveSteps, JoinReads, User, rows
    <2>2. CASE members # {} /\ ~op[c].wasHost
        BY <1>1, <1>3, <1>9, <2>2 DEF RemoveReadsRemaining, Returns, Progress, JoinRight, RemoveRight,
          Agreed, HostPresent, RemoveSteps, JoinReads, User, rows
    <2>3. CASE members # {} /\ op[c].wasHost
        <3>1. Keeps(c, "hand on", "remaining", members) /\ UNCHANGED rows /\ pc[c] = "remaining"
            BY <1>9, <2>3 DEF RemoveReadsRemaining
        <3>2. members \in SUBSET Users /\ op[c] \in Operations
            BY <1>1, <3>1, UsersHaveRows
        <3>3. /\ op' = [op EXCEPT ![c] = [op[c] EXCEPT !["remaining"] = members]]
              /\ pc' = [pc EXCEPT ![c] = "hand on"]
            BY <3>1, KeepsMove DEF Keeps
        <3>4. op'[c].user = op[c].user /\ op'[c].remaining = members
            BY <1>1, <3>2, <3>3, RemainingKept
        <3>5. /\ UNCHANGED <<host, closed, members, bans>> /\ pc[c] = "remaining"
              /\ pc'[c] = "hand on"
            BY <1>1, <3>1, <3>3 DEF rows
        <3> QED
            BY <1>3, <3>4, <3>5 DEF Progress, JoinRight, RemoveRight,
          Agreed, HostPresent, RemoveSteps, JoinReads, User
    <2> QED
        BY <2>1, <2>2, <2>3
<1>10. CASE HandOn(c)
    <2>1. /\ op[c].remaining = members /\ members # {} /\ User(c) \notin members
          /\ ~closed /\ bans \cap members = {}
        BY <1>10 DEF HandOn, Typed, Working, Progress, RemoveRight
    <2>2. Earliest(members) \in members
        BY <1>1, <2>1, EarliestIsThere
    <2>3. /\ host' = Earliest(members) /\ UNCHANGED <<closed, members, bans>>
          /\ pc' = [pc EXCEPT ![c] = "done"]
        BY <1>10, <2>1, <2>2 DEF HandOn, Returns
    <2> QED
        BY <1>1, <1>3, <2>1, <2>2, <2>3 DEF Progress, JoinRight, RemoveRight,
          Agreed, HostPresent, RemoveSteps, JoinReads, User, rows
<1>11. CASE JoinReadsRoom(c)
    BY <1>1, <1>3, <1>11 DEF JoinReadsRoom, Throws, Returns, Goes, Progress, JoinRight, RemoveRight,
          Agreed, HostPresent, RemoveSteps, JoinReads, User, rows
<1>12. CASE JoinReadsBans(c)
    BY <1>1, <1>3, <1>12 DEF JoinReadsBans, Throws, Returns, Goes, Progress, JoinRight, RemoveRight,
          Agreed, HostPresent, RemoveSteps, JoinReads, User, rows
<1>13. CASE RemoveReadsRow(c)
    BY <1>1, <1>3, <1>13, ZenonT(60) DEF RemoveReadsRow, Returns, Goes, Progress, JoinRight, RemoveRight,
          Agreed, HostPresent, RemoveSteps, JoinReads, User, rows
<1>14. CASE Close(c)
    BY <1>1, <1>3, <1>14 DEF Close, Returns, Progress, JoinRight, RemoveRight,
          Agreed, HostPresent, RemoveSteps, JoinReads, User, rows
<1>15. CASE Kick(c)
    BY <1>1, <1>3, <1>15 DEF Kick, AssertHost, Throws, Returns, Goes, Progress, JoinRight, RemoveRight,
          Agreed, HostPresent, RemoveSteps, JoinReads, User, rows
<1>16. CASE Ban(c)
    BY <1>1, <1>3, <1>16 DEF Ban, AssertHost, Throws, Returns, Goes, Progress, JoinRight, RemoveRight,
          Agreed, HostPresent, RemoveSteps, JoinReads, User, rows
<1>17. CASE Transfer(c)
    BY <1>1, <1>3, <1>17 DEF Transfer, AssertHost, Throws, Returns, Goes, Progress, JoinRight, RemoveRight,
          Agreed, HostPresent, RemoveSteps, JoinReads, User, rows
<1>18. CASE BanWrites(c)
    BY <1>1, <1>3, <1>18 DEF BanWrites, Goes, Progress, JoinRight, RemoveRight,
          Agreed, HostPresent, RemoveSteps, JoinReads, User, rows
<1>19. CASE TransferReadsRow(c)
    BY <1>1, <1>3, <1>19 DEF TransferReadsRow, Throws, Returns, Goes, Progress, JoinRight, RemoveRight,
          Agreed, HostPresent, RemoveSteps, JoinReads, User, rows
<1>20. CASE TransferWrites(c)
    BY <1>1, <1>3, <1>20 DEF TransferWrites, Returns, Progress, JoinRight, RemoveRight,
          Agreed, HostPresent, RemoveSteps, JoinReads, User, rows
<1> QED
    BY <1>4, <1>5, <1>6, <1>7, <1>8, <1>9, <1>10, <1>11, <1>12, <1>13, <1>14, <1>15, <1>18,
       <1>19, <1>20, <1>16, <1>17 DEF ServiceStep

LEMMA UndisturbedStep == Typed /\ Undisturbed /\ [Next]_vars => Undisturbed'
<1> SUFFICES ASSUME Typed, Undisturbed, [Next]_vars, ~raced' PROVE Undisturbed'
    BY DEF Undisturbed
<1>1. ASSUME NEW c \in Calls, NEW method \in {"join", "remove"} \cup Moderation,
             NEW by, NEW u, Enters(c, method, by, u)
      PROVE  Undisturbed'
    <2>1. ~raced /\ Serving = {} /\ UNCHANGED rows
        BY <1>1 DEF Enters
    <2>2. NotFull /\ Agreed
        BY <2>1 DEF Undisturbed, Quiet
    <2>3. \A d \in Calls : pc'[d] = IF d = c THEN method ELSE "free"
        BY <1>1, <2>1 DEF Enters, Serving, Typed, TypeOK
    <2>4. Serving' = {c}
        BY <2>3 DEF Serving, Moderation
    <2>5. Progress(c)'
        BY <2>1, <2>2, <2>3 DEF Progress, JoinRight, RemoveRight, RemoveSteps, JoinReads,
                                Moderation, Agreed, HostPresent, rows
    <2> QED
        BY <2>1, <2>2, <2>4, <2>5 DEF Undisturbed, NotFull, Quiet, rows
<1>2. ASSUME NEW c \in Calls, Serves(c)
      PROVE  Undisturbed'
    <2>1. c \in Serving
        BY <1>2 DEF Serves, ServiceStep, Serving, JoinReadsRoom, JoinReadsBans, JoinReadsRow,
           JoinCounts, JoinWrites, RemoveReadsRoom, RemoveReadsRow, RemoveWrites,
           RemoveReadsRemaining, Close, HandOn, Kick, Ban, Transfer, AssertHost, BanWrites,
           TransferReadsRow, TransferWrites
    <2>2. ~raced /\ Serving = {c} /\ NotFull /\ Progress(c)
        BY <1>2, <2>1 DEF Serves, Undisturbed
    <2>3. Progress(c)' /\ NotFull'
        BY <1>2, <2>2, ProgressStep DEF Serves
    <2>4. Serving' \subseteq {c}
        <3>1. \A d \in Calls : d # c => pc'[d] = pc[d]
            BY <1>2 DEF Serves, ServiceStep, JoinReadsRoom, JoinReadsBans, JoinReadsRow,
               JoinCounts, JoinWrites, RemoveReadsRoom, RemoveReadsRow, RemoveWrites,
               RemoveReadsRemaining, Close, HandOn, Kick, Ban, Transfer, AssertHost, BanWrites,
               TransferReadsRow, TransferWrites, Returns, Throws, Goes, Keeps, Typed, TypeOK
        <3> QED
            BY <2>2, <3>1 DEF Serving
    <2>5. c \in Serving'
        BY <1>2 DEF Serves, ServiceStep, Serving, JoinReadsRoom, JoinReadsBans, JoinReadsRow,
           JoinCounts, JoinWrites, RemoveReadsRoom, RemoveReadsRow, RemoveWrites,
           RemoveReadsRemaining, Close, HandOn, Kick, Ban, Transfer, AssertHost, BanWrites,
           TransferReadsRow, TransferWrites, Returns, Throws, Goes, Keeps, Typed, TypeOK
    <2> QED
        BY <2>3, <2>4, <2>5 DEF Undisturbed, Quiet
<1>3. ASSUME NEW c \in Calls, Answers(c)
      PROVE  Undisturbed'
    <2>1. ~raced /\ UNCHANGED rows /\ pc[c] = "done" /\ c \in Serving
        BY <1>3 DEF Answers, Serving
    <2>2. Serving = {c} /\ NotFull /\ Agreed
        BY <2>1 DEF Undisturbed, Progress, RemoveSteps
    <2>3. Serving' = {}
        BY <1>3, <2>2 DEF Answers, Serving, Typed, TypeOK
    <2> QED
        BY <2>1, <2>2, <2>3 DEF Undisturbed, NotFull, Agreed, HostPresent, rows
<1>4. CASE UNCHANGED vars
    BY <1>4 DEF vars, serviceVars, rows, Undisturbed, Serving, Quiet, NotFull, Agreed, HostPresent,
       Progress, JoinRight, RemoveRight, User
<1> QED
    BY <1>1, <1>2, <1>3, <1>4 DEF Next, CallOwn, CallRest, CallModeration

LEMMA UndisturbedInvariant == Spec => []Undisturbed
<1>1. Init => Undisturbed
    <2> SUFFICES ASSUME Init PROVE Undisturbed
        OBVIOUS
    <2>1. Serving = {} /\ members = {host}
        BY DEF Init, ServiceInit, Serving
    <2>4. IsFiniteSet({host}) /\ Cardinality({host}) = 1
        BY FS_Singleton
    <2>2. NotFull
        BY <2>1, <2>4, CapacityAssumption DEF NotFull
    <2>3. Agreed
        BY <2>1 DEF Init, ServiceInit, Agreed, HostPresent
    <2> QED
        BY <2>1, <2>2, <2>3 DEF Undisturbed
<1> QED
    BY <1>1, TypedInvariant, UndisturbedStep, PTL DEF Spec

\* With no REST call overlapping another call, an open room has its host among
\* its members, a closed one is empty and nobody is overbooked, whatever the
\* order of joins, leaves, kicks, bans and transfers.
THEOREM HostOrClosedCorrect == Spec => []HostOrClosed
<1>1. Undisturbed => HostOrClosed
    BY DEF Undisturbed, HostOrClosed, Agreed, HostPresent, NotFull
<1> QED
    BY <1>1, UndisturbedInvariant, PTL

\* With no REST call overlapping another call, nobody who is banned is a member.
THEOREM BansKeptCorrect == Spec => []BansKept
<1>1. Undisturbed => BansKept
    BY DEF Undisturbed, BansKept, Agreed
<1> QED
    BY <1>1, UndisturbedInvariant, PTL
=============================================================================
