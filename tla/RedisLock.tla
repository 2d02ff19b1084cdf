----------------------------- MODULE RedisLock -----------------------------
(***************************************************************************)
(* RedisService.withLock on one key, taken by callers that load a value,   *)
(* compute with it and persist the result, as every operation on a room    *)
(* does.  The lock is a Redis key holding the caller's token, set with NX  *)
(* and a time to live and deleted by a script that compares the token.  It *)
(* fails open: a caller that polls in vain for too long, or meets a Redis  *)
(* error, does its work without the lock.                                  *)
(*                                                                         *)
(* Redis is modelled by what the code uses of it.  Data is a version: a    *)
(* caller's work turns the version it loaded into the next one.            *)
(***************************************************************************)
EXTENDS Naturals

CONSTANT Callers  \* concurrent calls of withLock, each with its random token

VARIABLES
    key,       \* the token under lock:<key>, or NoToken
    pc,        \* "idle", "polling", "entered", "loaded", "leaving", "done"
    acquired,  \* who was answered OK to SET NX
    barged,    \* history: who entered without having acquired the lock
    lapsed,    \* history: who had the key taken away by its time to live
    version,   \* the version that is stored
    mine       \* the version each caller loaded

vars == <<key, pc, acquired, barged, lapsed, version, mine>>

NoToken == "no token"

ASSUME TokenAssumption == NoToken \notin Callers

Init ==
    /\ key = NoToken
    /\ pc = [c \in Callers |-> "idle"]
    /\ acquired = {}
    /\ barged = {}
    /\ lapsed = {}
    /\ version = 0
    /\ mine = [c \in Callers |-> 0]

Goes(c, from, to) == pc[c] = from /\ pc' = [pc EXCEPT ![c] = to]

Call(c) ==
    /\ Goes(c, "idle", "polling")
    /\ UNCHANGED <<key, acquired, barged, lapsed, version, mine>>

\* SET key token PX ttl NX answers OK; otherwise the caller sleeps and polls on.
Acquire(c) ==
    /\ Goes(c, "polling", "entered")
    /\ key = NoToken
    /\ key' = c
    /\ acquired' = acquired \cup {c}
    /\ UNCHANGED <<barged, lapsed, version, mine>>

\* Deviation: the polling has no deadline.
GiveUpOnErrorOnly(c) ==
    /\ Goes(c, "polling", "entered")
    /\ key = NoToken /\ key' = c
    /\ barged' = barged \cup {c}
    /\ UNCHANGED <<acquired, lapsed, version, mine>>

\* The deadline passes, or SET throws: work is done without the lock.  When
\* only the answer was lost, the key is set all the same and nobody deletes it.
GiveUp(c) ==
    /\ Goes(c, "polling", "entered")
    /\ key' \in IF key = NoToken THEN {NoToken, c} ELSE {key}
    /\ barged' = barged \cup {c}
    /\ UNCHANGED <<acquired, lapsed, version, mine>>

\* LOCK_TTL_MS passes.
Expire ==
    /\ key # NoToken
    /\ key' = NoToken
    /\ lapsed' = lapsed \cup {key}
    /\ UNCHANGED <<pc, acquired, barged, version, mine>>

Load(c) ==
    /\ Goes(c, "entered", "loaded")
    /\ mine' = [mine EXCEPT ![c] = version]
    /\ UNCHANGED <<key, acquired, barged, lapsed, version>>

Persist(c) ==
    /\ Goes(c, "loaded", "leaving")
    /\ version' = mine[c] + 1
    /\ UNCHANGED <<key, acquired, barged, lapsed, mine>>

\* fn throws instead; the lock is released all the same (finally)
Throw(c) ==
    /\ Goes(c, "loaded", "leaving")
    /\ UNCHANGED <<key, acquired, barged, lapsed, version, mine>>

\* Deviation: DEL without comparing the token.
ReleaseAny(c) ==
    /\ Goes(c, "leaving", "done")
    /\ key' = IF c \in acquired THEN NoToken ELSE key
    /\ acquired' = acquired \ {c}
    /\ UNCHANGED <<barged, lapsed, version, mine>>

\* RELEASE_LOCK_SCRIPT, by those who acquired only
Release(c) ==
    /\ Goes(c, "leaving", "done")
    /\ key' = IF c \in acquired /\ key = c THEN NoToken ELSE key
    /\ acquired' = acquired \ {c}
    /\ UNCHANGED <<barged, lapsed, version, mine>>

Next ==
    \/ Expire
    \/ \E c \in Callers :
          Call(c) \/ Acquire(c) \/ GiveUp(c) \/ Load(c) \/ Persist(c) \/ Throw(c) \/ Release(c)

Spec == Init /\ [][Next]_vars

\* A caller goes on as its awaits resolve.  One that only polls gets the key
\* or gives up: the polling loop ends at its deadline.
Fairness ==
    \A c \in Callers :
        /\ WF_vars(Acquire(c) \/ GiveUp(c))
        /\ WF_vars(Load(c) \/ Persist(c) \/ Throw(c) \/ Release(c))

FairSpec == Spec /\ Fairness

-----------------------------------------------------------------------------
\* Every variable stays within its type.
TypeOK ==
    /\ key \in Callers \cup {NoToken}
    /\ pc \in [Callers -> {"idle", "polling", "entered", "loaded", "leaving", "done"}]
    /\ acquired \subseteq Callers
    /\ barged \subseteq Callers
    /\ lapsed \subseteq Callers
    /\ version \in Nat
    /\ mine \in [Callers -> Nat]

\* Whoever acquired the lock has it until it releases it or its time to live
\* runs out, whatever others do who time out, fail or lost their own lock
\* ("without this a slow caller whose lock already expired could delete a
\* different caller's now-active lock", RELEASE_LOCK_SCRIPT).
HeldUntilReleased == \A c \in acquired \ lapsed : key = c

\* What a caller is about to persist was computed from the stored version,
\* not from one that another caller has replaced since.
NoLostUpdate == \A c \in Callers : pc[c] = "loaded" => mine[c] = version

\* Operations on one room do not interleave their read and write with
\* another's (GameRuntimeService.lockKey), unless the lock failed open or its
\* time to live ran out under a working caller: nothing else loses an update.
LostOnlyAfterFailure == barged = {} /\ lapsed = {} => NoLostUpdate

\* The lock is the caller's until it lets go, and while it works no update is
\* lost (RedisService.withLock).
LockIsSafe == HeldUntilReleased /\ LostOnlyAfterFailure

\* Nobody waits for ever, not even for a lock whose owner was lost: the lock
\* fails open (LOCK_ACQUIRE_TIMEOUT_MS).
EveryCallReturns == \A c \in Callers : pc[c] = "polling" ~> pc[c] = "done"
=============================================================================
