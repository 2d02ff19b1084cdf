------------------------------ MODULE Services ------------------------------
(***************************************************************************)
(* The services of the backend that a game does not need to know: the lock *)
(* and the rate limiter that every instance shares through Redis, and the  *)
(* users and friendships that every request shares through the database.   *)
(* They share nothing with one another, so a behaviour follows one of them *)
(* and the others stay as they begin.                                      *)
(***************************************************************************)
EXTENDS RedisLock, RateLimiter, Accounts, Friends

VARIABLE part  \* the service that is followed

services == <<vars, limiter, auth, people, part>>

ServicesInit ==
    /\ part \in {"lock", "limiter", "accounts", "friends"}
    /\ Init /\ LimiterInit /\ AccountsInit /\ FriendsInit

LockStep == part = "lock" /\ UNCHANGED <<limiter, auth, people, part>>

ServicesNext ==
    \/ LockStep /\ Next
    \/ part = "limiter" /\ UNCHANGED <<vars, auth, people, part>> /\ LimiterNext
    \/ part = "accounts" /\ UNCHANGED <<vars, limiter, people, part>> /\ AccountsNext
    \/ part = "friends" /\ UNCHANGED <<vars, limiter, auth, part>> /\ FriendsNext

\* The fairness of RedisLock, of these steps
ServicesSpec ==
    /\ ServicesInit /\ [][ServicesNext]_services
    /\ \A c \in Callers :
        /\ WF_services(LockStep /\ (Acquire(c) \/ GiveUp(c)))
        /\ WF_services(LockStep /\ (Load(c) \/ Persist(c) \/ Throw(c) \/ Release(c)))
=============================================================================
