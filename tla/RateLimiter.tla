---------------------------- MODULE RateLimiter ----------------------------
(***************************************************************************)
(* RedisService.rateLimit on one key: a fixed window, counted with INCR    *)
(* and ended by a PEXPIRE that the call which counted 1 sends next.  The   *)
(* limiter fails open.  Calls overlap, and a Redis error may come before   *)
(* or after the command has taken effect.                                  *)
(***************************************************************************)
EXTENDS Naturals, FiniteSets

CONSTANTS
    Clients,  \* the requests that can be in progress together
    Max,      \* the calls allowed in a window
    MaxHits   \* bound: calls counted in a window

ASSUME LimiterAssumption == Max \in Nat

VARIABLES
    count,   \* the counter's value, 0 when the key does not exist
    ttl,     \* the counter has a time to live
    opening, \* the requests that have counted 1 and not yet sent PEXPIRE
    passed,  \* history: calls let through in this window as counted
    erred    \* history: a Redis error was met since the window began

limiter == <<count, ttl, opening, passed, erred>>

LimiterInit ==
    /\ count = 0 /\ ttl = FALSE /\ opening = {} /\ passed = 0 /\ erred = FALSE

\* Deviation: the window is opened by the second call.
HitSecondOpens(c) ==
    /\ c \notin opening
    /\ count < MaxHits
    /\ count' = count + 1
    /\ opening' = IF count' = 2 THEN opening \cup {c} ELSE opening
    /\ passed' = IF count' <= Max THEN passed + 1 ELSE passed
    /\ UNCHANGED <<ttl, erred>>

\* INCR and its answer
Hit(c) ==
    /\ c \notin opening
    /\ count < MaxHits
    /\ count' = count + 1
    /\ opening' = IF count' = 1 THEN opening \cup {c} ELSE opening
    /\ passed' = IF count' <= Max THEN passed + 1 ELSE passed
    /\ UNCHANGED <<ttl, erred>>

\* PEXPIRE and its answer
OpenWindow(c) ==
    /\ c \in opening
    /\ opening' = opening \ {c}
    /\ ttl' = (count > 0)
    /\ UNCHANGED <<count, passed, erred>>

\* An error of INCR or of PEXPIRE: the call is let through, uncounted.
FailOpen(c) ==
    /\ erred' = TRUE
    /\ \/ /\ c \notin opening
          /\ count < MaxHits
          /\ count' \in {count, count + 1}
          /\ UNCHANGED <<ttl, opening>>
       \/ /\ c \in opening
          /\ opening' = opening \ {c}
          /\ ttl' \in {ttl, TRUE}
          /\ UNCHANGED count
    /\ UNCHANGED passed

\* The window ends.
Lapse ==
    /\ ttl
    /\ count' = 0
    /\ ttl' = FALSE
    /\ passed' = 0
    /\ erred' = FALSE
    /\ UNCHANGED opening

LimiterNext ==
    \/ \E c \in Clients : Hit(c) \/ OpenWindow(c) \/ FailOpen(c)
    \/ Lapse

LimiterSpec == LimiterInit /\ [][LimiterNext]_limiter

-----------------------------------------------------------------------------
\* No window lets more calls through than the limit, those apart that met a
\* Redis error, and a window that has begun ends, or the one call that counted
\* its first is about to say when, unless an error cut that call short
\* (redis.service.ts, rateLimit).
LimitHolds ==
    /\ passed <= Max
    /\ count > 0 /\ ~ttl => erred \/ opening # {}
=============================================================================
