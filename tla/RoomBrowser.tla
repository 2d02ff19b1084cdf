---------------------------- MODULE RoomBrowser ----------------------------
(***************************************************************************)
(* The list of public rooms (room-browser.tsx): it is fetched at once and  *)
(* then polled while the page can be seen, for the filter that is chosen.  *)
(* Answers arrive in any order; one that belongs to an earlier filter is   *)
(* shown like any other, as every run of the effect clears the mark that   *)
(* the run before it set.                                                  *)
(***************************************************************************)
EXTENDS Naturals

CONSTANTS
    Filters,
    NoList,       \* the list that is not there yet
    MaxFailures,  \* MAX_CONSECUTIVE_FAILURES
    MaxFlight     \* bound: requests in flight for one filter

VARIABLES
    filter,
    hidden,    \* document.hidden
    polling,   \* intervalRef: the interval is running
    flight,    \* requests in flight, by filter
    failures,  \* failuresRef
    list,      \* the filter whose rooms are shown
    error,     \* an error is shown, and with it the button to retry
    healed     \* history: an answer took the error away, not a retry

browser == <<filter, hidden, polling, flight, failures, list, error, healed>>

\* The effect's first run
BrowserInit ==
    /\ filter \in Filters
    /\ hidden \in BOOLEAN
    /\ polling = ~hidden
    /\ flight = [f \in Filters |-> IF f = filter THEN 1 ELSE 0]
    /\ failures = 0
    /\ list = NoList
    /\ error = FALSE
    /\ healed = FALSE

FetchRooms(f) ==
    /\ flight[f] < MaxFlight
    /\ flight' = [flight EXCEPT ![f] = @ + 1]

\* Deviation: the effect leaves the polling to the next change of visibility.
PickOnly(f) ==
    /\ f # filter
    /\ filter' = f
    /\ failures' = 0
    /\ FetchRooms(f)
    /\ polling' = FALSE
    /\ UNCHANGED <<hidden, list, error, healed>>

\* Another filter: the effect is cleaned up and runs again.
Pick(f) ==
    /\ f # filter
    /\ filter' = f
    /\ failures' = 0
    /\ FetchRooms(f)
    /\ polling' = ~hidden
    /\ UNCHANGED <<hidden, list, error, healed>>

Poll ==
    /\ polling
    /\ FetchRooms(filter)
    /\ UNCHANGED <<filter, hidden, polling, failures, list, error, healed>>

Arrives(f) ==
    /\ flight[f] > 0
    /\ flight' = [flight EXCEPT ![f] = @ - 1]

RoomsCome(f) ==
    /\ Arrives(f)
    /\ failures' = 0
    /\ list' = f
    /\ error' = FALSE
    /\ healed' = (healed \/ (error /\ ~polling /\ ~hidden))
    /\ UNCHANGED <<filter, hidden, polling>>

\* After a storm of failures the polling stops and the error is shown.
RoomsFail(f) ==
    /\ Arrives(f)
    /\ failures < MaxFailures + MaxFlight
    /\ failures' = failures + 1
    /\ IF failures' >= MaxFailures THEN polling' = FALSE /\ error' = TRUE
       ELSE UNCHANGED <<polling, error>>
    /\ UNCHANGED <<filter, hidden, list, healed>>

\* onVisibilityChange
Hide ==
    /\ ~hidden
    /\ hidden' = TRUE
    /\ polling' = FALSE
    /\ UNCHANGED <<filter, flight, failures, list, error, healed>>

Show ==
    /\ hidden
    /\ hidden' = FALSE
    /\ polling' = TRUE
    /\ failures' = 0
    /\ FetchRooms(filter)
    /\ UNCHANGED <<filter, list, error, healed>>

\* handleRetry
Retry ==
    /\ error
    /\ error' = FALSE
    /\ failures' = 0
    /\ FetchRooms(filter)
    /\ polling' = (polling \/ ~hidden)
    /\ UNCHANGED <<filter, hidden, list, healed>>

BrowserNext ==
    \/ \E f \in Filters : Pick(f)
    \/ Poll
    \/ \E f \in Filters : RoomsCome(f)
    \/ \E f \in Filters : RoomsFail(f)
    \/ Hide
    \/ Show
    \/ Retry

BrowserSpec == BrowserInit /\ [][BrowserNext]_browser

-----------------------------------------------------------------------------
\* A visible page that does not show the list of its filter is still fetching it,
\* whatever old answers come late, or it shows an error; but for an answer that
\* takes the error away when the polling has already been given up (fetchRooms).
ListIsCurrent == list = filter \/ flight[filter] > 0 \/ polling \/ hidden \/ error \/ healed
=============================================================================
