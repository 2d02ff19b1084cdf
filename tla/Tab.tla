-------------------------------- MODULE Tab --------------------------------
(***************************************************************************)
(* One browser tab.  Its user signs in and out, looks for a room, enters   *)
(* it and talks there; a behaviour follows the tab while it does one of    *)
(* these.  Only the room depends on another part, the session: its module  *)
(* composes the two.                                                       *)
(***************************************************************************)
EXTENDS RoomClient, RoomBrowser, Voice

VARIABLE part  \* what the tab is followed at

tab == <<vars, browser, voice, part>>

\* Elsewhere nobody is signed in, and the list of rooms is not looked at.
Idling(p) ==
    /\ p \in {"session", "room"} \/ <<user, cookie>> = <<NoOne, NoOne>>
    /\ p = "browser" \/ (hidden /\ filter = CHOOSE f \in Filters : TRUE)

TabInit ==
    /\ part \in {"session", "room", "browser", "voice"}
    /\ IF part = "session"
       THEN SessionInit /\ ClientInit
       ELSE Init
    /\ BrowserInit
    /\ VoiceInit
    /\ Idling(part)

RoomStep == part = "room" /\ UNCHANGED <<browser, voice, part>>

TabNext ==
    \/ part = "session" /\ UNCHANGED <<client, browser, voice, part>> /\ SessionNext
    \/ RoomStep /\ Next
    \/ part = "browser" /\ UNCHANGED <<vars, voice, part>> /\ BrowserNext
    \/ part = "voice" /\ UNCHANGED <<vars, browser, part>> /\ VoiceNext

\* The network works in the end, the server answers, a connection delivers and
\* the page goes on with what it resolves.
TabSpec ==
    /\ TabInit /\ [][TabNext]_tab
    /\ WF_tab(RoomStep /\ (Join \/ NotResolved))
    /\ WF_tab(RoomStep /\ \E s \in Sockets : Connect(s) \/ Refused(s))
    /\ WF_tab(RoomStep /\ \E a \in asks : a.op = "join" /\ (Enter(a) \/ Deny(a) \/ Answer(a)))
    /\ WF_tab(RoomStep /\ socket \in Sockets /\ Receive(socket))
    /\ WF_tab(RoomStep /\ (RefreshSucceeds \/ RefreshFails))
=============================================================================
