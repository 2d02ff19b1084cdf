------------------------------- MODULE Voice -------------------------------
(***************************************************************************)
(* Voice chat in one browser tab (use-voice.ts): every mount of the panel  *)
(* runs an effect that asks for a token, connects to the LiveKit room and  *)
(* opens the microphone, and may be cleaned up at each of these awaits.    *)
(* LiveKit answers the microphone requests of a room in their order, and   *)
(* each may fail; the connection may be lost or blink.                     *)
(***************************************************************************)
EXTENDS Naturals, Sequences

CONSTANTS
    MaxRuns,   \* bound: mounts
    MaxAsks    \* bound: microphone requests of a room that are not answered

VARIABLES
    runs,      \* the runs of the effect
    mounted,   \* the panel is mounted, and the last run is its own
    roomRef,   \* the run whose Room is in roomRef, or 0
    status,    \* what the panel says
    connected, \* the button is shown
    muted,     \* the button offers to unmute
    micAsks,   \* by run: the microphone requests that LiveKit has not answered
    tangled    \* history: a toggle met the effect's own request, or a failure another

voice == <<runs, mounted, roomRef, status, connected, muted, micAsks, tangled>>

\* at: the await the run is at; link: its Room; mic: its track is on the air
Run == [at |-> "token", cancelled |-> FALSE, link |-> "none", mic |-> FALSE]
Runs == DOMAIN runs

VoiceInit ==
    /\ runs = <<>> /\ micAsks = <<>>
    /\ mounted = FALSE /\ roomRef = 0
    /\ status = "idle" /\ connected = FALSE /\ muted = TRUE
    /\ tangled = FALSE

Mount ==
    /\ ~mounted
    /\ Len(runs) < MaxRuns
    /\ mounted' = TRUE
    /\ runs' = Append(runs, Run)
    /\ micAsks' = Append(micAsks, <<>>)
    /\ status' = "connecting" /\ connected' = FALSE /\ muted' = TRUE
    /\ tangled' = FALSE
    /\ UNCHANGED roomRef

Cancelled == [i \in Runs |-> IF i = Len(runs) THEN [runs[i] EXCEPT !.cancelled = TRUE] ELSE runs[i]]
Closed(rs, r) == [rs EXCEPT ![r].link = "closed", ![r].mic = FALSE]

\* The effect's cleanup
Unmount ==
    /\ mounted
    /\ mounted' = FALSE
    /\ runs' = IF roomRef = 0 THEN Cancelled ELSE Closed(Cancelled, roomRef)
    /\ roomRef' = 0
    /\ status' = "idle" /\ connected' = FALSE
    /\ UNCHANGED <<muted, micAsks, tangled>>

-----------------------------------------------------------------------------
Returns(r) == runs' = [runs EXCEPT ![r].at = "over"]

\* onVoiceToken and issueToken: a token, no voice in this deployment, or an error
Token(r) ==
    /\ runs[r].at = "token"
    /\ \/ /\ runs[r].cancelled
          /\ Returns(r)
          /\ UNCHANGED <<roomRef, status>>
       \/ /\ ~runs[r].cancelled
          /\ Returns(r)
          /\ status' \in {"disabled", "error"}
          /\ UNCHANGED roomRef
       \/ /\ ~runs[r].cancelled
          /\ runs' = [runs EXCEPT ![r].at = "connect", ![r].link = "opening"]
          /\ roomRef' = r
          /\ UNCHANGED status
    /\ UNCHANGED <<mounted, connected, muted, micAsks, tangled>>

\* room.connect: it fails when the cleanup disconnects the room before it is
\* connected, and a run that finds itself cancelled disconnects its room.
ConnectFails(r) ==
    /\ runs[r].at = "connect"
    /\ runs' = [Closed(runs, r) EXCEPT ![r].at = "over"]
    /\ status' = IF runs[r].cancelled THEN status ELSE "error"
    /\ UNCHANGED <<mounted, roomRef, connected, muted, micAsks, tangled>>

Connects(r) ==
    /\ runs[r].at = "connect"
    /\ IF runs[r].cancelled
       THEN runs' = [Closed(runs, r) EXCEPT ![r].at = "over"] /\ UNCHANGED <<connected, micAsks>>
       ELSE /\ runs' = [runs EXCEPT ![r].at = "mic", ![r].link = "open"]
            /\ connected' = TRUE
            /\ micAsks' = [micAsks EXCEPT ![r] = Append(@, [on |-> TRUE, own |-> TRUE])]
    /\ UNCHANGED <<mounted, roomRef, status, muted, tangled>>

\* Disconnected and ConnectionStateChanged
Disconnected ==
    /\ connected /\ roomRef # 0
    /\ runs' = Closed(runs, roomRef)
    /\ connected' = FALSE
    /\ UNCHANGED <<mounted, roomRef, status, muted, micAsks, tangled>>

ConnectionStateChanged ==
    /\ roomRef # 0 /\ runs[roomRef].link = "open"
    /\ connected' = ~connected
    /\ UNCHANGED <<runs, mounted, roomRef, status, muted, micAsks, tangled>>

-----------------------------------------------------------------------------
\* toggleMute: the button is there while the room is connected.
ToggleMute ==
    /\ connected /\ roomRef # 0
    /\ Len(micAsks[roomRef]) < MaxAsks
    /\ muted' = ~muted
    /\ micAsks' = [micAsks EXCEPT ![roomRef] = Append(@, [on |-> muted, own |-> FALSE])]
    /\ tangled' = (tangled \/ runs[roomRef].at = "mic")
    /\ UNCHANGED <<runs, mounted, roomRef, status, connected>>

MicAnswered(r) == micAsks' = [micAsks EXCEPT ![r] = Tail(@)]

\* setMicrophoneEnabled resolves, in a room that is still there.
MicSet(r) ==
    /\ micAsks[r] # <<>>
    /\ runs[r].link = "open"
    /\ LET ask == Head(micAsks[r]) IN
       /\ runs' = [runs EXCEPT ![r].mic = ask.on, ![r].at = "over"]
       /\ IF ask.own THEN muted' = FALSE /\ status' = "connected"
                     ELSE UNCHANGED <<muted, status>>
    /\ MicAnswered(r)
    /\ UNCHANGED <<mounted, roomRef, connected, tangled>>

\* Deviation: the toggle is not taken back.
MicFailsSilently(r) ==
    /\ micAsks[r] # <<>>
    /\ Returns(r)
    /\ MicAnswered(r)
    /\ tangled' = (tangled \/ Len(micAsks[r]) > 1)
    /\ UNCHANGED <<mounted, roomRef, status, connected, muted>>

\* ... or rejects: a toggle is taken back unless the button has moved on.
MicFails(r) ==
    /\ micAsks[r] # <<>>
    /\ LET ask == Head(micAsks[r]) IN
       CASE runs[r].cancelled -> UNCHANGED <<muted, status>>
         [] ~runs[r].cancelled /\ ask.own -> muted' = TRUE /\ status' = "mic_denied"
         [] ~runs[r].cancelled /\ ~ask.own ->
               muted' = (IF muted = ~ask.on THEN ask.on ELSE muted) /\ UNCHANGED status
    /\ Returns(r)
    /\ MicAnswered(r)
    /\ tangled' = (tangled \/ Len(micAsks[r]) > 1)
    /\ UNCHANGED <<mounted, roomRef, connected>>

VoiceNext ==
    \/ Mount \/ Unmount
    \/ \E r \in Runs : Token(r) \/ ConnectFails(r) \/ Connects(r) \/ MicSet(r) \/ MicFails(r)
    \/ Disconnected \/ ConnectionStateChanged
    \/ ToggleMute

VoiceSpec == VoiceInit /\ [][VoiceNext]_voice

-----------------------------------------------------------------------------
\* A panel that was left, at whatever await its run was, keeps no connection
\* to the voice room, and no two runs are connected (use-voice.ts, cancelled
\* and the cleanup).
NoGhostVoice == \A r \in Runs : runs[r].link = "open" => mounted /\ r = Len(runs)

\* When every microphone request is answered the button shows what others
\* hear, unless it was pressed during the effect's own request or a request
\* failed with another behind it (use-voice.ts, toggleMute).
ButtonTellsTruth ==
    \/ tangled \/ roomRef = 0
    \/ runs[roomRef].link = "open" /\ micAsks[roomRef] = <<>> => runs[roomRef].mic = ~muted

VoiceRight == NoGhostVoice /\ ButtonTellsTruth
=============================================================================
