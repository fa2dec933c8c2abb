---------------------------- MODULE MsePlayer_proofs ----------------------------
(***************************************************************************)
(* Theorems about the parts of a live camera: MsePlayer, for any number of *)
(* sockets, pieces, toggles and errors, LivePlayer and CameraActivity, and *)
(* about the three together.  What OneSocket needs is about the sockets    *)
(* only, what StreamInOrder needs about the queue and its SourceBuffer     *)
(* only, so that each has its own invariant, and an action that leaves     *)
(* those variables alone preserves it without being opened.  The picture   *)
(* and the list of objects have theirs.                                    *)
(***************************************************************************)
EXTENDS LiveParts, TLAPS

-----------------------------------------------------------------------------
(* Sockets *)

SocketStates == {"none", "connecting", "open", "closed"}

\* wsRef is a socket that was made, and the only one that is not closed.
SocketInv ==
  /\ ws \in 0..MaxSockets /\ made \in 0..MaxSockets
  /\ sock \in [1..MaxSockets -> SocketStates]
  /\ OneSocket

\* The ways in which the handlers change the sockets.
LEMMA ConnectKeepsOne ==
  ASSUME SocketInv, OnConnect
  PROVE  SocketInv'
BY MseAssumption DEF SocketInv, OneSocket, Live, OnConnect, sockets, SocketStates

LEMMA DisconnectKeepsOne ==
  ASSUME SocketInv, NEW fresh \in BOOLEAN, OnDisconnect(fresh)
  PROVE  SocketInv'
BY MseAssumption DEF SocketInv, OneSocket, Live, OnDisconnect, sockets, SocketStates

LEMMA UnchangedKeepsOne ==
  ASSUME SocketInv, UNCHANGED sockets
  PROVE  SocketInv'
BY DEF SocketInv, OneSocket, Live, sockets

LEMMA SocketsKept ==
  ASSUME SocketInv, [MseNext]_mseVars
  PROVE  SocketInv'
<1>1. CASE UNCHANGED mseVars
  BY <1>1, UnchangedKeepsOne DEF mseVars, sockets
<1>2. ASSUME NEW i \in 1..MaxSockets, OnOpen(i)
      PROVE  SocketInv'
  BY <1>2 DEF OnOpen, SocketInv, OneSocket, Live, SocketStates
<1>3. ASSUME NEW i \in 1..MaxSockets, SocketCloses(i)
      PROVE  SocketInv'
  BY <1>3 DEF SocketCloses, OnClose, SocketInv, OneSocket, Live, SocketStates
<1>4. CASE Reconnect
  BY <1>4, ConnectKeepsOne DEF Reconnect
<1>5. CASE SourceOpen
  BY <1>5, DisconnectKeepsOne, UnchangedKeepsOne DEF SourceOpen
<1>6. CASE OnMse
  BY <1>6, DisconnectKeepsOne, UnchangedKeepsOne DEF OnMse
<1>7. CASE AnswerTimeout
  BY <1>7, DisconnectKeepsOne DEF AnswerTimeout
<1>8. CASE OnData \/ UpdateEnd \/ LoadedData
  BY <1>8, UnchangedKeepsOne DEF OnData, UpdateEnd, LoadedData
<1>9. CASE BufferTimeout
  BY <1>9, DisconnectKeepsOne, UnchangedKeepsOne DEF BufferTimeout
<1>10. ASSUME NEW ahead \in AheadTimes, NEW over \in BOOLEAN, NEW paused \in BOOLEAN,
              OnProgress(ahead, over, paused)
       PROVE  SocketInv'
  <2>1. CASE isPlaying /\ wanted /\ (ahead = "over10" \/ over)
    <3>1. ws # 0 /\ ws' = 0 /\ made' = made /\ sock' = [sock EXCEPT ![ws] = "closed"]
      BY <1>10, <2>1 DEF OnProgress, Receiving
    <3> QED BY <3>1, MseAssumption DEF SocketInv, OneSocket, Live, SocketStates
  <2>2. CASE ~(isPlaying /\ wanted /\ (ahead = "over10" \/ over))
    BY <1>10, <2>2, UnchangedKeepsOne DEF OnProgress
  <2> QED BY <2>1, <2>2
<1>11. ASSUME NEW kind \in ErrorKinds, VideoError(kind)
       PROVE  SocketInv'
  BY <1>11, DisconnectKeepsOne DEF VideoError
<1>12. CASE SetWanted
  BY <1>12, ConnectKeepsOne, DisconnectKeepsOne DEF SetWanted
<1>13. CASE SetHidden
  BY <1>13, ConnectKeepsOne, DisconnectKeepsOne, UnchangedKeepsOne DEF SetHidden
<1>14. CASE Unmount
  BY <1>14, DisconnectKeepsOne, UnchangedKeepsOne DEF Unmount
<1> QED
  BY <1>1, <1>2, <1>3, <1>4, <1>5, <1>6, <1>7, <1>8, <1>9, <1>10, <1>11, <1>12, <1>13, <1>14
  DEF MseNext

\* Whatever closes, fails, reconnects or is toggled, and in whichever render a handler was
\* made, the player never has a socket beside the one that wsRef holds (MsePlayer.tsx:189).
THEOREM PlayerHasOneSocket == MseSpec => []OneSocket
<1>1. MseInit => SocketInv
  BY MseAssumption DEF MseInit, SocketInv, OneSocket, Live, SocketStates
<1>2. SocketInv /\ [MseNext]_mseVars => SocketInv'
  BY SocketsKept
<1>3. SocketInv => OneSocket
  BY DEF SocketInv
<1> QED
  BY <1>1, <1>2, <1>3, PTL DEF MseSpec

-----------------------------------------------------------------------------
(* The queue of the SourceBuffer *)

\* Pieces are numbered as they arrive: none that was appended or waits is newer than the last.
QueueInv ==
  /\ received \in Nat /\ appended \in Nat /\ appended <= received
  /\ updating \in BOOLEAN
  /\ buf \in Seq(Nat) /\ \A j \in 1..Len(buf) : buf[j] <= received
  /\ StreamInOrder

LEMMA UnchangedKeepsQueue ==
  ASSUME QueueInv, UNCHANGED <<handler, updating, buf, received, appended>>
  PROVE  QueueInv'
BY DEF QueueInv, StreamInOrder

LEMMA EmptyQueue ==
  ASSUME buf' = <<>>, received' \in Nat, appended' \in Nat, appended' <= received', updating' \in BOOLEAN
  PROVE  QueueInv'
<1>1. buf' \in Seq(Nat) /\ Len(buf') = 0
  OBVIOUS
<1>2. 1..Len(buf') = {} /\ 1..(Len(buf') - 1) = {}
  BY <1>1
<1>3. StreamInOrder'
  BY <1>2 DEF StreamInOrder
<1> QED BY <1>1, <1>2, <1>3 DEF QueueInv

LEMMA QueueKept ==
  ASSUME QueueInv, [MseNext]_mseVars
  PROVE  QueueInv'
<1>1. CASE UNCHANGED mseVars
  BY <1>1, UnchangedKeepsQueue DEF mseVars
<1>2. ASSUME NEW i \in 1..MaxSockets, OnOpen(i)
      PROVE  QueueInv'
  BY <1>2 DEF OnOpen, buffers, QueueInv, StreamInOrder
<1>3. ASSUME NEW i \in 1..MaxSockets, SocketCloses(i)
      PROVE  QueueInv'
  BY <1>3, UnchangedKeepsQueue DEF SocketCloses, answers, buffers
<1>4. CASE Reconnect \/ SourceOpen \/ AnswerTimeout \/ LoadedData \/ BufferTimeout
  BY <1>4, UnchangedKeepsQueue
  DEF Reconnect, SourceOpen, AnswerTimeout, LoadedData, BufferTimeout, answers, buffers
<1>5. CASE OnMse
  <2>1. CASE attached = "current" /\ opened
    <3>1. /\ updating' = FALSE /\ buf' = <<>> /\ received' = received /\ appended' = appended
      BY <1>5, <2>1 DEF OnMse
    <3> QED BY <3>1, EmptyQueue DEF QueueInv
  <2>2. CASE ~(attached = "current" /\ opened)
    BY <1>5, <2>2, UnchangedKeepsQueue DEF OnMse, buffers
  <2> QED BY <2>1, <2>2
<1>6. CASE OnData
  <2>1. CASE updating \/ buf # <<>>
    <3>1. CASE Len(buf) < MaxBuffer
      <4>1. /\ buf' = Append(buf, received + 1) /\ received' = received + 1
            /\ UNCHANGED <<updating, appended, handler>>
        BY <1>6, <2>1, <3>1 DEF OnData, answers
      <4>2. /\ buf' \in Seq(Nat) /\ Len(buf') = Len(buf) + 1
            /\ \A j \in 1..Len(buf) : buf'[j] = buf[j]
            /\ buf'[Len(buf) + 1] = received + 1
        BY <4>1 DEF QueueInv
      <4>3. \A j \in 1..Len(buf') : j \in 1..Len(buf) \/ j = Len(buf) + 1
        BY <4>2 DEF QueueInv
      <4>4. \A j \in 1..Len(buf') : buf'[j] > appended' /\ buf'[j] <= received'
        BY <4>1, <4>2, <4>3 DEF QueueInv, StreamInOrder
      <4>5. \A j \in 1..Len(buf') - 1 : buf'[j] < buf'[j + 1]
        <5>1. SUFFICES ASSUME NEW j \in 1..Len(buf') - 1
                       PROVE  buf'[j] < buf'[j + 1]
          OBVIOUS
        <5>2. CASE j = Len(buf)
          BY <4>2, <5>1, <5>2 DEF QueueInv
        <5>3. CASE j # Len(buf)
          <6>1. j \in 1..Len(buf) - 1 /\ j + 1 \in 1..Len(buf)
            BY <4>2, <5>1, <5>3 DEF QueueInv
          <6> QED BY <4>2, <6>1 DEF QueueInv, StreamInOrder
        <5> QED BY <5>2, <5>3
      <4>6. updating
        BY <1>6, <2>1 DEF OnData, Receiving, QueueInv, StreamInOrder
      <4> QED BY <4>1, <4>2, <4>4, <4>5, <4>6 DEF QueueInv, StreamInOrder
    <3>2. CASE ~(Len(buf) < MaxBuffer)
      <4>1. buf' = buf /\ received' = received + 1 /\ UNCHANGED <<updating, appended, handler>>
        BY <1>6, <2>1, <3>2 DEF OnData, answers
      <4> QED BY <4>1 DEF QueueInv, StreamInOrder
    <3> QED BY <3>1, <3>2
  <2>2. CASE ~(updating \/ buf # <<>>)
    <3>1. buf' = <<>> /\ received' = received + 1
      BY <1>6, <2>2 DEF OnData
    <3>2. appended' \in {appended, received + 1}
      BY <1>6, <2>2 DEF OnData
    <3>3. updating' \in BOOLEAN
      BY <1>6, <2>2 DEF OnData, QueueInv
    <3> QED BY <3>1, <3>2, <3>3, EmptyQueue DEF QueueInv
  <2> QED BY <2>1, <2>2
<1>7. CASE UpdateEnd
  <2>1. CASE buf # <<>>
    <3>1. Len(buf) \in 1..Len(buf)
      BY <2>1 DEF QueueInv
    <3>2. buf[Len(buf)] \in Nat /\ buf[Len(buf)] <= received
      BY <3>1 DEF QueueInv
    <3>3. /\ buf' = <<>> /\ received' = received /\ updating' \in BOOLEAN
          /\ appended' \in {appended, buf[Len(buf)]}
      BY <1>7, <2>1 DEF UpdateEnd
    <3> QED BY <3>2, <3>3, EmptyQueue DEF QueueInv
  <2>2. CASE buf = <<>>
    <3>1. buf' = <<>> /\ UNCHANGED <<received, appended>> /\ updating' \in BOOLEAN
      BY <1>7, <2>2 DEF UpdateEnd
    <3> QED BY <3>1, EmptyQueue DEF QueueInv
  <2> QED BY <2>1, <2>2
<1>8. ASSUME NEW ahead \in AheadTimes, NEW over \in BOOLEAN, NEW paused \in BOOLEAN,
             OnProgress(ahead, over, paused)
      PROVE  QueueInv'
  BY <1>8, UnchangedKeepsQueue DEF OnProgress, answers, buffers
<1>9. ASSUME NEW kind \in ErrorKinds, VideoError(kind)
      PROVE  QueueInv'
  BY <1>9, UnchangedKeepsQueue DEF VideoError, answers, buffers
<1>10. CASE SetWanted \/ SetHidden \/ Unmount
  BY <1>10, UnchangedKeepsQueue DEF SetWanted, SetHidden, Unmount, answers, buffers
<1> QED
  BY <1>1, <1>2, <1>3, <1>4, <1>5, <1>6, <1>7, <1>8, <1>9, <1>10 DEF MseNext

\* The pieces of the stream are appended in the order in which they came, however the queue
\* overflows and the buffer throws, and what waits always waits for an update whose end will
\* hand it over (MsePlayer.tsx:308).
THEOREM PlayerKeepsOrder == MseSpec => []StreamInOrder
<1>1. MseInit => QueueInv
  <2>1. SUFFICES ASSUME MseInit PROVE QueueInv
    OBVIOUS
  <2>2. buf = <<>> /\ received = 0 /\ appended = 0 /\ updating \in BOOLEAN
    BY <2>1 DEF MseInit
  <2>3. buf \in Seq(Nat) /\ 1..Len(buf) = {} /\ 1..(Len(buf) - 1) = {}
    BY <2>2
  <2> QED BY <2>2, <2>3 DEF QueueInv, StreamInOrder
<1>2. QueueInv /\ [MseNext]_mseVars => QueueInv'
  BY QueueKept
<1>3. QueueInv => StreamInOrder
  BY DEF QueueInv
<1> QED
  BY <1>1, <1>2, <1>3, PTL DEF MseSpec

-----------------------------------------------------------------------------
(* The player among the other parts of a live camera *)

LEMMA PartsImplementPlayer == LivePartsSpec => MseSpec
<1>1. LivePartsInit => MseInit
  BY DEF LivePartsInit
<1>2. [LivePartsNext]_livePartVars => [MseNext]_mseVars
  BY DEF LivePartsNext, livePartVars, Mse, Shown, Told
<1> QED
  BY <1>1, <1>2, PTL DEF LivePartsSpec, MseSpec

\* Behind a live camera no socket is lost and the stream stays in order, whatever the choice of
\* players and the websocket do beside it.
THEOREM LiveCameraKeepsItsStream == LivePartsSpec => [](OneSocket /\ StreamInOrder)
<1> QED
  BY PartsImplementPlayer, PlayerHasOneSocket, PlayerKeepsOrder, PTL

-----------------------------------------------------------------------------
(* The picture *)

\* A ready picture is that of the mounted player.
PictureInv ==
  /\ liveReady \in BOOLEAN /\ started \in BOOLEAN
  /\ preferred \in {"mse", "webrtc", "jsmpeg"}
  /\ liveReady => Player # "none" /\ started

\* While the picture is ready, the player is that of the mode, active or not.
ModePlayer == liveReady => Player = IF AutoLive /\ cameraOn THEN Mode ELSE "none"

LEMMA ReadyPlayer == ModePlayer /\ ModePlayer'
BY DEF ModePlayer, Player

LEMMA ModeIsPlayer ==
  ASSUME preferred \in {"mse", "webrtc", "jsmpeg"}
  PROVE  Mode \in {"mse", "webrtc", "jsmpeg"}
BY DEF Mode, PreferredLiveMode

LEMMA InitialModes ==
  /\ ResetMode \in {"mse", "webrtc", "jsmpeg"}
  /\ \A b : InitialMode(b) \in {"mse", "webrtc", "jsmpeg"}
BY DEF ResetMode, InitialMode

\* A render keeps the picture ready only for the player that it shows.
LEMMA EffectsKeepPicture ==
  ASSUME PictureInv, NEW unready \in BOOLEAN, NEW remount \in BOOLEAN, Effects(unready, remount),
         preferred' \in {"mse", "webrtc", "jsmpeg"},
         ~unready => /\ ~remount /\ Mode' = Mode /\ AutoLive' \in {TRUE, AutoLive}
                     /\ cameraOn' = cameraOn
  PROVE  PictureInv'
<1>1. liveReady' \in BOOLEAN /\ started' \in BOOLEAN
  BY DEF Effects, PictureInv
<1>2. ASSUME liveReady' PROVE Player' # "none" /\ started'
  <2>1. liveReady /\ ~unready
    BY <1>2 DEF Effects, PictureInv
  <2>2. AutoLive /\ cameraOn /\ Player = Mode /\ started
    BY <2>1, ReadyPlayer DEF PictureInv, ModePlayer
  <2>3. AutoLive' /\ cameraOn' /\ Mode' = Mode /\ ~remount
    BY <2>1, <2>2
  <2>4. Player' = Mode'
    BY <1>2, <2>3, ReadyPlayer DEF ModePlayer
  <2>5. Player' = Player /\ Player' # "none"
    BY <2>1, <2>2, <2>3, <2>4 DEF PictureInv
  <2>6. PlaybackEnabled'
    BY <1>2 DEF PlaybackEnabled
  <2> QED BY <2>2, <2>3, <2>5, <2>6 DEF Effects
<1> QED BY <1>1, <1>2 DEF PictureInv

\* So do the changes of mode.
LEMMA ModeChangesKeepPicture ==
  ASSUME PictureInv, ModeChanges, preferred' \in {"mse", "webrtc", "jsmpeg"},
         streamType' = streamType, cameraOn' = cameraOn
  PROVE  PictureInv'
<1> DEFINE unready == Mode' # Mode
<1>1. unready \in BOOLEAN /\ (~unready => Mode' = Mode)
  OBVIOUS
<1>2. Effects(unready, FALSE)
  BY DEF ModeChanges
<1>3. AutoLive' = AutoLive
  BY DEF AutoLive
<1> HIDE DEF unready
<1> QED BY <1>1, <1>2, <1>3, EffectsKeepPicture

LEMMA ErrorKeepsModes ==
  ASSUME PictureInv, NEW error, HandleError(error)
  PROVE  preferred' \in {"mse", "webrtc", "jsmpeg"}
BY DEF PictureInv, HandleError

LEMMA PictureKept ==
  ASSUME PictureInv, [LivePlayerNext]_livePlayerVars
  PROVE  PictureInv'
<1>1. CASE UNCHANGED livePlayerVars
  BY <1>1 DEF livePlayerVars, PictureInv, Player, AutoLive, CameraActive, ShowStill, Mode, PreferredLiveMode
<1>2. CASE PlayerIsPlaying
  <2>1. /\ liveReady' = TRUE /\ started' = TRUE /\ Player # "none"
        /\ UNCHANGED <<preferred, streamType, cameraOn>> /\ Mode' = Mode
    BY <1>2 DEF PlayerIsPlaying, viewVars, envVars, Mode, PreferredLiveMode
  <2>2. AutoLive /\ cameraOn /\ AutoLive' = AutoLive
    BY <2>1 DEF Player, AutoLive
  <2>3. Player' = Mode' /\ Mode # "none"
    BY <2>1, <2>2, ReadyPlayer, ModeIsPlayer DEF PictureInv, ModePlayer
  <2> QED BY <2>1, <2>3 DEF PictureInv
<1>3. CASE LoadTimeout
  <2>1. /\ preferred' \in {"mse", "webrtc", "jsmpeg"} /\ UNCHANGED <<streamType, cameraOn>>
    BY <1>3, ErrorKeepsModes DEF LoadTimeout, envVars
  <2>2. CASE Mode' = Mode
    <3>1. UNCHANGED <<liveReady, started>> /\ AutoLive' = AutoLive
      BY <1>3, <2>1, <2>2 DEF LoadTimeout, AutoLive
    <3>2. liveReady => Player' = Player
      BY <2>1, <2>2, <3>1, ReadyPlayer DEF ModePlayer
    <3> QED BY <2>1, <3>1, <3>2 DEF PictureInv
  <2>3. CASE Mode' # Mode
    BY <1>3, <2>1, <2>3, EffectsKeepPicture DEF LoadTimeout
  <2> QED BY <2>2, <2>3
<1>4. CASE InactiveTimeout
  <2>1. preferred' \in {"mse", "webrtc", "jsmpeg"}
    BY <1>4, InitialModes DEF InactiveTimeout, PictureInv
  <2> QED BY <1>4, <2>1, EffectsKeepPicture DEF InactiveTimeout
<1>5. ASSUME NEW error, PlayerFails(error) PROVE PictureInv'
  BY <1>5, ErrorKeepsModes, ModeChangesKeepPicture DEF PlayerFails, envVars
<1>6. CASE Activity
  BY <1>6, ModeChangesKeepPicture DEF Activity, viewVars, PictureInv
<1>7. CASE CameraEnabled
  BY <1>7, EffectsKeepPicture DEF CameraEnabled, viewVars, PictureInv
<1>8. CASE WindowVisible
  BY <1>8, InitialModes, ModeChangesKeepPicture DEF WindowVisible
<1>9. ASSUME NEW type \in {"smart", "continuous", "no-streaming"}, SetStreamType(type)
      PROVE  PictureInv'
  <2> DEFINE unready == type = "no-streaming"
  <2>1. unready \in BOOLEAN /\ Effects(unready, FALSE) /\ preferred' = preferred /\ cameraOn' = cameraOn
    BY <1>9 DEF SetStreamType, viewVars
  <2>2. ~unready => AutoLive' = TRUE
    BY <1>9 DEF SetStreamType, AutoLive
  <2>3. Mode' = Mode
    BY <1>9 DEF SetStreamType, viewVars, Mode, PreferredLiveMode
  <2> HIDE DEF unready
  <2> QED BY <2>1, <2>2, <2>3, EffectsKeepPicture DEF PictureInv
<1>10. CASE SetStreamName
  BY <1>10, EffectsKeepPicture DEF SetStreamName, PictureInv
<1>11. CASE ToggleMic
  BY <1>11, ModeChangesKeepPicture DEF ToggleMic, envVars, PictureInv
<1>12. CASE ResetStream
  BY <1>12, InitialModes, ModeChangesKeepPicture DEF ResetStream, envVars, PictureInv
<1> QED
  BY <1>1, <1>2, <1>3, <1>4, <1>5, <1>6, <1>7, <1>8, <1>9, <1>10, <1>11, <1>12 DEF LivePlayerNext

\* Every combination of settings, outages and players has a layer.
LEMMA SomeLayer == PictureInv => LiveHasPicture
<1> SUFFICES ASSUME PictureInv PROVE LiveHasPicture
  OBVIOUS
<1>1. Layers # {}
  <2>1. CASE ~cameraOn
    BY <2>1 DEF Layers
  <2>2. CASE cameraOn /\ offline
    BY <2>2 DEF Layers
  <2>3. CASE cameraOn /\ ~offline /\ liveReady
    BY <2>3 DEF Layers, PictureInv
  <2>4. CASE cameraOn /\ ~offline /\ ~liveReady
    BY <2>4 DEF Layers
  <2> QED BY <2>1, <2>2, <2>3, <2>4
<1>2. "still" \in Layers => ShowStill
  BY DEF Layers
<1>3. ASSUME "still" \in Layers, visible, ~offline PROVE StillReloadInterval > 0
  BY <1>2, <1>3 DEF StillReloadInterval
<1> QED BY <1>1, <1>3 DEF LiveHasPicture, PictureInv

\* Behind every change of mode, stream, camera or window some layer is shown, the still one is
\* reloaded, and a picture that is called ready is that of the player that is mounted
\* (LivePlayer.tsx), for any number of changes and whatever the browser supports.
THEOREM PictureIsShown == LivePlayerSpec => []LiveHasPicture
<1>1. LivePlayerInit => PictureInv
  BY InitialModes DEF LivePlayerInit, PictureInv
<1>2. PictureInv /\ [LivePlayerNext]_livePlayerVars => PictureInv'
  BY PictureKept
<1> QED BY <1>1, <1>2, SomeLayer, PTL DEF LivePlayerSpec

-----------------------------------------------------------------------------
(* The objects *)

Event == [type : {"new", "update", "end"}, id : Things, stationary : BOOLEAN]
Snapshot == [known : BOOLEAN, objects : [Things -> States], enabled : BOOLEAN]
Message ==
  [topic : {"events"}, payload : Event] \cup [topic : {"camera_activity"}, payload : Snapshot]
  \cup [topic : {"enabled", "motion"}, payload : {"ON", "OFF"}]

\* The list has been brought up to date with the last event, unless a render is due that will.
ObjectsInv ==
  /\ wire \in Seq(Message)
  /\ activityPayload \in Snapshot /\ objects \in [Things -> States]
  /\ srvObjects \in [Things -> States \cup {"ended"}] /\ srvEnabled \in BOOLEAN
  /\ lastEvent \in Event \cup {NoEvent}
  /\ newEvent \in BOOLEAN /\ dirty \in BOOLEAN
  /\ newEvent => dirty
  /\ ~newEvent /\ lastEvent.type = "end" => objects[lastEvent.id] = "none"

LEMMA EventSets ==
  /\ NoEvent \notin Event /\ NoEvent.type = "none"
  /\ \A e \in Event : e.type \in {"new", "update", "end"} /\ e.id \in Things /\ e.stationary \in BOOLEAN
  /\ \A s \in Snapshot : s.objects \in [Things -> States]
BY DEF NoEvent, Event, Snapshot

\* Applied to a list of objects, an event leaves a list of objects, and an end no object.
LEMMA EventApplied ==
  ASSUME NEW list \in [Things -> States], NEW e \in Event \cup {NoEvent}
  PROVE  /\ EventObjects(list, e) \in [Things -> States]
         /\ e.type = "end" => EventObjects(list, e)[e.id] = "none"
<1>1. CASE e = NoEvent
  BY <1>1, EventSets DEF EventObjects
<1>2. CASE e \in Event
  <2>1. e.type \in {"new", "update", "end"} /\ e.id \in Things /\ e.stationary \in BOOLEAN
    BY <1>2, EventSets
  <2>2. \A s \in States : [list EXCEPT ![e.id] = s] \in [Things -> States]
                          /\ [list EXCEPT ![e.id] = s][e.id] = s
    BY <2>1
  <2>3. {"none", "stationary", "moving"} \subseteq States
    BY DEF States
  <2> QED BY <2>1, <2>2, <2>3 DEF EventObjects
<1> QED BY <1>1, <1>2

\* What is sent is a message; what is under way stays.
LEMMA BroadcastOK ==
  ASSUME wire \in Seq(Message), NEW m \in Message, Broadcast(m)
  PROVE  wire' \in Seq(Message)
BY DEF Broadcast

LEMMA ObjectsKept ==
  ASSUME ObjectsInv, [ActivityNext]_activityVars
  PROVE  ObjectsInv'
<1>1. CASE UNCHANGED activityVars
  BY <1>1 DEF activityVars, ObjectsInv
<1>2. ASSUME NEW t \in Things, NEW state \in States, ThingMoves(t, state)
      PROVE  ObjectsInv'
  <2> DEFINE e == [type |-> IF state = "none" THEN "end"
                            ELSE IF srvObjects[t] = "none" THEN "new" ELSE "update",
                   id |-> t, stationary |-> state = "stationary"]
             m == [topic |-> "events", payload |-> e]
  <2>1. m \in Message
    BY DEF Message, Event
  <2>2. wire' \in Seq(Message)
    BY <1>2, <2>1, BroadcastOK DEF ThingMoves, ObjectsInv
  <2>3. srvObjects' \in [Things -> States \cup {"ended"}]
    BY <1>2 DEF ThingMoves, ObjectsInv
  <2>4. UNCHANGED <<srvEnabled, activityPayload, lastEvent, objects, dirty, newEvent>>
    BY <1>2 DEF ThingMoves, table, client
  <2> QED BY <2>2, <2>3, <2>4 DEF ObjectsInv
<1>3. CASE CameraToggled
  <2> DEFINE m == [topic |-> "enabled", payload |-> OnOff(~srvEnabled)]
  <2>1. m \in Message
    BY DEF Message, OnOff
  <2>2. wire' \in Seq(Message)
    BY <1>3, <2>1, BroadcastOK DEF CameraToggled, ObjectsInv
  <2>3. srvEnabled' \in BOOLEAN /\ UNCHANGED <<srvObjects, activityPayload, lastEvent, objects, dirty, newEvent>>
    BY <1>3 DEF CameraToggled, table, client
  <2> QED BY <2>2, <2>3 DEF ObjectsInv
<1>4. ASSUME NEW payload \in {"ON", "OFF"}, MotionDetected(payload)
      PROVE  ObjectsInv'
  <2> DEFINE m == [topic |-> "motion", payload |-> payload]
  <2>1. m \in Message
    BY DEF Message
  <2>2. wire' \in Seq(Message)
    BY <1>4, <2>1, BroadcastOK DEF MotionDetected, ObjectsInv
  <2>3. UNCHANGED <<srvEnabled, srvObjects, activityPayload, lastEvent, objects, dirty, newEvent>>
    BY <1>4 DEF MotionDetected, server, table, client
  <2> QED BY <2>2, <2>3 DEF ObjectsInv
<1>5. CASE AnswerConnect
  <2> DEFINE s == [known |-> TRUE, enabled |-> srvEnabled,
                   objects |-> [t \in Things |-> IF srvObjects[t] = "ended" THEN "none" ELSE srvObjects[t]]]
             m == [topic |-> "camera_activity", payload |-> s]
  <2>1. s \in Snapshot
    BY DEF ObjectsInv, Snapshot, States
  <2>2. m \in Message
    BY <2>1 DEF Message
  <2>3. wire' \in Seq(Message)
    BY <1>5, <2>2, BroadcastOK DEF AnswerConnect, ObjectsInv
  <2>4. UNCHANGED <<srvEnabled, srvObjects, activityPayload, lastEvent, objects, dirty, newEvent>>
    BY <1>5 DEF AnswerConnect, table, client
  <2> QED BY <2>3, <2>4 DEF ObjectsInv
<1>6. CASE OnWsOpen \/ OnWsClose \/ RevalidateOnFocus
  <2>1. wire' \in {wire, <<>>}
        /\ UNCHANGED <<srvEnabled, srvObjects, activityPayload, lastEvent, objects, dirty, newEvent>>
    BY <1>6 DEF OnWsOpen, OnWsClose, RevalidateOnFocus, server, table, client
  <2>2. wire' \in Seq(Message)
    <3>1. CASE wire' = <<>>
      BY <3>1
    <3>2. CASE wire' = wire
      BY <3>2 DEF ObjectsInv
    <3> QED BY <2>1, <3>1, <3>2
  <2> QED BY <2>1, <2>2 DEF ObjectsInv
<1>7. CASE OnWsMessage
  <2>1. wire' \in Seq(Message) /\ Head(wire) \in Message
    BY <1>7 DEF OnWsMessage, ObjectsInv
  <2>2. PICK m \in Message : m = Head(wire)
    BY <2>1
  <2>3. /\ activityPayload' = IF m.topic = "camera_activity" THEN m.payload ELSE activityPayload
        /\ lastEvent' = IF m.topic = "events" THEN m.payload ELSE lastEvent
        /\ newEvent' = (newEvent \/ m.topic = "events")
        /\ dirty' = TRUE /\ UNCHANGED <<objects, srvObjects, srvEnabled>>
    BY <1>7, <2>2 DEF OnWsMessage, server, client
  <2>4. /\ m.topic = "events" => m.payload \in Event
        /\ m.topic = "camera_activity" => m.payload \in Snapshot
    BY <2>2 DEF Message
  <2> QED BY <2>1, <2>3, <2>4 DEF ObjectsInv
<1>8. CASE Render
  <2>1. PICK reset \in BOOLEAN, before \in [Things -> States] :
          /\ ~reset => before = objects
          /\ objects' = IF Applies(reset) THEN EventObjects(before, lastEvent) ELSE before
    <3> DEFINE overridden == newEvent /\ ~InPlace(objects, lastEvent) /\ EventObjects(objects, lastEvent) # objects
               reset == memo # activityPayload /\ ~overridden
               before == IF reset THEN activityPayload.objects ELSE objects
    <3>1. objects' = IF Applies(reset) THEN EventObjects(before, lastEvent) ELSE before
      BY <1>8 DEF Render
    <3>2. reset \in BOOLEAN /\ (~reset => before = objects)
      OBVIOUS
    <3>3. before \in [Things -> States]
      BY EventSets DEF ObjectsInv
    <3> HIDE DEF reset, before
    <3> QED BY <3>1, <3>2, <3>3
  <2>2. /\ dirty' = FALSE /\ newEvent' = FALSE
        /\ UNCHANGED <<wire, srvObjects, srvEnabled, activityPayload, lastEvent>>
    BY <1>8 DEF Render, server
  <2>3. objects' \in [Things -> States]
    BY <2>1, EventApplied DEF ObjectsInv
  <2>4. lastEvent.type = "end" => objects'[lastEvent.id] = "none"
    BY <2>1, EventApplied DEF ObjectsInv, Applies
  <2> QED BY <2>2, <2>3, <2>4 DEF ObjectsInv
<1> QED
  BY <1>1, <1>2, <1>3, <1>4, <1>5, <1>6, <1>7, <1>8 DEF ActivityNext

\* An object whose end was the last event is not on the screen after a render, whatever
\* snapshots and events the connection delivered together, lost, or delivered again
\* (use-camera-activity.ts), for any objects and number of messages.
THEOREM EndedObjectIsGone == ActivitySpec => []EndedIsGone
<1>1. ActivityInit => ObjectsInv
  <2> SUFFICES ASSUME ActivityInit PROVE ObjectsInv
    OBVIOUS
  <2>1. NoThings \in [Things -> States] /\ NoThings \in [Things -> States \cup {"ended"}]
    BY DEF NoThings, States
  <2>2. NoSnapshot \in Snapshot
    BY <2>1 DEF NoSnapshot, Snapshot
  <2>3. wire \in Seq(Message)
    BY DEF ActivityInit
  <2> QED BY <2>1, <2>2, <2>3, EventSets DEF ActivityInit, ObjectsInv
<1>2. ObjectsInv /\ [ActivityNext]_activityVars => ObjectsInv'
  BY ObjectsKept
<1>3. ObjectsInv => EndedIsGone
  BY DEF ObjectsInv, EndedIsGone
<1> QED BY <1>1, <1>2, <1>3, PTL DEF ActivitySpec

-----------------------------------------------------------------------------
(* The parts of a live camera *)

LEMMA PartsImplementTheOthers == LivePartsSpec => LivePlayerSpec /\ ActivitySpec
<1>1. LivePartsInit => LivePlayerInit /\ ActivityInit
  BY DEF LivePartsInit
<1>2. [LivePartsNext]_livePartVars => [LivePlayerNext]_livePlayerVars /\ [ActivityNext]_activityVars
  BY DEF LivePartsNext, livePartVars, Mse, Shown, Told
<1> QED
  BY <1>1, <1>2, PTL DEF LivePartsSpec, LivePlayerSpec, ActivitySpec

\* Behind a live camera there is always something to see, and nothing that has ended, whatever
\* the stream does beside it.
THEOREM LiveCameraShowsWhatIs == LivePartsSpec => [](LiveHasPicture /\ EndedIsGone)
<1> QED
  BY PartsImplementTheOthers, PictureIsShown, EndedObjectIsGone, PTL
=================================================================================
