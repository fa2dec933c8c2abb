----------------------------- MODULE LivePlayer -----------------------------
(***************************************************************************)
(* The live picture of one camera: LivePlayer inside one of its two views. *)
(* The dashboard keeps a preferred mode per camera (useCameraLiveMode) and *)
(* answers an error by choosing another; the view of a single camera       *)
(* derives the mode from webRTC, lowBandwidth and mic.  LivePlayer mounts  *)
(* a player for the mode (MsePlayer and FallbackPlayers model these), and  *)
(* covers it with a still image, a spinner or a message until liveReady.   *)
(*                                                                         *)
(* A render and the effects it runs are one step: no callback comes between.*)
(***************************************************************************)
EXTENDS Integers

CONSTANTS
  MseSupported,  \* the browser has MediaSource
  Candidates,    \* go2rtc has webrtc candidates (asked by the camera view only)
  NameIsStream,  \* the camera is named like its first stream in go2rtc
  MaxEvents      \* bound: changes made by the user, the camera and the window

ASSUME LivePlayerAssumption ==
  /\ MaxEvents \in Nat
  /\ {MseSupported, Candidates, NameIsStream} \subseteq BOOLEAN

VARIABLES
  view,          \* "dashboard" or "camera", never changed
  restreamed,    \* the stream is one of go2rtc's
  preferred,     \* dashboard: preferredLiveModes of the camera: "mse", "webrtc", "jsmpeg"
  webRTC, lowBandwidth, talking,  \* camera view (talking: mic)
  streamType,    \* "smart", "continuous" or "no-streaming" (camera view: "continuous")
  visible,       \* windowVisible, which the dashboard also watches itself
  activity,      \* activeMotion or activeTracking
  cameraOn, prevCameraOn, offline,   \* as all that is not described: TRUE or FALSE
  liveReady, offTimer, isReEnabling, key,
  started,       \* the mounted player has a picture
  loadTimer,     \* the load timeout of a WebRtcPlayer is pending
  events

viewVars == <<view, restreamed, preferred, webRTC, lowBandwidth, talking>>
envVars  == <<view, streamType, visible, activity, cameraOn, offline>>
liveVars == <<liveReady, offTimer, isReEnabling, prevCameraOn, key, started, loadTimer>>
livePlayerVars ==
  <<view, restreamed, preferred, webRTC, lowBandwidth, talking, streamType, visible, activity, cameraOn,
    prevCameraOn, offline, liveReady, offTimer, isReEnabling, key, started, loadTimer, events>>

-----------------------------------------------------------------------------
(* The mode *)

\* The first mode of a camera, when the dashboard is mounted or shown again.
InitialMode(isRestreamed) ==
  IF ~isRestreamed THEN "jsmpeg" ELSE IF MseSupported THEN "mse" ELSE "webrtc"

\* resetPreferredLiveMode looks the camera's own name up among the streams.
ResetMode == InitialMode(restreamed /\ NameIsStream)

\* preferredLiveMode of the camera view.
PreferredLiveMode(isRestreamed, rtc, low, mic) ==
  CASE mic                   -> "webrtc"
    [] ~mic /\ rtc           -> IF isRestreamed THEN "webrtc" ELSE "jsmpeg"
    [] ~mic /\ ~rtc /\ low   -> "jsmpeg"
    [] OTHER                 -> IF ~MseSupported THEN "webrtc"
                                ELSE IF isRestreamed THEN "mse" ELSE "jsmpeg"

Mode == IF view = "dashboard" THEN preferred
        ELSE PreferredLiveMode(restreamed, webRTC, lowBandwidth, talking)

-----------------------------------------------------------------------------
(* What LivePlayer derives from its state *)

ShowStill == streamType # "continuous"
AutoLive == streamType # "no-streaming"
CameraActive == ~ShowStill \/ (visible /\ activity /\ cameraOn)

Player ==
  CASE ~AutoLive \/ ~cameraOn -> "none"
    [] AutoLive /\ cameraOn /\ Mode = "jsmpeg" ->
         IF CameraActive \/ liveReady THEN "jsmpeg" ELSE "none"
    [] OTHER -> Mode
PlaybackEnabled == CameraActive \/ liveReady

\* Milliseconds between two still images (-1: none are loaded).
StillReloadInterval ==
  IF ~visible \/ offline \/ ~ShowStill THEN -1
  ELSE IF liveReady THEN (IF CameraActive THEN 60000 ELSE 300)
  ELSE IF activity /\ cameraOn THEN (IF AutoLive THEN 200 ELSE 59000)
  ELSE 30000

\* The layers of the tile.
Layers ==
  (IF Player # "none" /\ liveReady THEN {"live"} ELSE {}) \cup
  (IF cameraOn /\ ~offline /\ (~ShowStill \/ isReEnabling) /\ ~liveReady THEN {"spinner"} ELSE {}) \cup
  (IF ShowStill /\ ~liveReady /\ ~isReEnabling /\ cameraOn THEN {"still"} ELSE {}) \cup
  (IF offline /\ ~ShowStill /\ cameraOn THEN {"offline"} ELSE {}) \cup
  (IF ~cameraOn THEN {"disabled"} ELSE {}) \cup
  (IF (offline /\ ShowStill) \/ ~cameraOn THEN {"name"} ELSE {})

-----------------------------------------------------------------------------
(* One render: what the effects make of a change.  remount tells that the key, *)
(* and thus the player, is a new one; unready that an effect resets liveReady. *)

\* Mutant: a change does not start the timer of the inactive camera.
Effects_NoTimer(unready, remount) ==
  /\ liveReady' = (liveReady /\ ~unready)
  /\ key' = IF remount THEN key + 1 ELSE key
  /\ offTimer' = (offTimer /\ liveReady' /\ ~CameraActive')
  /\ LET fresh == remount \/ Player' # Player
     IN /\ started' = (started /\ ~fresh /\ Player' # "none" /\ PlaybackEnabled')
        /\ loadTimer' = IF fresh THEN Player' = "webrtc" ELSE loadTimer

Effects(unready, remount) ==
  /\ liveReady' = (liveReady /\ ~unready)
  /\ key' = IF remount THEN key + 1 ELSE key
  /\ offTimer' = (AutoLive' /\ liveReady' /\ ~CameraActive')
  /\ LET fresh == remount \/ Player' # Player
     IN /\ started' = (started /\ ~fresh /\ Player' # "none" /\ PlaybackEnabled')
        /\ loadTimer' = IF fresh THEN Player' = "webrtc" ELSE loadTimer

Happens == events < MaxEvents /\ events' = events + 1

\* Mutant: a player of another mode is taken for the one that was ready.
ModeChanges_StaysReady == Effects(FALSE, FALSE) /\ UNCHANGED <<isReEnabling, prevCameraOn>>

\* The effect on preferredLiveMode resets liveReady whenever the mode changes.
ModeChanges == Effects(Mode' # Mode, FALSE) /\ UNCHANGED <<isReEnabling, prevCameraOn>>

\* handleError of the dashboard, and of the camera view.
HandleError(error) ==
  IF view = "dashboard"
  THEN /\ preferred' = IF error = "mse-decode" THEN "webrtc" ELSE "jsmpeg"
       /\ UNCHANGED <<webRTC, lowBandwidth>>
  ELSE /\ IF ~webRTC /\ Candidates
          THEN webRTC' = TRUE /\ lowBandwidth' = lowBandwidth
          ELSE webRTC' = FALSE /\ lowBandwidth' = TRUE
       /\ preferred' = preferred

-----------------------------------------------------------------------------
(* The players *)

PlayerIsPlaying ==
  /\ Player # "none" /\ PlaybackEnabled /\ ~started
  /\ started' = TRUE /\ liveReady' = TRUE
  /\ isReEnabling' = FALSE
  /\ loadTimer' = FALSE
  /\ offTimer' = (AutoLive /\ ~CameraActive)
  /\ UNCHANGED <<viewVars, envVars, prevCameraOn, key, events>>

\* MsePlayer reports timeouts, stalls and decoding errors, a WebRtcPlayer stalls;
\* JSMpegPlayer has no onError.
PlayerFails(error) ==
  /\ Player \in {"mse", "webrtc"} /\ PlaybackEnabled
  /\ error = "mse-decode" => Player = "mse"
  /\ HandleError(error)
  /\ UNCHANGED <<restreamed, talking, envVars, events>>
  /\ ModeChanges

\* The load timeout of a WebRtcPlayer starts with its mount, also if playback waits
\* for activity.
LoadTimeout ==
  /\ loadTimer
  /\ HandleError("stalled")
  /\ UNCHANGED <<restreamed, talking, envVars, isReEnabling, prevCameraOn, events>>
  /\ IF Mode' = Mode
     THEN loadTimer' = FALSE /\ UNCHANGED <<liveReady, offTimer, key, started>>
     ELSE Effects(TRUE, FALSE)

\* Half a second without activity: back to the still image, and to the first mode.
InactiveTimeout ==
  /\ offTimer
  /\ preferred' = IF view = "dashboard" THEN ResetMode ELSE preferred
  /\ UNCHANGED <<restreamed, webRTC, lowBandwidth, talking, envVars, events>>
  /\ Effects(TRUE, FALSE)
  /\ UNCHANGED <<isReEnabling, prevCameraOn>>

-----------------------------------------------------------------------------
(* The surroundings *)

\* Motion, tracked objects and statistics of the camera.
Activity ==
  /\ Happens
  /\ \/ activity' = ~activity /\ offline' = offline
     \/ offline' = ~offline /\ activity' = activity
  /\ UNCHANGED <<viewVars, streamType, visible, cameraOn>>
  /\ ModeChanges

\* The camera is enabled or disabled: the player is a new one in either case.
CameraEnabled ==
  /\ Happens /\ cameraOn' = ~cameraOn
  /\ UNCHANGED <<viewVars, streamType, visible, activity, offline>>
  /\ Effects(TRUE, TRUE)
  /\ isReEnabling' = IF ~prevCameraOn /\ cameraOn' THEN TRUE ELSE isReEnabling
  /\ prevCameraOn' = cameraOn'

\* The dashboard recomputes every mode when the window is shown or hidden.
WindowVisible ==
  /\ view = "dashboard" /\ Happens
  /\ visible' = ~visible
  /\ preferred' = InitialMode(restreamed)
  /\ UNCHANGED <<view, restreamed, webRTC, lowBandwidth, talking, streamType, activity, cameraOn, offline>>
  /\ ModeChanges

\* The streaming settings of a group (the camera view always streams).
SetStreamType(type) ==
  /\ view = "dashboard" /\ Happens /\ type # streamType
  /\ streamType' = type
  /\ UNCHANGED <<viewVars, visible, activity, cameraOn, offline>>
  /\ Effects(type = "no-streaming", FALSE)
  /\ UNCHANGED <<isReEnabling, prevCameraOn>>

\* Another stream of the camera, which go2rtc may not know.
SetStreamName ==
  /\ Happens /\ restreamed' \in BOOLEAN
  /\ UNCHANGED <<preferred, webRTC, lowBandwidth, talking, envVars>>
  /\ Effects(TRUE, TRUE)
  /\ UNCHANGED <<isReEnabling, prevCameraOn>>

\* The microphone button, and the link that leaves the low bandwidth mode.
ToggleMic ==
  /\ view = "camera" /\ cameraOn /\ Happens /\ talking' = ~talking
  /\ UNCHANGED <<restreamed, preferred, webRTC, lowBandwidth, envVars>>
  /\ ModeChanges

ResetStream ==
  /\ Happens /\ restreamed /\ Mode = "jsmpeg"
  /\ IF view = "dashboard" THEN preferred' = ResetMode /\ lowBandwidth' = lowBandwidth
                           ELSE lowBandwidth' = FALSE /\ preferred' = preferred
  /\ UNCHANGED <<restreamed, webRTC, talking, envVars>>
  /\ ModeChanges

-----------------------------------------------------------------------------

LivePlayerInit ==
  /\ view \in {"dashboard", "camera"}
  /\ restreamed \in BOOLEAN /\ preferred = InitialMode(restreamed)
  /\ webRTC = FALSE /\ lowBandwidth = FALSE /\ talking = FALSE
  /\ streamType = IF view = "dashboard" THEN "smart" ELSE "continuous"
  /\ visible = TRUE /\ activity \in BOOLEAN /\ cameraOn \in BOOLEAN /\ prevCameraOn = cameraOn
  /\ offline = FALSE /\ liveReady = FALSE /\ offTimer = FALSE /\ isReEnabling = FALSE /\ key = 0
  /\ started = FALSE /\ loadTimer = (Player = "webrtc") /\ events = 0

LivePlayerNext ==
  \/ PlayerIsPlaying \/ LoadTimeout \/ InactiveTimeout
  \/ \E error \in {"startup", "stalled", "mse-decode"} : PlayerFails(error)
  \/ Activity \/ CameraEnabled \/ WindowVisible \/ SetStreamName \/ ToggleMic \/ ResetStream
  \/ \E type \in {"smart", "continuous", "no-streaming"} : SetStreamType(type)

\* A timer that is not cleared fires.
LivePlayerFairness == WF_livePlayerVars(InactiveTimeout)
LivePlayerSpec == LivePlayerInit /\ [][LivePlayerNext]_livePlayerVars
LivePlayerFairSpec == LivePlayerSpec /\ LivePlayerFairness

-----------------------------------------------------------------------------
(* Properties *)

\* Some layer is shown in every combination of settings, outages and players, the still
\* one is reloaded, and it is taken away only for a player that has a picture: a change of
\* mode, stream or setting never leaves liveReady behind for a new, black player.
LiveHasPicture ==
  /\ Layers # {} /\ (liveReady => Player # "none" /\ started)
  /\ "still" \in Layers /\ visible /\ ~offline => StillReloadInterval > 0

\* Every live picture nobody needs any more is given up.
QuietIsReleased == (liveReady /\ ~CameraActive) ~> (~liveReady \/ CameraActive)
=============================================================================
