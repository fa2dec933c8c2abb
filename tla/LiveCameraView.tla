--------------------------- MODULE LiveCameraView ---------------------------
(***************************************************************************)
(* The view of a single camera around its player: the manual event, the    *)
(* switches of the camera's features, sound, microphone and picture in     *)
(* picture, and the pan-tilt-zoom panel.  Every handler is reached through *)
(* a control that the layout shows or hides; the layout is the guard.      *)
(* (LivePlayer models the mode of the player and its errors.)              *)
(***************************************************************************)
EXTENDS Integers, FiniteSets

CONSTANTS
  Admin,
  Presets,      \* number of presets of the camera
  MaxActs,      \* bound: things the user does
  MaxManual     \* bound: manual events created

ASSUME LiveViewAssumption ==
  /\ Admin \in BOOLEAN /\ Presets \in 0..9 /\ MaxActs \in Nat /\ MaxManual \in Nat

VARIABLES
  desktop,      \* desktop or tablet, rather than a phone
  viewMounted, fullscreen, orientation,
  streamName, micButton, audio, pip, jsmpeg,    \* jsmpeg: the mode the player ended in
  playInBackground, showStats,
  feature, command,                       \* what the page was told, and what it asked for
  clickOverlay, moving,                   \* moving: the last movement sent, if no STOP followed
  isRecording, recordingEventId,          \* state, and the ref (0: null)
  eventPosts, manual,                          \* requests to create; state of each event at the server
  eventEnds,                                   \* requests to end each event
  acts

viewLayout == <<desktop, fullscreen, orientation>>
viewSound  == <<micButton, audio, pip, jsmpeg>>
viewMenu   == <<streamName, playInBackground, showStats>>
viewPtz    == <<clickOverlay, moving>>
viewManual == <<isRecording, recordingEventId, eventPosts, manual, eventEnds>>
viewToggle == <<feature, command>>
liveViewVars ==
  <<desktop, viewMounted, fullscreen, orientation, streamName, micButton, audio, pip, jsmpeg, playInBackground,
    showStats, feature, command, clickOverlay, moving, isRecording, recordingEventId, eventPosts, manual,
    eventEnds, acts>>

\* Streams of the camera: one that can be talked to, one with sound only, and one that
\* go2rtc does not have.
Streams == {"talk", "sound", "plain"}
IsRestreamed == streamName # "plain"
Supports2WayTalk == streamName = "talk"
SupportsAudioOutput == streamName \in {"talk", "sound"}

Features == {"enabled", "detect", "recordings", "snapshots", "audio", "ptz_autotracker"}
Opposite(value) == IF value = "ON" THEN "OFF" ELSE "ON"
CameraEnabled_View == feature["enabled"] = "ON"
Moves == {"MOVE_LEFT", "MOVE_RIGHT", "MOVE_UP", "MOVE_DOWN", "ZOOM_IN", "ZOOM_OUT"}

LiveViewTypeOK ==
  /\ {desktop, viewMounted, fullscreen, micButton, audio, pip, jsmpeg, playInBackground, showStats, clickOverlay,
      isRecording} \subseteq BOOLEAN
  /\ orientation \in {"any", "best"} /\ streamName \in Streams
  /\ feature \in [Features -> {"ON", "OFF"}] /\ command \in [Features -> {"none", "ON", "OFF"}]
  /\ moving \in Moves \cup {"STOP"} /\ recordingEventId \in 0..MaxManual /\ eventPosts \in Nat
  /\ manual \in [1..MaxManual -> {"none", "open", "ended"}] /\ eventEnds \in [1..MaxManual -> Nat]
  /\ acts \in 0..MaxActs

LiveViewInit ==
  /\ desktop \in BOOLEAN
  /\ viewMounted = TRUE /\ fullscreen = FALSE /\ orientation = "any"
  /\ streamName = "talk" /\ micButton = FALSE /\ audio = FALSE /\ pip = FALSE /\ jsmpeg = FALSE
  /\ playInBackground = FALSE /\ showStats = FALSE
  /\ feature = [f \in Features |-> "ON"] /\ command = [f \in Features |-> "none"]
  /\ clickOverlay = FALSE /\ moving = "STOP"
  /\ isRecording = FALSE /\ recordingEventId = 0 /\ eventPosts = 0
  /\ manual = [i \in 1..MaxManual |-> "none"] /\ eventEnds = [i \in 1..MaxManual |-> 0] /\ acts = 0

-----------------------------------------------------------------------------
(* The controls that are shown and not disabled *)

HeaderControls ==
  {"fullscreen", "back"} \cup (IF ~fullscreen THEN {"history"} ELSE {})
  \cup (IF ~jsmpeg /\ CameraEnabled_View THEN {"pip"} ELSE {})
  \cup (IF Supports2WayTalk /\ CameraEnabled_View THEN {"mic"} ELSE {})
  \cup (IF SupportsAudioOutput /\ ~jsmpeg /\ CameraEnabled_View THEN {"audio"} ELSE {})

\* Icons in the row; all but the first need an enabled camera.
DesktopControls ==
  (IF Admin THEN IF CameraEnabled_View THEN Features ELSE {"enabled"} ELSE {})
  \cup (IF CameraEnabled_View THEN {"manual"} ELSE {})

\* The menu of the gear: stream, reset, background play, statistics.
DesktopMenu ==
  {"stats", "debug"} \cup (IF IsRestreamed THEN {"stream", "background"} ELSE {})
  \cup (IF IsRestreamed /\ jsmpeg THEN {"reset"} ELSE {})

\* The drawer has them all, is not shown in fullscreen, and disables nothing.
MobileControls ==
  IF fullscreen THEN {}
  ELSE (IF Admin THEN Features ELSE {}) \cup {"manual", "debug"}
MobileStreamControls ==
  IF fullscreen \/ ~IsRestreamed THEN {}
  ELSE {"stream", "background", "stats"} \cup (IF jsmpeg THEN {"reset"} ELSE {})

PtzControls ==
  IF CameraEnabled_View THEN Moves \cup {"overlay"} ELSE {}
PresetControls == IF CameraEnabled_View THEN 1..Presets ELSE {}

Controls == HeaderControls \cup
            (IF desktop THEN DesktopControls \cup DesktopMenu
                        ELSE MobileControls \cup MobileStreamControls)

User(control) == viewMounted /\ control \in Controls /\ acts < MaxActs /\ acts' = acts + 1
Keyboard == viewMounted /\ acts < MaxActs /\ acts' = acts + 1

-----------------------------------------------------------------------------
(* The manual event *)

\* createEvent waits for the answer, which brings the id.
CreateEvent ==
  /\ eventPosts' = eventPosts + 1
  /\ UNCHANGED <<isRecording, recordingEventId, manual, eventEnds>>

CreateAnswered ==
  /\ eventPosts > 0 /\ eventPosts' = eventPosts - 1
  /\ \/ \E i \in 1..MaxManual :
          /\ manual[i] = "none" /\ \A j \in 1..i - 1 : manual[j] # "none"
          /\ manual' = [manual EXCEPT ![i] = "open"]
          /\ recordingEventId' = i /\ isRecording' = TRUE
     \/ UNCHANGED <<manual, recordingEventId, isRecording>>
  /\ UNCHANGED <<viewMounted, viewLayout, viewSound, viewMenu, viewPtz, viewToggle, eventEnds, acts>>

\* Mutant: the id of the event is kept.
EndEvent_KeepsId ==
  IF recordingEventId # 0
  THEN /\ manual' = [manual EXCEPT ![recordingEventId] = "ended"]
       /\ eventEnds' = [eventEnds EXCEPT ![recordingEventId] = @ + 1]
       /\ isRecording' = FALSE /\ UNCHANGED <<recordingEventId, eventPosts>>
  ELSE UNCHANGED viewManual

\* endEvent does not wait for its request.
EndEvent ==
  IF recordingEventId # 0
  THEN /\ manual' = [manual EXCEPT ![recordingEventId] = "ended"]
       /\ eventEnds' = [eventEnds EXCEPT ![recordingEventId] = @ + 1]
       /\ recordingEventId' = 0 /\ isRecording' = FALSE /\ eventPosts' = eventPosts
  ELSE UNCHANGED viewManual

HandleEventButtonClick ==
  /\ User("manual")
  /\ IF isRecording THEN EndEvent ELSE CreateEvent
  /\ UNCHANGED <<viewMounted, viewLayout, viewSound, viewMenu, viewPtz, viewToggle>>

UnmountView ==
  /\ viewMounted /\ viewMounted' = FALSE
  /\ EndEvent
  /\ orientation' = "any" /\ UNCHANGED <<desktop, fullscreen>>
  /\ UNCHANGED <<viewSound, viewMenu, viewPtz, viewToggle, acts>>

-----------------------------------------------------------------------------
(* The features *)

Toggle(f) ==
  /\ User(f)
  /\ command' = [command EXCEPT ![f] = Opposite(feature[f])]
  /\ UNCHANGED <<viewMounted, viewLayout, viewSound, viewMenu, viewPtz, viewManual, feature>>

StateMessage(f) ==
  /\ command[f] # "none"
  /\ feature' = [feature EXCEPT ![f] = command[f]]
  /\ command' = [command EXCEPT ![f] = "none"]
  /\ UNCHANGED <<viewMounted, viewLayout, viewSound, viewMenu, viewPtz, viewManual, acts>>

-----------------------------------------------------------------------------
(* Sound and picture *)

\* The button turns the sound on with the microphone, the key T does not, and the keys
\* do not look at cameraEnabled.
ToggleMicButton ==
  /\ User("mic")
  /\ micButton' = ~micButton /\ audio' = (audio \/ ~micButton)
  /\ UNCHANGED <<viewMounted, viewLayout, pip, jsmpeg, viewMenu, viewPtz, viewManual, viewToggle>>

SoundKeys ==
  /\ Keyboard
  /\ \/ SupportsAudioOutput /\ audio' = ~audio /\ micButton' = micButton
     \/ Supports2WayTalk /\ micButton' = ~micButton /\ audio' = audio
  /\ UNCHANGED <<viewMounted, viewLayout, pip, jsmpeg, viewMenu, viewPtz, viewManual, viewToggle>>

ToggleAudioButton ==
  /\ User("audio") /\ audio' = ~audio
  /\ UNCHANGED <<viewMounted, viewLayout, micButton, pip, jsmpeg, viewMenu, viewPtz, viewManual, viewToggle>>

TogglePip ==
  /\ User("pip") /\ pip' = ~pip
  /\ UNCHANGED <<viewMounted, viewLayout, micButton, audio, jsmpeg, viewMenu, viewPtz, viewManual, viewToggle>>

\* The player falls back (its error), or the link of the menu resets it.
ModeFallsBack ==
  /\ viewMounted /\ ~jsmpeg /\ ~micButton /\ jsmpeg' = TRUE
  /\ UNCHANGED <<viewMounted, viewLayout, micButton, audio, pip, viewMenu, viewPtz, viewManual, viewToggle,
                 acts>>
ResetLowBandwidth ==
  /\ User("reset") /\ jsmpeg' = FALSE
  /\ UNCHANGED <<viewMounted, viewLayout, micButton, audio, pip, viewMenu, viewPtz, viewManual, viewToggle>>

MenuSettings ==
  /\ \/ /\ User("stream") /\ streamName' \in Streams \ {streamName}
        /\ UNCHANGED <<playInBackground, showStats>>
     \/ /\ User("background") /\ playInBackground' = ~playInBackground
        /\ UNCHANGED <<streamName, showStats>>
     \/ /\ User("stats") /\ showStats' = ~showStats
        /\ UNCHANGED <<streamName, playInBackground>>
  /\ UNCHANGED <<viewMounted, viewLayout, viewSound, viewPtz, viewManual, viewToggle>>

\* The effect on fullscreen locks the orientation, its cleanup unlocks it.
ToggleFullscreen ==
  /\ User("fullscreen") /\ fullscreen' = ~fullscreen
  /\ orientation' = IF fullscreen' THEN "best" ELSE "any"
  /\ UNCHANGED <<desktop, viewMounted, viewSound, viewMenu, viewPtz, viewManual, viewToggle>>

-----------------------------------------------------------------------------
(* Pan, tilt and zoom *)

\* A pressed button moves the camera, its release stops it; a pointer that leaves the
\* button before the release stops nothing.
PtzPress ==
  /\ Keyboard
  /\ \E m \in Moves \cap PtzControls : moving' = m
  /\ UNCHANGED <<viewMounted, viewLayout, viewSound, viewMenu, clickOverlay, viewManual, viewToggle>>

PtzRelease ==
  /\ moving # "STOP" /\ viewMounted /\ moving' = "STOP"
  /\ UNCHANGED <<viewMounted, viewLayout, viewSound, viewMenu, clickOverlay, viewManual, viewToggle,
                 acts>>

\* Keys move and stop whether the camera is enabled or not; a digit is a preset.
PtzKey ==
  /\ Keyboard
  /\ \/ \E m \in Moves : moving' = m
     \/ \E n \in 1..9 : n \in PresetControls /\ moving' = moving
  /\ UNCHANGED <<viewMounted, viewLayout, viewSound, viewMenu, clickOverlay, viewManual, viewToggle>>

ToggleClickOverlay ==
  /\ Keyboard /\ "overlay" \in PtzControls /\ clickOverlay' = ~clickOverlay
  /\ UNCHANGED <<viewMounted, viewLayout, viewSound, viewMenu, moving, viewManual, viewToggle>>

LiveViewNext ==
  \/ HandleEventButtonClick \/ CreateAnswered \/ UnmountView
  \/ \E f \in Features : Toggle(f) \/ StateMessage(f)
  \/ ToggleMicButton \/ SoundKeys \/ ToggleAudioButton \/ TogglePip
  \/ ModeFallsBack \/ ResetLowBandwidth \/ MenuSettings \/ ToggleFullscreen
  \/ PtzPress \/ PtzRelease \/ PtzKey \/ ToggleClickOverlay

LiveViewSpec == LiveViewInit /\ [][LiveViewNext]_liveViewVars

-----------------------------------------------------------------------------
(* Properties *)

\* The page asks for the end of a manual event once, and only of one that is open: not
\* again when it is left.
EndedOnce == \A i \in 1..MaxManual : eventEnds[i] <= 1
=============================================================================
