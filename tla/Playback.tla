-------------------------------- MODULE Playback --------------------------------
(***************************************************************************)
(* The recordings of a camera played along a timeline that is cut into     *)
(* chunks.  A time clicked, dragged to or reached by playing selects a     *)
(* chunk; its recordings are fetched, a controller made for the video      *)
(* element translates times to positions, and the element loads the source *)
(* of the chunk: three things that come back in any order.                 *)
(***************************************************************************)
EXTENDS Integers

CONSTANTS
  Chunks,       \* chunks of the time range, 1 .. Chunks
  Span,         \* a chunk is Span times long; its first time is 0 in its video
  MaxPlayActs   \* bound: things the user does

ASSUME PlaybackAssumption == {Chunks, Span} \subseteq Nat \ {0} /\ MaxPlayActs \in Nat

\* What a camera may have: every chunk recorded, or not the last one, or none.
Recordings == {1..Chunks, 1..Chunks - 1, {}}

VARIABLES
  rv,       \* RecordingView: idx (selectedRangeIdx), currentTime, playerTime, start (playbackStart),
            \* scrubbing, exportMode, exportRange, which controller it was given
  recorded, \* chunks that have recordings
  dvp,      \* DynamicVideoPlayer: recordings of the chunk here, loading timers, what it shows
  mainCtl,      \* DynamicVideoController
  media,    \* the <video> element: its source, position, and whether it is paused
  ui,       \* the controls over the video
  clickedTime,   \* ghost: the time last clicked while nothing was loading, until it plays
  playActs

playVars == <<rv, recorded, dvp, mainCtl, media, ui, clickedTime, playActs>>

NoTime == -1
Times == 0..(Chunks * Span - 1)
ChunkOf(t) == t \div Span + 1
Position(t) == t % Span
TimeAt(chunk, at) == (chunk - 1) * Span + at

NewController == [made |-> FALSE, range |-> NoTime, mode |-> "playback", timeToStart |-> NoTime]
NewPlayer == [recordings |-> FALSE, timers |-> 1, loading |-> FALSE, buffering |-> FALSE, noRecording |-> FALSE]
\* More than two loading timers behave like two.
MaxTimers == 2
More(timers) == IF timers < MaxTimers THEN timers + 1 ELSE timers
Load(chunk, paused) == [ready |-> FALSE, chunk |-> chunk, at |-> 0, paused |-> paused]

PlaybackTypeOK ==
  /\ rv \in [idx : 1..Chunks, currentTime : Times, playerTime : Times, start : Times, scrubbing : BOOLEAN,
             exportMode : {"none", "select", "timeline"}, exportRange : BOOLEAN, controller : {"none", "old", "this"}]
  /\ recorded \subseteq 1..Chunks
  /\ dvp \in [recordings : BOOLEAN, timers : 0..MaxTimers, loading : BOOLEAN, buffering : BOOLEAN,
              noRecording : BOOLEAN]
  /\ mainCtl \in [made : BOOLEAN, range : 1..Chunks \cup {NoTime}, mode : {"playback", "scrubbing"},
              timeToStart : Times \cup {NoTime}]
  /\ media \in [ready : BOOLEAN, chunk : 1..Chunks, at : 0..Span - 1, paused : BOOLEAN]
  /\ ui \in [muted : BOOLEAN, fast : BOOLEAN, open : BOOLEAN, full : BOOLEAN, plus : BOOLEAN, tab : {"timeline", "events"}]
  /\ clickedTime \in Times \cup {NoTime} /\ playActs \in 0..MaxPlayActs

\* The view starts at any time.
FirstViews ==
  {[idx |-> ChunkOf(t), currentTime |-> t, playerTime |-> t, start |-> t, scrubbing |-> FALSE,
    exportMode |-> "none", exportRange |-> FALSE, controller |-> "none"] : t \in Times}

PlaybackInit ==
  /\ rv \in FirstViews
  /\ recorded \in Recordings
  /\ dvp = NewPlayer /\ mainCtl = NewController /\ media = Load(rv.idx, FALSE)
  /\ ui = [muted |-> TRUE, fast |-> FALSE, open |-> FALSE, full |-> FALSE, plus |-> FALSE, tab |-> "timeline"]
  /\ clickedTime = NoTime /\ playActs = 0

PlayAct == playActs < MaxPlayActs /\ playActs' = playActs + 1
IsScrubbing(r) == r.scrubbing \/ r.exportMode = "timeline"
PlayerReady == dvp.recordings /\ media.ready

-----------------------------------------------------------------------------
(* The controller; each operator gives its and the element's next state *)

\* A time outside the controller's chunk waits for the next one; the very first position of
\* a chunk is not sought at all.
SeekToTimestamp(c, m, t, play) ==
  IF c.range = NoTime \/ ChunkOf(t) # c.range THEN [c |-> [c EXCEPT !.timeToStart = t], m |-> m]
  ELSE [c |-> [c EXCEPT !.mode = "playback"],
        m |-> IF Position(t) = 0 THEN m ELSE [m EXCEPT !.at = Position(t), !.paused = ~play]]

PlayRecordings(c, m, chunk) ==
  LET at == [c EXCEPT !.range = chunk]
      r == SeekToTimestamp(at, m, c.timeToStart, FALSE)
  IN IF c.timeToStart > 0 THEN [c |-> [r.c EXCEPT !.timeToStart = NoTime], m |-> r.m] ELSE [c |-> at, m |-> m]

\* What RecordingView asks of the controller it was given: one of a removed player does nothing.
Asked(r) == rv.controller = "this" /\ mainCtl' = r.c /\ media' = r.m
NotAsked == rv.controller # "this" /\ UNCHANGED <<mainCtl, media>>
AskRecordings(r) == Asked(r) \/ NotAsked

\* The effect on recordings: the new source, then the controller.
VideoPlays(c) ==
  LET r == PlayRecordings(c, media, rv.idx)
  IN /\ mainCtl' = r.c /\ dvp' = [dvp EXCEPT !.recordings = TRUE, !.timers = More(@)]
     /\ media' = IF media.chunk = rv.idx THEN r.m ELSE Load(rv.idx, IsScrubbing(rv))

RecordingsArrive ==
  /\ ~dvp.recordings
  /\ IF rv.idx \notin recorded
     THEN dvp' = [dvp EXCEPT !.recordings = TRUE, !.noRecording = TRUE] /\ UNCHANGED <<mainCtl, media>>
     ELSE IF mainCtl.made THEN VideoPlays(mainCtl)
     ELSE dvp' = [dvp EXCEPT !.recordings = TRUE] /\ UNCHANGED <<mainCtl, media>>
  /\ UNCHANGED <<rv, recorded, ui, clickedTime, playActs>>

\* The preview's controller is ready: this one can be made.
ControllerReady ==
  /\ ~mainCtl.made /\ rv' = [rv EXCEPT !.controller = "this"]
  /\ LET c == [NewController EXCEPT !.made = TRUE, !.mode = IF IsScrubbing(rv) THEN "scrubbing" ELSE "playback"]
     IN IF dvp.recordings /\ rv.idx \in recorded THEN VideoPlays(c) ELSE mainCtl' = c /\ UNCHANGED <<dvp, media>>
  /\ UNCHANGED <<recorded, ui, clickedTime, playActs>>

OnPlayerLoaded ==
  /\ ~media.ready /\ media.chunk \in recorded
  /\ LET shown == [media EXCEPT !.ready = TRUE]
         r == SeekToTimestamp(mainCtl, shown, rv.start, TRUE)
     IN IF mainCtl.made /\ rv.start > 0 THEN mainCtl' = r.c /\ media' = r.m ELSE media' = shown /\ UNCHANGED mainCtl
  /\ UNCHANGED <<rv, recorded, dvp, ui, clickedTime, playActs>>

-----------------------------------------------------------------------------
(* What the element reports *)

\* onPlaying and onTimeUpdate; the time is reckoned in the controller's chunk.  With a range
\* chosen for export the time that moves is scrubbed to, which pauses the player once.
TimeUpdate ==
  /\ media.ready /\ ~media.paused /\ media.at < Span - 1
  /\ \E follows \in IF rv.exportRange /\ ~IsScrubbing(rv) /\ mainCtl.mode = "playback" THEN BOOLEAN ELSE {FALSE} :
       /\ media' = [media EXCEPT !.at = @ + 1, !.paused = IsScrubbing(rv) \/ follows]
       /\ mainCtl' = IF follows THEN [mainCtl EXCEPT !.mode = "scrubbing"] ELSE mainCtl
  /\ dvp' = [dvp EXCEPT !.timers = IF @ > 0 THEN @ - 1 ELSE 0, !.noRecording = FALSE,
                        !.loading = @ /\ (IsScrubbing(rv) \/ ~mainCtl.made),
                        !.buffering = @ /\ (IsScrubbing(rv) \/ ~mainCtl.made)]
  /\ IF IsScrubbing(rv) \/ mainCtl.range = NoTime THEN UNCHANGED rv
     ELSE LET t == TimeAt(mainCtl.range, media'.at) IN rv' = [rv EXCEPT !.currentTime = t, !.playerTime = t]
  /\ clickedTime' = IF clickedTime = TimeAt(media.chunk, media.at) THEN NoTime ELSE clickedTime
  /\ UNCHANGED <<recorded, ui, playActs>>

OnClipEnded_PastLast ==
  /\ media.ready /\ ~media.paused /\ media.at = Span - 1 /\ media' = [media EXCEPT !.paused = TRUE]
  /\ rv' = [rv EXCEPT !.idx = @ + 1] /\ dvp' = [dvp EXCEPT !.recordings = FALSE]
  /\ clickedTime' = NoTime /\ UNCHANGED <<recorded, mainCtl, ui, playActs>>

OnClipEnded ==
  /\ media.ready /\ ~media.paused /\ media.at = Span - 1 /\ media' = [media EXCEPT !.paused = TRUE]
  /\ IF rv.controller # "none" /\ rv.idx < Chunks
     THEN rv' = [rv EXCEPT !.idx = @ + 1] /\ dvp' = [dvp EXCEPT !.recordings = FALSE]
     ELSE UNCHANGED <<rv, dvp>>
  /\ clickedTime' = NoTime /\ UNCHANGED <<recorded, mainCtl, ui, playActs>>

LoadingTimeout ==
  /\ dvp.timers > 0 /\ dvp' = [dvp EXCEPT !.timers = @ - 1, !.loading = TRUE]
  /\ UNCHANGED <<rv, recorded, mainCtl, media, ui, clickedTime, playActs>>

OnWaiting ==
  /\ media.ready /\ ~media.paused /\ ~dvp.buffering
  /\ dvp' = [dvp EXCEPT !.buffering = ~IsScrubbing(rv)] /\ dvp' # dvp
  /\ UNCHANGED <<rv, recorded, mainCtl, media, ui, clickedTime, playActs>>

-----------------------------------------------------------------------------
(* The timeline *)

UpdateSelectedSegment_KeepsStart(r, t, updateStartTime) == [r EXCEPT !.idx = ChunkOf(t)]
UpdateSelectedSegment(r, t, updateStartTime) ==
  [r EXCEPT !.idx = ChunkOf(t), !.start = IF updateStartTime THEN t ELSE @]

Selects(r) ==
  /\ rv' = r
  /\ dvp' = IF r.idx = rv.idx THEN dvp ELSE [dvp EXCEPT !.recordings = FALSE]

\* A click on the timeline or on a review item; the effect on currentTime asks for the same.
ManuallySetCurrentTime(t) ==
  /\ PlayAct /\ ~rv.scrubbing
  /\ IF ChunkOf(t) = rv.idx THEN Selects([rv EXCEPT !.currentTime = t])
                            ELSE Selects(UpdateSelectedSegment([rv EXCEPT !.currentTime = t], t, TRUE))
  /\ AskRecordings(SeekToTimestamp(mainCtl, media, t, TRUE))
  /\ clickedTime' = IF PlayerReady /\ mainCtl.made /\ media.chunk = rv.idx /\ mainCtl.range = rv.idx
                  /\ ChunkOf(t) \in recorded /\ Position(t) > 0 THEN t ELSE NoTime
  /\ UNCHANGED <<recorded, ui>>

\* The handlebar is dragged: previews follow, and the player pauses if its preview can.
ScrubMain(t) ==
  /\ PlayAct /\ ~rv.exportRange
  /\ \E follows \in BOOLEAN :
       IF ChunkOf(t) # rv.idx
       THEN /\ Selects(UpdateSelectedSegment([rv EXCEPT !.currentTime = t, !.scrubbing = TRUE], t, FALSE))
            /\ UNCHANGED <<mainCtl, media>>
       ELSE /\ Selects([rv EXCEPT !.currentTime = t, !.scrubbing = TRUE])
            /\ IF follows /\ mainCtl.mode = "playback"
               THEN AskRecordings([c |-> [mainCtl EXCEPT !.mode = "scrubbing"], m |-> [media EXCEPT !.paused = TRUE]])
               ELSE UNCHANGED <<mainCtl, media>>
  /\ clickedTime' = NoTime /\ UNCHANGED <<recorded, ui>>

Release ==
  /\ rv.scrubbing
  /\ LET released == [rv EXCEPT !.scrubbing = FALSE]
         t == rv.currentTime
     IN IF t = rv.playerTime THEN rv' = released /\ UNCHANGED <<mainCtl, media>> /\ dvp' = [dvp EXCEPT !.timers = More(@)]
        ELSE IF ChunkOf(t) = rv.idx
        THEN rv' = released /\ AskRecordings(SeekToTimestamp(mainCtl, media, t, TRUE)) /\ dvp' = [dvp EXCEPT !.timers = More(@)]
        ELSE /\ rv' = UpdateSelectedSegment(released, t, TRUE) /\ UNCHANGED <<mainCtl, media>>
             /\ dvp' = [dvp EXCEPT !.timers = More(@), !.recordings = FALSE]
  /\ UNCHANGED <<recorded, ui, clickedTime, playActs>>

\* Another camera: the player, keyed by the camera, is made anew.
OnSelectCamera ==
  /\ PlayAct /\ ~rv.scrubbing
  /\ rv' = [rv EXCEPT !.start = rv.currentTime, !.controller = IF @ = "none" THEN @ ELSE "old"]
  /\ recorded' \in Recordings
  /\ dvp' = [NewPlayer EXCEPT !.timers = IF IsScrubbing(rv) THEN 0 ELSE 1]
  /\ mainCtl' = NewController /\ media' = Load(rv.idx, FALSE)
  /\ clickedTime' = NoTime /\ UNCHANGED ui

\* An export: its range pauses the player; on the timeline its handles move the time.
SetExport(mode, range) ==
  /\ PlayAct /\ ~rv.scrubbing /\ <<mode, range>> # <<rv.exportMode, rv.exportRange>>
  /\ mode = "timeline" => range
  /\ LET r == [rv EXCEPT !.exportMode = mode, !.exportRange = range]
     IN /\ rv' = r
        /\ dvp' = IF IsScrubbing(rv) /\ ~IsScrubbing(r) THEN [dvp EXCEPT !.timers = More(@)] ELSE dvp
  /\ media' = IF range /\ ~rv.exportRange /\ rv.controller = "this" THEN [media EXCEPT !.paused = TRUE] ELSE media
  /\ clickedTime' = NoTime /\ UNCHANGED <<recorded, mainCtl, ui>>

MoveExportHandle(t) ==
  /\ PlayAct /\ rv.exportMode = "timeline" /\ t # rv.currentTime
  /\ IF ChunkOf(t) = rv.idx THEN Selects([rv EXCEPT !.currentTime = t])
                            ELSE Selects(UpdateSelectedSegment([rv EXCEPT !.currentTime = t], t, TRUE))
  /\ AskRecordings(SeekToTimestamp(mainCtl, media, t, TRUE))
  /\ clickedTime' = NoTime /\ UNCHANGED <<recorded, ui>>

-----------------------------------------------------------------------------
(* The controls: shown over a visible player, and as keys unless a range is being chosen *)

PlayerVisible == ~IsScrubbing(rv) /\ ~dvp.loading
VideoControls ==
  (IF PlayerVisible THEN {"mute", "back", "play", "skip", "rate", "full", "plus"} ELSE {})
  \cup (IF rv.exportMode # "select" THEN {"mute", "back", "play", "skip", "full"} ELSE {})

OnSeek(diff) ==
  IF media.at = 0 \/ media.at + diff \notin 0..Span - 1 THEN media ELSE [media EXCEPT !.at = @ + diff]

OnPlayPause == PlayAct /\ "play" \in VideoControls /\ media' = [media EXCEPT !.paused = ~@] /\ UNCHANGED ui
OnSkip(diff) == PlayAct /\ {"back", "skip"} \subseteq VideoControls /\ media' = OnSeek(diff) /\ UNCHANGED ui
ToggleControl ==
  /\ PlayAct /\ UNCHANGED media
  /\ \/ "mute" \in VideoControls /\ ui' = [ui EXCEPT !.muted = ~@]
     \/ "rate" \in VideoControls /\ ui' = [ui EXCEPT !.fast = ~@, !.open = FALSE]
     \/ "full" \in VideoControls /\ ui' = [ui EXCEPT !.full = ~@]
     \/ ~rv.exportRange /\ ui' = [ui EXCEPT !.tab = IF @ = "timeline" THEN "events" ELSE "timeline"]

\* Asking to send the frame to Frigate+ pauses the video and keeps the controls open.
PlusUpload ==
  /\ PlayAct
  /\ \/ /\ "plus" \in VideoControls /\ ~ui.plus
        /\ ui' = [ui EXCEPT !.plus = TRUE, !.open = TRUE] /\ media' = [media EXCEPT !.paused = TRUE]
     \/ ui.plus /\ ui' = [ui EXCEPT !.plus = FALSE, !.open = FALSE] /\ UNCHANGED media

UseControls ==
  /\ OnPlayPause \/ (\E diff \in {-1, 1} : OnSkip(diff)) \/ ToggleControl \/ PlusUpload
  /\ clickedTime' = NoTime /\ UNCHANGED <<rv, recorded, dvp, mainCtl>>

PlaybackNext ==
  \/ RecordingsArrive \/ ControllerReady \/ OnPlayerLoaded \/ TimeUpdate \/ OnClipEnded \/ LoadingTimeout \/ OnWaiting
  \/ \E t \in Times : ManuallySetCurrentTime(t) \/ ScrubMain(t) \/ MoveExportHandle(t)
  \/ Release \/ OnSelectCamera
  \/ \E mode \in {"none", "select", "timeline"}, range \in BOOLEAN : SetExport(mode, range)
  \/ UseControls

PlaybackSpec == PlaybackInit /\ [][PlaybackNext]_playVars

-----------------------------------------------------------------------------
(* Properties *)

\* A time clicked while nothing is loading is where the player is once the recordings and
\* the source of its chunk are there, whatever the old video plays meanwhile and in whatever
\* order they come; unless the old video comes to its end meanwhile.
ClickIsReached ==
  PlayerReady /\ clickedTime # NoTime => media.chunk = ChunkOf(clickedTime) /\ media.at = Position(clickedTime)
=============================================================================
