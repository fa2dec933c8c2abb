------------------------------ MODULE PreviewScrub ------------------------------
(***************************************************************************)
(* The preview of a camera that is scrubbed along the timeline.  A past    *)
(* hour has one low-rate video: a controller that belongs to the video     *)
(* element turns times into seeks, one at a time, and remembers the last   *)
(* one asked for meanwhile.  The current hour has single frames.  Another  *)
(* hour changes the video's source behind a still of the last picture.     *)
(***************************************************************************)
EXTENDS Integers

CONSTANTS
  CurrentHour,  \* hours are numbered from 1
  Recorded,     \* hours that have a preview video
  Length,       \* seconds of a preview: a time is an hour and an offset in 0..Length
  MaxScrubs     \* bound: times scrubbed to, hours chosen, and disappearances

ASSUME PreviewAssumption ==
  /\ {CurrentHour, Length, MaxScrubs} \subseteq Nat /\ Recorded \subseteq 1..CurrentHour

VARIABLES
  pv,       \* the player: hour (timeRange), startTime, visible, currentPreview, videoSize known,
            \* changeover timers (and whether the last one is remembered), currentHourFrame
  video,    \* the <video> element: what it does, its source, position, the seek under way
  ctl,      \* the PreviewVideoController, and seeked events it has not been told of
  frames,   \* the frames player: its image, and its PreviewFramesController
  scrubs

pvVars == <<pv, video, ctl, frames, scrubs>>

Nil == -1
Hours == 1..CurrentHour
Offsets == 0..Length
NoVideo == [does |-> "absent", hour |-> Nil, at |-> 0, seek |-> Nil]
NoController ==
  [made |-> FALSE, preview |-> Nil, seeking |-> FALSE, timeToSeek |-> Nil, newPreviewLoaded |-> TRUE, seeked |-> 0]
NoFrames == [made |-> FALSE, src |-> Nil, loading |-> FALSE, seeking |-> FALSE, timeToSeek |-> Nil]

PreviewTypeOK ==
  /\ pv \in [hour : Hours, start : Offsets, visible : BOOLEAN, current : Hours \cup {Nil}, sized : BOOLEAN,
             timers : 0..MaxScrubs, remembered : BOOLEAN, frame : {"none", "loading", "shown"}]
  /\ video \in [does : {"absent", "loading", "ready"}, hour : Hours \cup {Nil}, at : Offsets, seek : Offsets \cup {Nil}]
  /\ ctl \in [made : BOOLEAN, preview : Hours \cup {Nil}, seeking : BOOLEAN, timeToSeek : Offsets \cup {Nil},
              newPreviewLoaded : BOOLEAN, seeked : 0..MaxScrubs + 2]
  /\ frames \in [made : BOOLEAN, src : Offsets \cup {Nil}, loading : BOOLEAN, seeking : BOOLEAN,
                 timeToSeek : Offsets \cup {Nil}]
  /\ scrubs \in 0..MaxScrubs

\* The video of the hour, else its frames if it is the current one, else nothing.
Player(h) == IF h \in Recorded THEN "video" ELSE IF h = CurrentHour THEN "frames" ELSE "none"

Mounted(p) == [p EXCEPT !.current = p.hour, !.sized = FALSE, !.timers = 0, !.remembered = FALSE,
                        !.frame = IF @ = "none" THEN @ ELSE "loading"]
Appears(p) == IF p.visible THEN [NoVideo EXCEPT !.does = "loading", !.hour = p.current] ELSE NoVideo

\* The player is mounted at any hour, and told to start at its beginning or later.
FirstPreviews ==
  {Mounted([hour |-> h, start |-> s, visible |-> TRUE, current |-> Nil, sized |-> FALSE, timers |-> 0,
            remembered |-> FALSE, frame |-> "none"]) : h \in Hours, s \in {0, Length}}

PreviewInit ==
  /\ pv \in FirstPreviews
  /\ video = IF Player(pv.hour) = "video" THEN Appears(pv) ELSE NoVideo
  /\ ctl = NoController /\ frames = NoFrames /\ scrubs = 0

Use == scrubs < MaxScrubs /\ scrubs' = scrubs + 1

-----------------------------------------------------------------------------
(* The video's controller *)

Seek(v, o) == [v EXCEPT !.seek = o]
Loads(v, h) == [NoVideo EXCEPT !.does = IF v.does = "absent" THEN "absent" ELSE "loading",
                               !.hour = IF v.does = "absent" THEN Nil ELSE h]

\* A time of 0 counts as no time to seek to.
FinishedSeeking_NotReset(c, v) ==
  IF v.does = "absent" \/ c.preview = Nil THEN [c |-> c, v |-> v]
  ELSE IF c.timeToSeek > 0
  THEN IF c.timeToSeek # v.at THEN [c |-> c, v |-> Seek(v, c.timeToSeek)]
       ELSE [c |-> [c EXCEPT !.timeToSeek = Nil], v |-> v]
  ELSE [c |-> [c EXCEPT !.seeking = FALSE], v |-> v]
FinishedSeeking(c, v) ==
  IF v.does = "absent" \/ c.preview = Nil THEN [c |-> c, v |-> v]
  ELSE IF c.timeToSeek > 0
  THEN IF c.timeToSeek # v.at THEN [c |-> c, v |-> Seek(v, c.timeToSeek)]
       ELSE [c |-> [c EXCEPT !.seeking = FALSE, !.timeToSeek = Nil], v |-> v]
  ELSE [c |-> [c EXCEPT !.seeking = FALSE], v |-> v]

PreviewReady(c, v) ==
  LET ready == [c EXCEPT !.newPreviewLoaded = TRUE, !.seeking = FALSE]
  IN IF c.timeToSeek > 0 THEN FinishedSeeking(ready, v) ELSE [c |-> ready, v |-> v]

\* Note that timeToSeek is kept: an offset of the hour before.
NewPlayback(c, h) == [c EXCEPT !.preview = h, !.seeking = FALSE]

\* The still is drawn once the size of the video is known.
ChangeSource(p, v) ==
  IF v.does = "absent" THEN [p EXCEPT !.current = p.hour]
  ELSE [p EXCEPT !.current = p.hour, !.timers = @ + 1, !.remembered = TRUE,
                 !.frame = IF p.sized THEN "loading" ELSE @]

\* The effect on controller and timeRange.
PlaybackEffect(p) ==
  /\ pv' = IF p.hour # p.current THEN ChangeSource(p, video) ELSE p
  /\ ctl' = NewPlayback([ctl EXCEPT !.made = TRUE,
                                    !.newPreviewLoaded = @ /\ p.hour = p.current], p.hour)

\* A render while the element is there makes the controller, one while it is not drops it.
MakeController ==
  /\ video.does # "absent" /\ ~ctl.made
  /\ PlaybackEffect(pv) /\ UNCHANGED <<video, frames, scrubs>>
DropController ==
  /\ Player(pv.hour) = "video" /\ video.does = "absent" /\ ctl.made
  /\ ctl' = NoController /\ UNCHANGED <<pv, video, frames, scrubs>>

TimeRangeChanges(h) ==
  /\ Use /\ h # pv.hour
  /\ LET p == [pv EXCEPT !.hour = h]
     IN IF Player(h) = "video" /\ Player(pv.hour) = "video"
        THEN /\ IF ctl.made THEN PlaybackEffect(p) ELSE pv' = p /\ UNCHANGED ctl
             /\ UNCHANGED <<video, frames>>
        ELSE /\ pv' = Mounted(p) /\ ctl' = NoController /\ frames' = NoFrames
             /\ video' = IF Player(h) = "video" THEN Appears(Mounted(p)) ELSE NoVideo

SetVisible(b) ==
  /\ Use /\ pv.visible # b /\ pv' = [pv EXCEPT !.visible = b]
  /\ video' = IF Player(pv.hour) = "video" THEN Appears(pv') ELSE video
  /\ UNCHANGED <<ctl, frames>>

ChangeoverTimeout ==
  /\ pv.timers > 0 /\ pv' = [pv EXCEPT !.timers = @ - 1, !.remembered = FALSE]
  /\ video' = Loads(video, pv.current) /\ UNCHANGED <<ctl, frames, scrubs>>

FrameDrawn ==
  /\ Player(pv.hour) = "video" /\ pv.frame = "loading"
  /\ pv' = [pv EXCEPT !.frame = "shown", !.remembered = FALSE,
                      !.timers = IF pv.remembered /\ @ > 0 THEN @ - 1 ELSE @]
  /\ video' = Loads(video, pv.current) /\ UNCHANGED <<ctl, frames, scrubs>>

\* onLoadedData; startTime is sought behind the controller's back.
LoadedData ==
  /\ video.does = "loading"
  /\ LET shown == [video EXCEPT !.does = "ready", !.at = 0]
         r == IF ctl.made THEN PreviewReady(ctl, shown) ELSE [c |-> ctl, v |-> shown]
     IN ctl' = r.c /\ video' = IF pv.start > 0 THEN Seek(r.v, pv.start) ELSE r.v
  /\ pv' = [pv EXCEPT !.sized = TRUE] /\ UNCHANGED <<frames, scrubs>>

\* The element has sought; Android's Chrome is left 25 ms before the controller hears of it.
OnPreviewSeeked ==
  /\ video.does = "ready" /\ video.seek # Nil
  /\ video' = [video EXCEPT !.at = video.seek, !.seek = Nil]
  /\ IF ctl.made
     THEN ctl' = [ctl EXCEPT !.seeked = @ + 1] /\ pv' = [pv EXCEPT !.frame = "none"]
     ELSE UNCHANGED <<pv, ctl>>
  /\ UNCHANGED <<frames, scrubs>>
ControllerHears ==
  /\ ctl.seeked > 0
  /\ LET r == FinishedSeeking([ctl EXCEPT !.seeked = @ - 1], video) IN ctl' = r.c /\ video' = r.v
  /\ UNCHANGED <<pv, frames, scrubs>>

\* scrubToTimestamp: ignored outside the preview and until it is loaded.
ScrubVideo(h, o) ==
  /\ ctl.made /\ ctl.newPreviewLoaded /\ video.does # "absent" /\ ctl.preview = h
  /\ IF ctl.seeking THEN ctl' = [ctl EXCEPT !.timeToSeek = o] /\ UNCHANGED video
                    ELSE ctl' = [ctl EXCEPT !.seeking = TRUE] /\ video' = Seek(video, o)
  /\ UNCHANGED <<pv, frames>>

-----------------------------------------------------------------------------
(* The frames of the current hour; there is one for each offset but the last *)

FrameAt(f, o) == IF f.src = o THEN f ELSE [f EXCEPT !.src = o, !.loading = TRUE]

FramesArrive ==
  /\ Player(pv.hour) = "frames" /\ ~frames.made
  /\ LET first == IF pv.start = 0 THEN Length - 1 ELSE pv.start
         made == [frames EXCEPT !.made = TRUE]
     IN frames' = IF first >= Length THEN made ELSE [FrameAt(made, first) EXCEPT !.seeking = TRUE]
  /\ UNCHANGED <<pv, video, ctl, scrubs>>

ScrubFrames(o) ==
  /\ frames.made /\ o < Length
  /\ frames' = IF frames.seeking THEN [frames EXCEPT !.timeToSeek = o]
               ELSE IF frames.src = o THEN frames
               ELSE [FrameAt(frames, o) EXCEPT !.seeking = TRUE]
  /\ UNCHANGED <<pv, video, ctl>>

\* onLoad; each frame it goes on to is also the still of the player.
FrameLoaded ==
  /\ frames.loading
  /\ LET seen == [frames EXCEPT !.loading = FALSE]
         goesOn == frames.timeToSeek > 0 /\ frames.timeToSeek # frames.src
     IN /\ frames' = IF goesOn THEN FrameAt(seen, frames.timeToSeek)
                     ELSE [seen EXCEPT !.seeking = FALSE, !.timeToSeek = IF @ > 0 THEN Nil ELSE @]
        /\ pv' = IF goesOn THEN [pv EXCEPT !.frame = "shown"] ELSE pv
  /\ UNCHANGED <<video, ctl, scrubs>>

\* Nothing listens to a frame that cannot be loaded.
FrameFails ==
  /\ frames.loading /\ frames' = [frames EXCEPT !.loading = FALSE]
  /\ UNCHANGED <<pv, video, ctl, scrubs>>

ScrubTo(h, o) ==
  /\ Use
  /\ \/ Player(pv.hour) = "video" /\ ScrubVideo(h, o)
     \/ Player(pv.hour) = "frames" /\ h = pv.hour /\ ScrubFrames(o)

PreviewNext ==
  \/ MakeController \/ DropController
  \/ \E h \in Hours : TimeRangeChanges(h)
  \/ \E b \in BOOLEAN : SetVisible(b)
  \/ ChangeoverTimeout \/ FrameDrawn \/ LoadedData \/ OnPreviewSeeked \/ ControllerHears
  \/ FramesArrive \/ FrameLoaded \/ FrameFails
  \/ \E h \in Hours, o \in Offsets : ScrubTo(h, o)

PreviewSpec == PreviewInit /\ [][PreviewNext]_pvVars

-----------------------------------------------------------------------------
(* Properties *)

Settled ==
  /\ ctl.made /\ video.does = "ready" /\ video.seek = Nil /\ ctl.seeked = 0
  /\ pv.timers = 0 /\ pv.frame # "loading"

\* Once no load, seek or timer is under way, the video is the preview of the hour of the
\* timeline and its controller takes the next scrub: no order of hours, disappearances and
\* seeks leaves it waiting for a seek nobody will finish, or with the source of another hour.
PreviewSettles ==
  Settled => ~ctl.seeking /\ ctl.newPreviewLoaded /\ video.hour = pv.hour /\ ctl.preview = pv.hour
=============================================================================
