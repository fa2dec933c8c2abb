------------------------------ MODULE Recordings ------------------------------
(***************************************************************************)
(* The recordings of one camera.  ffmpeg writes segments to a cache;       *)
(* RecordingMaintainer, a process that wakes every few seconds, validates  *)
(* them against the reviews in the database and what it was told of the    *)
(* frames, and moves them to the disk, keeps them or drops them.  Two      *)
(* threads of the main process delete what it stored: RecordingCleanup     *)
(* when the days of retention are over, StorageMaintainer when the disk is *)
(* nearly full.  Files and rows are written and deleted in separate steps. *)
(*                                                                         *)
(* Time counts half segments: segment s lasts from 2s to 2s+2 and the      *)
(* frame f is in the middle of segment f.  Of a frame only matters whether *)
(* it is busy (motion or active objects, whichever the mode asks for).     *)
(***************************************************************************)
EXTENDS Integers, FiniteSets, FiniteSetsExt

CONSTANTS
  Segments,      \* bound: segments that ffmpeg writes
  Frames,        \* bound: frames that are processed
  MaxBusy,       \* bound: frames with activity
  DetectLag,     \* bound: segments the detector is behind ffmpeg
  MaxReviews,    \* bound: rows of reviews
  ReviewLag,     \* bound: frames the review maintainer is behind the detector
  Configs,       \* the retention settings to choose from
  MaxInCache,    \* MAX_SEGMENTS_IN_CACHE
  Bandwidth,     \* hourly_bandwidth: what a cleanup must free, in half segments
  Events,        \* saved events with a clip, [start, end], that can be retained
  MaxUpsets      \* bound: changes of the setting, retained events, corrupt segments,
                 \* failed conversions and runs of the threads that delete, together

Severities == {"alert", "detection"}

ASSUME RecordingsAssumption ==
  /\ {Segments, Frames, DetectLag, ReviewLag, MaxInCache} \subseteq Nat \ {0}
  /\ {MaxBusy, MaxReviews, Bandwidth, MaxUpsets} \subseteq Nat
  /\ Events \subseteq [start : Nat, end : Nat]
  /\ Configs \subseteq
       [days : Nat, mode : {"all", "active"}, kinds : SUBSET Severities,
        reviewMode : [Severities -> {"all", "active"}],
        pre : [Severities -> Nat], post : [Severities -> Nat],
        reviewDays : [Severities -> Nat]]

VARIABLES
  config,     \* config.cameras[camera].record but for enabled, fixed at the start
  filmed,     \* segments that ffmpeg has closed; the next one is still in use
  frames,     \* frames the object processor has published
  busy,       \* those of them with activity
  reviewed,   \* frames the review maintainer has handled
  reviews,    \* rows of ReviewSegment: [start, end, severity]
  cached,     \* closed segments in CACHE_DIR
  files,      \* segments in RECORD_DIR
  rows,       \* rows of Recordings: a function from segments to their activity
  fate,       \* the decision by which a segment is gone: "dropped", "inactive",
              \* "expired" (when its time had been reviewed), or "" for none of these
  recorder,   \* RecordingMaintainer: [pc, enabled, read (frames taken from the queue),
              \* info (those it remembers), todo (listed, not yet validated), known (the
              \* reviews it read), moving (being converted), stored (rows to insert)]
  cleanup,    \* RecordingCleanup: [pc, expireDate, deleted]
  storage,    \* StorageMaintainer: [pc, offered (rows at its start), deleted]
  retained,   \* events with retain_indefinitely
  upsets, toggled, failed   \* the bound's counter; settings changed; something failed

world == <<config, filmed, frames, busy, reviewed, retained>>
history == <<upsets, toggled, failed>>
Upset == upsets < MaxUpsets /\ upsets' = upsets + 1
vars == <<world, reviews, cached, files, rows, fate, recorder, cleanup, storage,
          history>>

Seg == 0 .. Segments - 1
Start(s) == 2 * s
End(s) == 2 * s + 2
FrameTime(f) == 2 * f + 1

\* end_time of a review that goes on (NULL): later than anything.
Ongoing == 2 * (Segments + Frames) + 100

\* datetime.now(): within the segment that is being written, after the last frame.
Now == Max({2 * filmed + 1, 2 * frames})

EventPreCapture == Max({config.pre[v] : v \in Severities})

Init ==
  /\ config \in Configs
  /\ filmed = 0 /\ frames = 0 /\ busy = {} /\ reviewed = 0 /\ reviews = {}
  /\ cached = {} /\ files = {} /\ rows = <<>> /\ fate = [s \in Seg |-> ""]
  /\ recorder = [pc |-> "wait", enabled |-> TRUE, read |-> 0, info |-> {}, todo |-> {},
                 known |-> {}, moving |-> {}, stored |-> {}]
  /\ cleanup = [pc |-> "wait", expireDate |-> 0, deleted |-> {}]
  /\ storage = [pc |-> "wait", offered |-> {}, deleted |-> {}]
  /\ retained = {} /\ upsets = 0 /\ toggled = FALSE /\ failed = FALSE

-----------------------------------------------------------------------------
(* What goes on around the recordings.                                      *)

\* ffmpeg closes a segment and opens the next.
CloseSegment ==
  /\ filmed < Segments /\ filmed < frames + DetectLag
  /\ filmed' = filmed + 1 /\ cached' = cached \cup {filmed}
  /\ UNCHANGED <<config, frames, busy, reviewed, retained, reviews, files, rows, fate,
                 recorder, cleanup, storage, history>>

\* A frame has been processed and is published to the recorder and the review.
PublishFrame ==
  /\ frames < Frames /\ (frames <= filmed \/ filmed = Segments)
  /\ frames < reviewed + ReviewLag
  /\ frames' = frames + 1
  /\ busy' \in {busy, busy \cup {frames}} /\ Cardinality(busy') <= MaxBusy
  /\ UNCHANGED <<config, filmed, reviewed, retained, reviews, cached, files, rows, fate,
                 recorder, cleanup, storage, history>>

InProgress == {r \in reviews : r.end = Ongoing}

LastActivity == {f \in busy : f <= reviewed /\ \A g \in busy : g <= reviewed => g <= f}

\* What the review maintainer may write while it handles a frame (ReviewSegments): a
\* new review, or the end of the one in progress, at its last activity or now.
ReviewChanges ==
  {reviews}
  \cup {reviews \cup {[start |-> FrameTime(reviewed), end |-> Ongoing, severity |-> v]} :
          v \in IF InProgress = {} /\ reviewed \in busy /\ Cardinality(reviews) < MaxReviews
                THEN config.kinds ELSE {}}
  \cup UNION {{(reviews \ {r}) \cup {[r EXCEPT !.end = t]} :
                 t \in {FrameTime(f) : f \in {reviewed} \cup LastActivity}} : r \in InProgress}

ReviewFrame ==
  /\ reviewed < frames
  /\ reviewed' = reviewed + 1
  /\ reviews' \in ReviewChanges
  /\ UNCHANGED <<config, filmed, frames, busy, retained, cached, files, rows, fate,
                 recorder, cleanup, storage, history>>

\* A user retains an event that there is.
Retain(e) ==
  /\ e.start < Now /\ e \notin retained /\ retained' = retained \cup {e}
  /\ Upset
  /\ UNCHANGED <<config, filmed, frames, busy, reviewed, reviews, cached, files, rows,
                 fate, recorder, cleanup, storage, toggled, failed>>

-----------------------------------------------------------------------------
(* The scan that three loops of the code share: windows [from, to] in the   *)
(* order of their start, against recordings in theirs, with a pointer to    *)
(* the first window that may still matter.                                  *)

\* The event or review begins after the segment.
Future_ByStart(w, s) == w.from > Start(s)
Future(w, s) == w.from > End(s)

\* The windows that end the loop for a segment: they begin in the future or reach it.
Stops(windows, s) == {w \in windows : Future(w, s) \/ w.to >= Start(s)}

\* The window for which a segment is kept: the first that stops the loop, if it does not
\* begin in the future.
KeptFor(windows, s) ==
  {w \in Stops(windows, s) : ~Future(w, s) /\ \A v \in Stops(windows, s) : w.start <= v.start}

\* The windows before it are skipped; for later segments the loop begins at the last of them.
Skipped(windows, s) == {w \in windows : \A v \in Stops(windows, s) : w.start < v.start}
From(windows, earlier) ==
  {w \in windows : \A t \in earlier : \A v \in Skipped(windows, t) : w.start >= v.start}

\* For each of the segments the window it is kept for.
Scan(segments, windows) ==
  [s \in segments |-> KeptFor(From(windows, {t \in segments : t < s}), s)]

\* Reviews with pre_capture and post_capture, and retained events.
ReviewWindows(revs) ==
  {[start |-> r.start, from |-> r.start - config.pre[r.severity],
    to |-> r.end + config.post[r.severity], mode |-> config.reviewMode[r.severity]] : r \in revs}

EventWindows == {[start |-> e.start, from |-> e.start, to |-> e.end] : e \in retained}

-----------------------------------------------------------------------------
(* RecordingMaintainer.                                                     *)

Decide(S, how) == fate' = [s \in Seg |-> IF s \in S THEN how ELSE fate[s]]

recorded == <<files, rows>>
others == <<world, reviews, cleanup, storage>>

\* The time of the last frame in object_recordings_info, or 0.
Latest(info) == IF info = {} THEN 0 ELSE FrameTime(Max(info))

Newest(S) == {s \in S : Cardinality({t \in S : t > s}) < MaxInCache}

\* The segments of the listing that stay: too many processed ones are cut to the newest,
\* then too many unprocessed ones, by the count taken before the first cut.
Trimmed(listed, info) ==
  LET processed == Cardinality({s \in listed : Start(s) < Latest(info)})
      first == IF processed > MaxInCache THEN Newest(listed) ELSE listed
  IN IF Cardinality(first) - processed > MaxInCache THEN Newest(first) ELSE first

\* A pass begins: settings; every frame published since the last one, remembered only
\* while recording is on; the files that are not in use, listed and trimmed; frames
\* before the first of them are forgotten.
BeginPass ==
  /\ recorder.pc = "wait"
  /\ \E on \in BOOLEAN :
       /\ \/ on = recorder.enabled /\ UNCHANGED history
          \/ on # recorder.enabled /\ frames < Frames /\ Upset
             /\ toggled' = TRUE /\ UNCHANGED failed
       /\ LET info == IF on THEN recorder.info \cup (recorder.read .. frames - 1)
                      ELSE recorder.info
              listed == Trimmed(cached, info)
          IN /\ cached' = listed
             /\ recorder' = [recorder EXCEPT
                  !.pc = IF listed = {} THEN "wait" ELSE "query",
                  !.enabled = on, !.read = frames, !.todo = listed,
                  !.info = IF listed = {} THEN info
                           ELSE {f \in info : \E s \in listed : FrameTime(f) >= Start(s)}]
  /\ UNCHANGED <<others, recorded, fate>>

\* The first task that needs the reviews runs the query: those that end after the
\* start of the oldest listed segment, or go on.
QueryReviews ==
  /\ recorder.pc = "query"
  /\ recorder' = [recorder EXCEPT
       !.pc = "validate",
       !.known = {r \in reviews : \E s \in recorder.todo : r.end >= Start(s)}]
  /\ UNCHANGED <<others, cached, recorded, fate, history>>

\* segment_stats: whether a frame of the segment that was read is busy.
Active(s) == \E f \in recorder.info \cap busy : FrameTime(f) \in Start(s) .. End(s)

Validated(s) == [recorder EXCEPT !.todo = @ \ {s}]
Drop(s, how) == cached' = cached \ {s} /\ Decide({s}, how) /\ recorder' = Validated(s)
Wait(s) == recorder' = Validated(s) /\ UNCHANGED <<cached, fate>>

\* move_segment up to the conversion, which is not begun over an existing file.
MoveSegment(s, mode, how) ==
  \/ mode = "active" /\ ~Active(s) /\ Drop(s, how)
  \/ /\ mode = "all" \/ Active(s)
     /\ s \in files /\ Wait(s)
  \/ /\ mode = "all" \/ Active(s)
     /\ s \notin files
     /\ recorder' = [Validated(s) EXCEPT !.moving = @ \cup {s}]
     /\ UNCHANGED <<cached, fate>>

\* Continuous recording does not cover the segment: a review must.
ReviewBranch_NoSlack(s) ==
  LET windows == ReviewWindows(recorder.known)
      kept == KeptFor(windows, s)
      over == End(s) < Latest(recorder.info)
  IN \/ \E w \in kept : MoveSegment(s, w.mode, "")
     \/ kept = {} /\ over /\ Drop(s, "dropped")
     \/ kept = {} /\ ~over /\ Wait(s)
ReviewBranch_NeedsReview(s) ==
  LET windows == ReviewWindows(recorder.known)
      kept == KeptFor(windows, s)
      over == windows # {} /\ End(s) < Latest(recorder.info) - EventPreCapture
  IN \/ \E w \in kept : MoveSegment(s, w.mode, "")
     \/ kept = {} /\ over /\ Drop(s, "dropped")
     \/ kept = {} /\ ~over /\ Wait(s)
ReviewBranch(s) ==
  LET windows == ReviewWindows(recorder.known)
      kept == KeptFor(windows, s)
      over == End(s) < Latest(recorder.info) - EventPreCapture
  IN \/ \E w \in kept : MoveSegment(s, w.mode, "")
     \/ kept = {} /\ over /\ Drop(s, "dropped")
     \/ kept = {} /\ ~over /\ Wait(s)

\* It does: the segment waits until all of its frames are known.
ContinuousBranch(s) ==
  \/ Latest(recorder.info) >= End(s) /\ MoveSegment(s, config.mode, "inactive")
  \/ Latest(recorder.info) < End(s) /\ Wait(s)

Validate(s) ==
  /\ recorder.pc = "validate" /\ s \in recorder.todo
  /\ \/ ~recorder.enabled /\ Drop(s, "")
     \/ recorder.enabled /\ Start(s) <= Now - config.days /\ ReviewBranch(s)
     \/ recorder.enabled /\ Start(s) > Now - config.days /\ ContinuousBranch(s)
  /\ UNCHANGED <<others, recorded, history>>

\* The probe of a corrupt segment finds no duration.
Corrupt(s) ==
  /\ recorder.pc = "validate" /\ s \in recorder.todo /\ recorder.enabled
  /\ Drop(s, "") /\ Upset /\ failed' = TRUE
  /\ UNCHANGED <<others, recorded, toggled>>

\* ffmpeg has written the file; the cached one is removed, the row returned with the
\* activity counted when the move began.
Moved(s) ==
  /\ s \in recorder.moving
  /\ files' = files \cup {s} /\ cached' = cached \ {s}
  /\ recorder' = [recorder EXCEPT !.moving = @ \ {s}, !.stored = @ \cup {s}]
  /\ UNCHANGED <<others, rows, fate, history>>

\* ffmpeg fails and may leave part of the file; or it cannot be run at all, and the
\* segment is deleted.
MoveFails_StillRecorded(s) ==
  /\ s \in recorder.moving
  /\ recorder' = [recorder EXCEPT !.moving = @ \ {s}, !.stored = @ \cup {s}]
  /\ \/ files' \in {files, files \cup {s}} /\ UNCHANGED cached
     \/ cached' = cached \ {s} /\ UNCHANGED files
  /\ Upset /\ failed' = TRUE
  /\ UNCHANGED <<others, rows, fate, toggled>>
MoveFails(s) ==
  /\ s \in recorder.moving
  /\ recorder' = [recorder EXCEPT !.moving = @ \ {s}]
  /\ \/ files' \in {files, files \cup {s}} /\ UNCHANGED cached
     \/ cached' = cached \ {s} /\ UNCHANGED files
  /\ Upset /\ failed' = TRUE
  /\ UNCHANGED <<others, rows, fate, toggled>>

\* All tasks are done: the rows are inserted and the pass is over.
SendRows ==
  /\ recorder.pc = "validate" /\ recorder.todo = {} /\ recorder.moving = {}
  /\ rows' = [s \in DOMAIN rows \cup recorder.stored |->
                IF s \in recorder.stored THEN Active(s) ELSE rows[s]]
  /\ recorder' = [recorder EXCEPT !.pc = "wait", !.stored = {}, !.known = {}]
  /\ UNCHANGED <<others, cached, files, fate, history>>

-----------------------------------------------------------------------------
(* RecordingCleanup: expire_recordings.                                     *)

\* Reviews whose days are over are deleted; the date for recordings is computed.
ExpireReviews ==
  /\ cleanup.pc = "wait" /\ rows # <<>>
  /\ Upset
  /\ reviews' = {r \in reviews : r.end >= Now - config.reviewDays[r.severity]}
  /\ cleanup' = [cleanup EXCEPT !.pc = "expire", !.expireDate = Now - config.days]
  /\ UNCHANGED <<world, cached, recorded, fate, recorder, storage, toggled, failed>>

\* Recordings before the date are deleted unless a review that started before the date
\* keeps them; an inactive one also if the review's mode asks for activity.
ExpireFiles ==
  /\ cleanup.pc = "expire"
  /\ LET old == {s \in DOMAIN rows : End(s) < cleanup.expireDate}
         kept == Scan(old, ReviewWindows({r \in reviews : r.start < cleanup.expireDate}))
         unreviewed == {s \in old : kept[s] = {}}
         inactive == {s \in old : \E w \in kept[s] : w.mode = "active" /\ ~rows[s]}
     IN /\ cleanup' = [pc |-> "rows", expireDate |-> 0, deleted |-> unreviewed \cup inactive]
        /\ files' = files \ (unreviewed \cup inactive)
        /\ Decide({s \in unreviewed \cap files : End(s) < FrameTime(reviewed)}, "expired")
  /\ UNCHANGED <<world, reviews, cached, rows, recorder, storage, history>>

WithoutRows(S) == [s \in DOMAIN rows \ S |-> rows[s]]

\* The rows of the deleted files are deleted.
ExpireRows ==
  /\ cleanup.pc = "rows"
  /\ rows' = WithoutRows(cleanup.deleted)
  /\ cleanup' = [cleanup EXCEPT !.pc = "wait", !.deleted = {}]
  /\ UNCHANGED <<world, reviews, cached, files, fate, recorder, storage, history>>

-----------------------------------------------------------------------------
(* StorageMaintainer: reduce_storage_consumption.                           *)

\* The oldest of the files, until more than the bandwidth has been freed.
Size(S) == 2 * Cardinality(S)
Oldest(S, freed) ==
  {s \in S \cap files : freed + Size({t \in S \cap files : t < s}) <= Bandwidth}

Covered(kept) == {s \in DOMAIN kept : kept[s] # {}}

\* The oldest recordings but those of retained events.
Reclaim ==
  /\ storage.pc = "wait" /\ rows # <<>>
  /\ Upset
  /\ LET offered == DOMAIN rows
         freed == Oldest(offered \ Covered(Scan(offered, EventWindows)), 0)
     IN /\ files' = files \ freed
        /\ storage' = [pc |-> IF Size(freed) < Bandwidth THEN "force" ELSE "rows",
                       offered |-> offered, deleted |-> freed]
  /\ UNCHANGED <<world, reviews, cached, rows, fate, recorder, cleanup, toggled, failed>>

\* Too little was freed: the oldest recordings, retained or not.
ReclaimRetained ==
  /\ storage.pc = "force"
  /\ LET freed == Oldest(DOMAIN rows, Size(storage.deleted)) IN
     /\ files' = files \ freed
     /\ storage' = [storage EXCEPT !.pc = "rows", !.deleted = @ \cup freed]
  /\ UNCHANGED <<world, reviews, cached, rows, fate, recorder, cleanup, history>>

ReclaimRows ==
  /\ storage.pc = "rows"
  /\ rows' = WithoutRows(storage.deleted)
  /\ storage' = [pc |-> "wait", offered |-> {}, deleted |-> {}]
  /\ UNCHANGED <<world, reviews, cached, files, fate, recorder, cleanup, history>>

-----------------------------------------------------------------------------
Recorder ==
  \/ BeginPass \/ QueryReviews \/ SendRows
  \/ \E s \in Seg : Validate(s) \/ Corrupt(s) \/ Moved(s) \/ MoveFails(s)

Next ==
  \/ CloseSegment \/ PublishFrame \/ ReviewFrame \/ (\E e \in Events : Retain(e))
  \/ Recorder
  \/ ExpireReviews \/ ExpireFiles \/ ExpireRows
  \/ Reclaim \/ ReclaimRetained \/ ReclaimRows

Spec == Init /\ [][Next]_vars

\* ffmpeg is kept running, the detector, the review maintainer and the recorder go on.
Fairness ==
  /\ WF_vars(CloseSegment) /\ WF_vars(PublishFrame) /\ WF_vars(ReviewFrame)
  /\ WF_vars(Recorder)

FairSpec == Spec /\ Fairness

-----------------------------------------------------------------------------
\* A review has every segment the code decided on while its row was there: none that
\* meets it was dropped, provided that the review maintainer lags by no more than the
\* slack of event_pre_capture, and none whose time had been reviewed expired, not even
\* in its post_capture.  And continuous recording of active segments deletes none with
\* activity because frames were read late.
Meets(r, s, post) == r.start <= End(s) /\ r.end + post >= Start(s)
WantedIsKept ==
  \A s \in Seg :
    /\ fate[s] = "dropped" => \A r \in reviews : ~Meets(r, s, 0)
    /\ fate[s] = "expired" =>
         \A r \in reviews : ~Meets(r, s, config.post[r.severity])
    /\ fate[s] = "inactive" /\ ~toggled => s \notin busy

\* Between the three that write and delete files and rows in separate steps, a row
\* without a file is one that is being deleted, and, unless a conversion failed, a
\* file without a row is one that is being recorded.
RowsMatchFiles ==
  /\ DOMAIN rows \ files \subseteq cleanup.deleted \cup storage.deleted
  /\ ~failed => files \ DOMAIN rows \subseteq recorder.stored

\* A full disk costs retained recordings only when none of the others that were there
\* when the cleanup began is left.
IsRetained(s) == \E e \in retained : e.start <= End(s) /\ e.end >= Start(s)
RetainedGoLast ==
  [][\A s \in files \ files' :
       IsRetained(s) /\ storage' # storage =>
         \A t \in storage'.offered \cap files' : IsRetained(t)]_vars

\* A segment does not stay in the cache for ever once later frames than its
\* pre-capture are read, unless a failed conversion left a file in its place.
Settles(s) == End(s) + EventPreCapture < FrameTime(Frames - 1)
SegmentIsSettled ==
  {s \in cached : Settles(s)} # {} ~> {s \in cached \ files : Settles(s)} = {}
===============================================================================
