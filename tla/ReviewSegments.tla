--------------------------- MODULE ReviewSegments ---------------------------
(***************************************************************************)
(* The review segment of one camera: ReviewSegmentMaintainer, in its own   *)
(* process, merges the frames of the object processor, audio detections and*)
(* manual (API, LPR) events into at most one pending segment, stores it in *)
(* the ReviewSegment table and ends it after a time without activity, or   *)
(* when the camera, its recordings or its kind of review is turned off.    *)
(*                                                                         *)
(* Time is relative: an age is how long ago a time was, negative in the    *)
(* future, and saturates at Cap.  A segment with a manual event of unknown *)
(* duration has sys.maxsize as its last update: the age Held, which no     *)
(* time reaches.                                                           *)
(***************************************************************************)
EXTENDS Integers, FiniteSets

CONSTANTS
  ManualEvents,        \* ids of API and LPR events without a duration
  ThresholdAlert,      \* THRESHOLD_ALERT_ACTIVITY
  ThresholdDetection,  \* THRESHOLD_DETECTION_ACTIVITY
  MaxLag,              \* how old a message may be when it is handled
  MaxDuration,         \* the longest duration given to a manual event
  MaxToggles,          \* bound: number of commands that change a setting
  MaxRestarts          \* bound: number of restarts of the program

ASSUME TimesAssumption ==
  /\ ThresholdAlert \in Nat /\ ThresholdDetection \in Nat
  /\ MaxLag \in Nat /\ MaxDuration \in Nat
ASSUME ReviewBoundsAssumption == MaxToggles \in Nat /\ MaxRestarts \in Nat

VARIABLES
  alive,        \* the maintainer's thread has not died of an exception
  cameraOn, recordOn, alertsOn, detectionsOn,  \* the settings it has received
  seg,          \* active_review_segments[camera]
  openRows,     \* number of rows of the camera without an end_time
  prevEnd,      \* age of the latest end_time among the ended rows
  indefinite,   \* indefinite_events[camera]
  ongoing,      \* ongoing_manual_events of the object processor
  videoAge,     \* age of the last frame
  lastSeen,     \* the last frame or audio: "quiet", "active", or "qualifying"
                \* for an alert or a detection
  completed,    \* a manual event with a duration has been received
  toggles, restarts

settings == <<cameraOn, recordOn, alertsOn, detectionsOn>>
rowVars  == <<openRows, prevEnd>>
seenVars == <<videoAge, lastSeen>>
vars == <<alive, cameraOn, recordOn, alertsOn, detectionsOn, seg, openRows, prevEnd,
          indefinite, ongoing, videoAge, lastSeen, completed, toggles, restarts>>

Longest == IF ThresholdAlert > ThresholdDetection THEN ThresholdAlert ELSE ThresholdDetection
Cap == Longest + MaxLag + 1
Held == -(MaxDuration + 1)
Ages == Held..Cap

\* PendingReviewSegment: alert is its severity, drawn its has_frame; stored says
\* whether its row has been upserted.
Segment == [active: BOOLEAN, alert: BOOLEAN, start: Ages, last: Ages,
            drawn: BOOLEAN, stored: BOOLEAN]
NoSegment == [active |-> FALSE, alert |-> FALSE, start |-> Cap, last |-> Cap,
              drawn |-> FALSE, stored |-> FALSE]
Pending(severity, age) == [NoSegment EXCEPT !.active = TRUE, !.alert = (severity = "alert"),
                                            !.start = age, !.last = age]

TypeOK ==
  /\ alive \in BOOLEAN /\ cameraOn \in BOOLEAN /\ recordOn \in BOOLEAN
  /\ alertsOn \in BOOLEAN /\ detectionsOn \in BOOLEAN
  /\ seg \in Segment
  /\ openRows \in {0, 1} /\ prevEnd \in Ages
  /\ indefinite \subseteq ManualEvents /\ ongoing \subseteq ManualEvents
  /\ videoAge \in 0..Cap /\ lastSeen \in {"quiet", "active", "qualifying"}
  /\ completed \in BOOLEAN
  /\ toggles \in 0..MaxToggles /\ restarts \in 0..MaxRestarts

Init ==
  /\ alive = TRUE
  /\ cameraOn = TRUE /\ recordOn = TRUE /\ alertsOn = TRUE /\ detectionsOn = TRUE
  /\ seg = NoSegment
  /\ openRows = 0 /\ prevEnd = Cap
  /\ indefinite = {} /\ ongoing = {}
  /\ videoAge = Cap /\ lastSeen = "quiet" /\ completed = FALSE
  /\ toggles = 0 /\ restarts = 0

-----------------------------------------------------------------------------
Older(age) == IF age = Held \/ age = Cap THEN age ELSE age + 1
Later(a, b) == IF a < b THEN a ELSE b

\* A second (or so) passes.
Tick ==
  /\ seg' = [seg EXCEPT !.start = Older(@), !.last = Older(@)]
  /\ prevEnd' = Older(prevEnd)
  /\ videoAge' = Older(videoAge)
  /\ UNCHANGED <<alive, settings, openRows, indefinite, ongoing, lastSeen, completed,
                 toggles, restarts>>

\* Mutant: the ended segment stays the active one.
PublishSegmentEnd_Kept ==
  /\ openRows' = IF seg.stored THEN openRows - 1 ELSE openRows
  /\ prevEnd' = Later(seg.last, prevEnd)
  /\ seg' = seg

\* _publish_segment_end: the row gets the last update as its end_time.
PublishSegmentEnd ==
  /\ openRows' = IF seg.stored THEN openRows - 1 ELSE openRows
  /\ prevEnd' = Later(seg.last, prevEnd)
  /\ seg' = NoSegment

EndSegment == IF seg.active THEN PublishSegmentEnd ELSE UNCHANGED <<seg, rowVars>>

\* The segment becomes s, which is upserted if publish holds.
Upsert(s, publish) ==
  /\ seg' = [s EXCEPT !.stored = @ \/ publish]
  /\ openRows' = IF publish /\ ~s.stored THEN openRows + 1 ELSE openRows
  /\ UNCHANGED prevEnd

\* Messages of a camera that is off, or not recording, are skipped.
Processed == alive /\ cameraOn /\ recordOn

\* A pending segment whose kind of review was turned off is ended by the next
\* message, which is not processed any further.
SeverityOff == seg.active /\ (IF seg.alert THEN ~alertsOn ELSE ~detectionsOn)

\* The severity a message calls for: "none" if its labels (and zones) do not
\* qualify or the kind is turned off.
Severity(alertLabel, detectionLabel) ==
  IF alertLabel /\ alertsOn THEN "alert"
  ELSE IF detectionLabel /\ detectionsOn THEN "detection" ELSE "none"

-----------------------------------------------------------------------------
(* Frames.  A frame can be gone from shared memory when it is handled.      *)

NextFrame(age) == age \in 0..MaxLag /\ age < videoAge /\ videoAge' = age

\* update_existing_segment, with activity: published if the severity, the number
\* of objects or a sub label changed, unless the frame that the first two need is
\* gone; drawn unless no region of the thumbnail's shape holds the objects.
ActiveFrame(age, severity, frame) ==
  /\ seg.active
  /\ \E publish, drawn \in BOOLEAN :
       /\ drawn => publish /\ frame
       /\ severity = "alert" /\ ~seg.alert => publish = frame
       /\ Upsert([seg EXCEPT !.last = Later(@, age), !.alert = @ \/ severity = "alert",
                             !.drawn = @ \/ drawn], publish)

\* Mutant: the thresholds are not added to the last update.
QuietFrame_NoThreshold(age, frame) ==
  /\ seg.active
  /\ IF ~seg.drawn /\ ~frame
     THEN UNCHANGED <<seg, rowVars>>
     ELSE IF seg.last > age
     THEN PublishSegmentEnd
     ELSE Upsert([seg EXCEPT !.drawn = TRUE], ~seg.drawn)

\* update_existing_segment, without: a segment that has no frame yet takes this
\* one (or returns, if it is gone), then its time may be over.
QuietFrame(age, frame) ==
  LET idle == seg.last - age IN
  /\ seg.active
  /\ IF ~seg.drawn /\ ~frame
     THEN UNCHANGED <<seg, rowVars>>
     ELSE IF (seg.alert /\ idle > ThresholdAlert) \/ idle > ThresholdDetection
     THEN PublishSegmentEnd
     ELSE Upsert([seg EXCEPT !.drawn = TRUE], ~seg.drawn)

\* check_if_new_segment: the segment is pending even if its frame is gone.
NewSegment(age, severity, frame) ==
  /\ ~seg.active /\ severity # "none"
  /\ \E drawn \in BOOLEAN :
       /\ drawn => frame
       /\ Upsert([Pending(severity, age) EXCEPT !.drawn = drawn], frame)

Frame(age, severity, active, frame) ==
  /\ NextFrame(age)
  /\ active \/ severity = "none"
  /\ lastSeen' = IF ~active THEN "quiet" ELSE IF severity = "none" THEN "active" ELSE "qualifying"
  /\ IF ~Processed THEN UNCHANGED <<seg, rowVars>>
     ELSE IF SeverityOff THEN PublishSegmentEnd
     ELSE \/ active /\ ActiveFrame(age, severity, frame)
          \/ ~active /\ QuietFrame(age, frame)
          \/ NewSegment(age, severity, frame)
          \/ ~seg.active /\ severity = "none" /\ UNCHANGED <<seg, rowVars>>
  /\ UNCHANGED <<alive, settings, indefinite, ongoing, completed, toggles, restarts>>

-----------------------------------------------------------------------------
(* Audio: any detection prolongs a segment, only the labels of review raise *)
(* or create one, and nothing is published before the next frame.           *)
Audio(age, severity) ==
  /\ age \in 0..MaxLag
  /\ lastSeen' = IF severity = "none" THEN "active" ELSE "qualifying"
  /\ IF ~Processed THEN UNCHANGED <<seg, rowVars>>
     ELSE IF SeverityOff THEN PublishSegmentEnd
     ELSE IF seg.active
     THEN Upsert([seg EXCEPT !.last = Later(@, age), !.alert = @ \/ severity = "alert"], FALSE)
     ELSE IF severity # "none" THEN Upsert(Pending(severity, age), FALSE)
     ELSE UNCHANGED <<seg, rowVars>>
  /\ UNCHANGED <<alive, settings, indefinite, ongoing, videoAge, completed, toggles,
                 restarts>>

-----------------------------------------------------------------------------
(* Manual events: severity is "alert" for the API and "detection" for LPR.  *)

ManualSeverity(kind) ==
  IF kind = "api" THEN Severity(TRUE, FALSE) ELSE Severity(FALSE, TRUE)

\* The segment after a manual event of this kind at this age.
WithManual(kind, age) ==
  IF seg.active
  THEN [seg EXCEPT !.alert = IF ManualSeverity(kind) = "none" THEN @ ELSE kind = "api"]
  ELSE Pending(ManualSeverity(kind), age)

\* An event with a duration: its end_time replaces the last update.
ManualComplete(id, age, duration) ==
  /\ id \notin ongoing \cup indefinite /\ age \in 0..MaxLag
  /\ ongoing' = ongoing \cup {id}
  /\ completed' = TRUE
  /\ IF ~Processed THEN UNCHANGED <<seg, rowVars>>
     ELSE IF SeverityOff THEN PublishSegmentEnd
     ELSE IF seg.active \/ alertsOn
     THEN Upsert([WithManual("api", age) EXCEPT !.last = age - duration], FALSE)
     ELSE UNCHANGED <<seg, rowVars>>
  /\ UNCHANGED <<alive, settings, indefinite, seenVars, toggles, restarts>>

\* Mutant: only a new segment is kept from ending.
ManualStart_NotHeld(id, kind, age) ==
  /\ id \notin ongoing \cup indefinite /\ age \in 0..MaxLag
  /\ ongoing' = ongoing \cup {id}
  /\ IF ~Processed THEN UNCHANGED <<seg, rowVars, indefinite>>
     ELSE IF SeverityOff THEN PublishSegmentEnd /\ UNCHANGED indefinite
     ELSE IF seg.active \/ ManualSeverity(kind) # "none"
     THEN /\ Upsert([WithManual(kind, age) EXCEPT !.last = IF seg.active THEN @ ELSE Held],
                    FALSE)
          /\ indefinite' = indefinite \cup {id}
     ELSE UNCHANGED <<seg, rowVars, indefinite>>
  /\ UNCHANGED <<alive, settings, seenVars, completed, toggles, restarts>>

\* An event without: the segment can not end before the event does.
ManualStart(id, kind, age) ==
  /\ id \notin ongoing \cup indefinite /\ age \in 0..MaxLag
  /\ ongoing' = ongoing \cup {id}
  /\ IF ~Processed THEN UNCHANGED <<seg, rowVars, indefinite>>
     ELSE IF SeverityOff THEN PublishSegmentEnd /\ UNCHANGED indefinite
     ELSE IF seg.active \/ ManualSeverity(kind) # "none"
     THEN /\ Upsert([WithManual(kind, age) EXCEPT !.last = Held], FALSE)
          /\ indefinite' = indefinite \cup {id}
     ELSE UNCHANGED <<seg, rowVars, indefinite>>
  /\ UNCHANGED <<alive, settings, seenVars, completed, toggles, restarts>>

\* Mutant: the event is forgotten, but the segment is not released.
EndHeld_NotReleased(id, age) ==
  /\ indefinite' = indefinite \ {id}
  /\ UNCHANGED <<alive, seg, rowVars>>

\* The end of the last of them lets the segment end again.
EndHeld(id, age) ==
  /\ indefinite' = indefinite \ {id}
  /\ IF id \in indefinite /\ indefinite' = {}
     THEN Upsert([seg EXCEPT !.last = age], FALSE)
     ELSE UNCHANGED <<seg, rowVars>>
  /\ UNCHANGED alive

\* Every end is published on the api topic and carries no label: without a
\* segment, reading the label raises KeyError, which ends the thread.
ManualEnd(id, age) ==
  /\ id \in ongoing /\ age \in 0..MaxLag
  /\ ongoing' = ongoing \ {id}
  /\ IF ~Processed THEN UNCHANGED <<alive, seg, rowVars, indefinite>>
     ELSE IF SeverityOff THEN PublishSegmentEnd /\ UNCHANGED <<alive, indefinite>>
     ELSE IF seg.active THEN EndHeld(id, age)
     ELSE alive' = ~alertsOn /\ UNCHANGED <<seg, rowVars, indefinite>>
  /\ UNCHANGED <<settings, seenVars, completed, toggles, restarts>>

-----------------------------------------------------------------------------
(* Settings arrive through the config subscribers.                          *)

Toggle == alive /\ toggles < MaxToggles /\ toggles' = toggles + 1

CameraSetting(on) ==
  /\ Toggle /\ cameraOn # on
  /\ cameraOn' = on
  /\ IF on THEN UNCHANGED <<seg, rowVars>> ELSE EndSegment
  /\ UNCHANGED <<alive, recordOn, alertsOn, detectionsOn, indefinite, ongoing, seenVars,
                 completed, restarts>>

RecordSetting(on) ==
  /\ Toggle /\ recordOn # on
  /\ recordOn' = on
  /\ IF on THEN UNCHANGED <<seg, rowVars>> ELSE EndSegment
  /\ UNCHANGED <<alive, cameraOn, alertsOn, detectionsOn, indefinite, ongoing, seenVars,
                 completed, restarts>>

ReviewSetting(alerts, detections) ==
  /\ Toggle /\ <<alerts, detections>> # <<alertsOn, detectionsOn>>
  /\ alertsOn' = alerts /\ detectionsOn' = detections
  /\ UNCHANGED <<alive, cameraOn, recordOn, seg, rowVars, indefinite, ongoing, seenVars,
                 completed, restarts>>

\* A restarted program gives the ongoing rows of its predecessor an end_time
\* before it looks at anything: every message is at most MaxLag older.
Aged(age) == IF age = Held THEN Held ELSE IF age + MaxLag > Cap THEN Cap ELSE age + MaxLag

Restart ==
  /\ restarts < MaxRestarts
  /\ restarts' = restarts + 1
  /\ alive' = TRUE
  /\ cameraOn' = TRUE /\ recordOn' = TRUE /\ alertsOn' = TRUE /\ detectionsOn' = TRUE
  /\ seg' = NoSegment
  /\ openRows' = 0 /\ prevEnd' = Later(IF openRows > 0 THEN MaxLag ELSE Cap, Aged(prevEnd))
  /\ indefinite' = {} /\ ongoing' = {}
  /\ videoAge' = Cap /\ lastSeen' = "quiet"
  /\ UNCHANGED <<completed, toggles>>

-----------------------------------------------------------------------------
\* The severities the current settings allow.
Severities == {Severity(a, d) : a, d \in BOOLEAN}

Frames ==
  \E age \in 0..MaxLag, severity \in Severities, active, frame \in BOOLEAN :
    Frame(age, severity, active, frame)

Sounds == \E age \in 0..MaxLag, severity \in Severities : Audio(age, severity)

Manual ==
  \E id \in ManualEvents, age \in 0..MaxLag :
    \/ ManualEnd(id, age)
    \/ \E kind \in {"api", "lpr"} : ManualStart(id, kind, age)
    \/ \E duration \in 1..MaxDuration : ManualComplete(id, age, duration)

Settings ==
  \/ \E on \in BOOLEAN : CameraSetting(on) \/ RecordSetting(on)
  \/ \E alerts, detections \in BOOLEAN : ReviewSetting(alerts, detections)

Next == Tick \/ Frames \/ Sounds \/ Manual \/ Settings \/ Restart

Spec == Init /\ [][Next]_vars
-----------------------------------------------------------------------------
(* Properties *)

\* Whatever ends a segment (time, a setting, its kind of review being off), a row
\* without an end_time is the active segment's: no review is left ongoing.
OpenRowIsActive == openRows = (IF seg.active /\ seg.stored THEN 1 ELSE 0)

\* "Reviews for a single camera cannot overlap" (docs, review.md): the active
\* segment starts no earlier than any ended one of its camera ended, however old
\* the frames, sounds and manual events are that it is made of.
ReviewsCannotOverlap == seg.active => prevEnd >= seg.start \/ seg.start = Cap

\* While a manual event without a duration is going on, its segment does not end:
\* only an event with a duration takes the place of sys.maxsize.
ManualEventHolds ==
  ~completed => \A id \in ongoing : seg.active /\ seg.last = Held

-----------------------------------------------------------------------------
(* Fairness: time passes, and frames keep coming, not all of them lost.     *)
AvailableFrame ==
  \E age \in 0..MaxLag, severity \in Severities, active \in BOOLEAN :
    Frame(age, severity, active, TRUE)

FairSpec == Spec /\ WF_vars(Tick) /\ SF_vars(AvailableFrame)

\* When the activity and the manual events are over for good, the segment ends
\* (and its end is published).
QuietSegmentEnds ==
  <>[](lastSeen = "quiet" /\ ongoing = {}) => []<>(~seg.active)

\* "The first message is published when the detection or alert is initiated"
\* (mqtt.md): activity that qualifies is reviewed.
ActivityIsReviewed ==
  lastSeen = "qualifying" /\ cameraOn /\ recordOn
    ~> seg.active \/ lastSeen # "qualifying" \/ ~cameraOn \/ ~recordOn
=============================================================================
