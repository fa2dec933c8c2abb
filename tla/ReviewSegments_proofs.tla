------------------------ MODULE ReviewSegments_proofs ------------------------
(***************************************************************************)
(* Proofs about ReviewSegments: its variables keep their types, and a row  *)
(* without an end_time is always that of the active segment, for any       *)
(* manual events, thresholds, delays and number of settings and restarts;  *)
(* while every kind of review is on, reviews do not overlap and a manual   *)
(* event holds its segment.                                                *)
(*                                                                         *)
(* OpenRowIsActive is not inductive: a segment that is not pending could   *)
(* be marked as stored.  The invariant adds that it is not.  Neither are   *)
(* the other two: ManualInv adds that the latest end is older than any     *)
(* message to come, and that the maintainer lives and knows the events     *)
(* that are going on.                                                      *)
(***************************************************************************)
EXTENDS ReviewSegments, TLAPS

\* The segment and its row.
SegmentOK ==
  /\ seg \in Segment
  /\ openRows \in {0, 1} /\ prevEnd \in Ages
  /\ OpenRowIsActive
  /\ seg.stored => seg.active

\* The other variables.
RestOK ==
  /\ alive \in BOOLEAN /\ cameraOn \in BOOLEAN /\ recordOn \in BOOLEAN
  /\ alertsOn \in BOOLEAN /\ detectionsOn \in BOOLEAN
  /\ indefinite \subseteq ManualEvents /\ ongoing \subseteq ManualEvents
  /\ videoAge \in 0..Cap /\ lastSeen \in {"quiet", "active", "qualifying"}
  /\ completed \in BOOLEAN
  /\ toggles \in 0..MaxToggles /\ restarts \in 0..MaxRestarts

IInv == SegmentOK /\ RestOK

-----------------------------------------------------------------------------
(* Ages *)

\* The ages are a range of integers around zero that holds every message's age.
LEMMA AgesRange ==
  /\ Cap \in Nat /\ Held \in Int /\ Held < 0 /\ MaxLag < Cap
  /\ Cap \in Ages /\ Held \in Ages
  /\ 0..Cap \subseteq Ages /\ 0..MaxLag \subseteq Ages /\ 0..MaxLag \subseteq 0..Cap
BY TimesAssumption DEF Ages, Cap, Held, Longest

\* A second more, at most Cap, keeps an age an age.
LEMMA OlderIsAge == ASSUME NEW a \in Ages PROVE Older(a) \in Ages
BY AgesRange DEF Ages, Older

\* The later of two times is one of them.
LEMMA LaterIsAge == ASSUME NEW a \in Ages, NEW b \in Ages PROVE Later(a, b) \in Ages
BY DEF Later

\* The end of an event with a duration is an age, short of Held.
LEMMA DurationIsAge ==
  ASSUME NEW a \in 0..MaxLag, NEW d \in 1..MaxDuration
  PROVE  a - d \in Ages
BY TimesAssumption, AgesRange DEF Ages, Held

\* A restart makes an age an older one.
LEMMA AgedIsAge == ASSUME NEW a \in Ages PROVE Aged(a) \in Ages
BY TimesAssumption, AgesRange DEF Ages, Aged

-----------------------------------------------------------------------------
(* Segments *)

\* There is no pending segment in NoSegment, and Pending makes one that is not
\* stored.
LEMMA SegmentsMade ==
  /\ NoSegment \in Segment /\ ~NoSegment.active /\ ~NoSegment.stored
  /\ \A severity : \A age \in Ages :
       /\ Pending(severity, age) \in Segment
       /\ Pending(severity, age).active /\ ~Pending(severity, age).stored
BY AgesRange DEF NoSegment, Segment, Pending

\* Ending a segment ends its row.
LEMMA EndKeepsSegmentOK ==
  ASSUME SegmentOK, PublishSegmentEnd
  PROVE  SegmentOK'
BY SegmentsMade, LaterIsAge DEF SegmentOK, PublishSegmentEnd, OpenRowIsActive, Segment

\* An upsert leaves at most one row, that of the segment.
LEMMA UpsertKeepsSegmentOK ==
  ASSUME SegmentOK, NEW s \in Segment, s.active, s.stored = seg.stored,
         NEW publish \in BOOLEAN, Upsert(s, publish)
  PROVE  SegmentOK'
BY DEF SegmentOK, Upsert, OpenRowIsActive, Segment

\* What is left alone stays right.
LEMMA UnchangedKeepsSegmentOK ==
  ASSUME SegmentOK, UNCHANGED <<seg, rowVars>>
  PROVE  SegmentOK'
BY DEF SegmentOK, OpenRowIsActive, rowVars

-----------------------------------------------------------------------------
(* The initial state and the steps *)

LEMMA InitIInv == Init => IInv
<1> SUFFICES ASSUME Init PROVE IInv
  OBVIOUS
<1>1. SegmentOK
  BY SegmentsMade, AgesRange DEF Init, SegmentOK, OpenRowIsActive
<1>2. Cap \in 0..Cap /\ 0 \in 0..MaxToggles /\ 0 \in 0..MaxRestarts
  BY AgesRange, ReviewBoundsAssumption
<1>3. RestOK
  BY <1>2 DEF Init, RestOK
<1> QED BY <1>1, <1>3 DEF IInv

LEMMA TickStep == IInv /\ Tick => IInv'
<1> SUFFICES ASSUME IInv, Tick PROVE IInv'
  OBVIOUS
<1> USE DEF IInv
<1>1. Older(prevEnd) \in Ages /\ Older(seg.start) \in Ages /\ Older(seg.last) \in Ages
  BY OlderIsAge DEF SegmentOK, Segment
<1>2. SegmentOK'
  BY <1>1 DEF Tick, SegmentOK, Segment, OpenRowIsActive
<1>3. Older(videoAge) \in 0..Cap
  BY AgesRange DEF RestOK, Older
<1>4. RestOK'
  BY <1>3 DEF Tick, RestOK, settings
<1> QED BY <1>2, <1>4

LEMMA FrameStep ==
  ASSUME IInv, NEW age \in 0..MaxLag, NEW severity, NEW active \in BOOLEAN,
         NEW frame \in BOOLEAN, Frame(age, severity, active, frame)
  PROVE  IInv'
<1> USE DEF IInv
<1>1. age \in Ages
  BY AgesRange
<1>2. SegmentOK'
  <2>1. CASE UNCHANGED <<seg, rowVars>>
    BY <2>1, UnchangedKeepsSegmentOK
  <2>2. CASE PublishSegmentEnd
    BY <2>2, EndKeepsSegmentOK
  <2>3. CASE ActiveFrame(age, severity, frame)
    <3>1. Later(seg.last, age) \in Ages
      BY <1>1, LaterIsAge DEF SegmentOK, Segment
    <3>2. PICK publish, drawn \in BOOLEAN :
            Upsert([seg EXCEPT !.last = Later(@, age), !.alert = @ \/ severity = "alert",
                               !.drawn = @ \/ drawn], publish)
      BY <2>3 DEF ActiveFrame
    <3>3. [seg EXCEPT !.last = Later(@, age), !.alert = @ \/ severity = "alert",
                      !.drawn = @ \/ drawn] \in Segment
      BY <3>1 DEF SegmentOK, Segment
    <3>4. seg.active
      BY <2>3 DEF ActiveFrame
    <3> DEFINE s == [seg EXCEPT !.last = Later(@, age), !.alert = @ \/ severity = "alert",
                                !.drawn = @ \/ drawn]
    <3>5. s.active /\ s.stored = seg.stored
      BY <3>4 DEF SegmentOK, Segment
    <3> HIDE DEF s
    <3>6. Upsert(s, publish) /\ s \in Segment
      BY <3>2, <3>3 DEF s
    <3> QED BY <3>5, <3>6, UpsertKeepsSegmentOK
  <2>4. CASE QuietFrame(age, frame)
    <3> DEFINE s == [seg EXCEPT !.drawn = TRUE]
    <3>1. s \in Segment /\ s.active /\ s.stored = seg.stored
      BY <2>4 DEF QuietFrame, SegmentOK, Segment
    <3>2. \/ UNCHANGED <<seg, rowVars>>
          \/ PublishSegmentEnd
          \/ Upsert(s, ~seg.drawn)
      BY <2>4 DEF QuietFrame
    <3>3. CASE Upsert(s, ~seg.drawn)
      <4> DEFINE publish == ~seg.drawn
      <4>1. publish \in BOOLEAN /\ Upsert(s, publish)
        BY <3>3
      <4> HIDE DEF s, publish
      <4> QED BY <3>1, <4>1, UpsertKeepsSegmentOK
    <3> QED BY <3>2, <3>3, <2>1, <2>2
  <2>5. CASE NewSegment(age, severity, frame)
    <3>1. PICK drawn \in BOOLEAN :
            Upsert([Pending(severity, age) EXCEPT !.drawn = drawn], frame)
      BY <2>5 DEF NewSegment
    <3> DEFINE s == [Pending(severity, age) EXCEPT !.drawn = drawn]
    <3>2. s \in Segment /\ s.active /\ ~s.stored
      BY <1>1, SegmentsMade DEF Segment
    <3>3. ~seg.stored /\ seg.stored \in BOOLEAN
      BY <2>5 DEF NewSegment, SegmentOK, Segment
    <3>4. s.stored \in BOOLEAN
      BY <3>2 DEF Segment
    <3>5. Upsert(s, frame)
      BY <3>1
    <3> HIDE DEF s
    <3> QED BY <3>2, <3>3, <3>4, <3>5, UpsertKeepsSegmentOK
  <2> QED BY <2>1, <2>2, <2>3, <2>4, <2>5 DEF Frame
<1>3. RestOK'
  BY AgesRange DEF Frame, NextFrame, RestOK, settings
<1> QED BY <1>2, <1>3

LEMMA AudioStep ==
  ASSUME IInv, NEW age \in 0..MaxLag, NEW severity, Audio(age, severity)
  PROVE  IInv'
<1> USE DEF IInv
<1>1. age \in Ages
  BY AgesRange
<1>2. SegmentOK'
  <2> DEFINE longer == [seg EXCEPT !.last = Later(@, age), !.alert = @ \/ severity = "alert"]
  <2>1. CASE UNCHANGED <<seg, rowVars>>
    BY <2>1, UnchangedKeepsSegmentOK
  <2>2. CASE PublishSegmentEnd
    BY <2>2, EndKeepsSegmentOK
  <2>3. CASE seg.active /\ Upsert(longer, FALSE)
    <3>1. Later(seg.last, age) \in Ages
      BY <1>1, LaterIsAge DEF SegmentOK, Segment
    <3>2. longer \in Segment /\ longer.active /\ longer.stored = seg.stored
      BY <2>3, <3>1 DEF SegmentOK, Segment
    <3> HIDE DEF longer
    <3> QED BY <2>3, <3>2, UpsertKeepsSegmentOK
  <2>4. CASE ~seg.active /\ Upsert(Pending(severity, age), FALSE)
    <3> DEFINE s == Pending(severity, age)
    <3>1. s \in Segment /\ s.active /\ ~s.stored /\ s.stored \in BOOLEAN
      BY <1>1, SegmentsMade DEF Segment
    <3>2. ~seg.stored /\ seg.stored \in BOOLEAN
      BY <2>4 DEF SegmentOK, Segment
    <3>3. Upsert(s, FALSE)
      BY <2>4
    <3> HIDE DEF s
    <3> QED BY <3>1, <3>2, <3>3, UpsertKeepsSegmentOK
  <2> QED BY <2>1, <2>2, <2>3, <2>4 DEF Audio
<1>3. RestOK'
  BY DEF Audio, RestOK, settings
<1> QED BY <1>2, <1>3

\* The segment with a manual event is pending, and stored if it was.
LEMMA WithManualIsSegment ==
  ASSUME SegmentOK, NEW kind, NEW age \in Ages, NEW last \in Ages
  PROVE  LET s == [WithManual(kind, age) EXCEPT !.last = last]
         IN  s \in Segment /\ s.active /\ s.stored = seg.stored
<1> DEFINE w == WithManual(kind, age)
<1>1. CASE seg.active
  <2>1. w = [seg EXCEPT !.alert = IF ManualSeverity(kind) = "none" THEN @ ELSE kind = "api"]
    BY <1>1 DEF WithManual
  <2> QED BY <1>1, <2>1 DEF SegmentOK, Segment
<1>2. CASE ~seg.active
  <2>1. w = Pending(ManualSeverity(kind), age)
    BY <1>2 DEF WithManual
  <2>2. w \in Segment /\ w.active /\ ~w.stored /\ w.stored \in BOOLEAN
    BY <2>1, SegmentsMade DEF Segment
  <2>3. ~seg.stored /\ seg.stored \in BOOLEAN
    BY <1>2 DEF SegmentOK, Segment
  <2> HIDE DEF w
  <2>4. [w EXCEPT !.last = last] \in Segment /\ [w EXCEPT !.last = last].active
    BY <2>2 DEF Segment
  <2>5. [w EXCEPT !.last = last].stored = w.stored
    BY <2>2 DEF Segment
  <2>6. w.stored = seg.stored
    BY <2>2, <2>3
  <2> QED BY <2>4, <2>5, <2>6 DEF w
<1> QED BY <1>1, <1>2

\* So upserting it keeps the row right.
LEMMA ManualKeepsSegmentOK ==
  ASSUME SegmentOK, NEW kind, NEW age \in Ages, NEW last \in Ages,
         Upsert([WithManual(kind, age) EXCEPT !.last = last], FALSE)
  PROVE  SegmentOK'
<1> DEFINE s == [WithManual(kind, age) EXCEPT !.last = last]
<1>1. s \in Segment /\ s.active /\ s.stored = seg.stored
  BY WithManualIsSegment
<1>2. Upsert(s, FALSE)
  OBVIOUS
<1> HIDE DEF s
<1> QED BY <1>1, <1>2, UpsertKeepsSegmentOK

LEMMA ManualCompleteStep ==
  ASSUME IInv, NEW id \in ManualEvents, NEW age \in 0..MaxLag,
         NEW duration \in 1..MaxDuration, ManualComplete(id, age, duration)
  PROVE  IInv'
<1> USE DEF IInv
<1>1. age \in Ages /\ age - duration \in Ages
  BY AgesRange, DurationIsAge
<1>2. SegmentOK'
  <2>1. \/ UNCHANGED <<seg, rowVars>>
        \/ PublishSegmentEnd
        \/ Upsert([WithManual("api", age) EXCEPT !.last = age - duration], FALSE)
    BY DEF ManualComplete
  <2> QED BY <1>1, <2>1, UnchangedKeepsSegmentOK, EndKeepsSegmentOK, ManualKeepsSegmentOK
<1>3. RestOK'
  BY DEF ManualComplete, RestOK, settings, seenVars
<1> QED BY <1>2, <1>3

LEMMA ManualStartStep ==
  ASSUME IInv, NEW id \in ManualEvents, NEW kind, NEW age \in 0..MaxLag,
         ManualStart(id, kind, age)
  PROVE  IInv'
<1> USE DEF IInv
<1>1. age \in Ages /\ Held \in Ages
  BY AgesRange
<1>2. SegmentOK'
  <2>1. \/ UNCHANGED <<seg, rowVars>>
        \/ PublishSegmentEnd
        \/ Upsert([WithManual(kind, age) EXCEPT !.last = Held], FALSE)
    BY DEF ManualStart
  <2> QED BY <1>1, <2>1, UnchangedKeepsSegmentOK, EndKeepsSegmentOK, ManualKeepsSegmentOK
<1>3. RestOK'
  BY DEF ManualStart, RestOK, settings, seenVars
<1> QED BY <1>2, <1>3

LEMMA ManualEndStep ==
  ASSUME IInv, NEW id \in ManualEvents, NEW age \in 0..MaxLag, ManualEnd(id, age)
  PROVE  IInv'
<1> USE DEF IInv
<1>1. age \in Ages
  BY AgesRange
<1>2. SegmentOK'
  <2> DEFINE s == [seg EXCEPT !.last = age]
  <2>1. \/ UNCHANGED <<seg, rowVars>>
        \/ PublishSegmentEnd
        \/ seg.active /\ Upsert(s, FALSE)
    BY DEF ManualEnd, EndHeld
  <2>2. CASE seg.active /\ Upsert(s, FALSE)
    <3>1. s \in Segment /\ s.active /\ s.stored = seg.stored
      BY <1>1, <2>2 DEF SegmentOK, Segment
    <3> HIDE DEF s
    <3> QED BY <2>2, <3>1, UpsertKeepsSegmentOK
  <2> QED BY <2>1, <2>2, UnchangedKeepsSegmentOK, EndKeepsSegmentOK
<1>3. RestOK'
  BY DEF ManualEnd, EndHeld, RestOK, settings, seenVars
<1> QED BY <1>2, <1>3

LEMMA SettingsStep == IInv /\ Settings => IInv'
<1> SUFFICES ASSUME IInv, Settings PROVE IInv'
  OBVIOUS
<1> USE DEF IInv
<1>1. SegmentOK'
  <2>1. UNCHANGED <<seg, rowVars>> \/ PublishSegmentEnd
    BY DEF Settings, CameraSetting, RecordSetting, ReviewSetting, EndSegment
  <2> QED BY <2>1, UnchangedKeepsSegmentOK, EndKeepsSegmentOK
<1>2. ASSUME Toggle PROVE toggles' \in 0..MaxToggles
  BY <1>2, ReviewBoundsAssumption DEF Toggle, RestOK
<1>3. RestOK'
  BY <1>2 DEF Settings, CameraSetting, RecordSetting, ReviewSetting, Toggle, RestOK,
              seenVars
<1> QED BY <1>1, <1>3

LEMMA RestartStep == IInv /\ Restart => IInv'
<1> SUFFICES ASSUME IInv, Restart PROVE IInv'
  OBVIOUS
<1> USE DEF IInv
<1>1. Aged(prevEnd) \in Ages
  BY AgedIsAge DEF SegmentOK
<1>2. MaxLag \in Ages /\ Cap \in Ages /\ Cap \in 0..Cap
  BY TimesAssumption, AgesRange
<1>3. prevEnd' \in Ages
  BY <1>1, <1>2, LaterIsAge DEF Restart
<1>4. SegmentOK'
  BY <1>3, SegmentsMade DEF Restart, SegmentOK, OpenRowIsActive
<1>5. restarts' \in 0..MaxRestarts
  BY ReviewBoundsAssumption DEF Restart, RestOK
<1>6. RestOK'
  BY <1>2, <1>5 DEF Restart, RestOK
<1> QED BY <1>4, <1>6

-----------------------------------------------------------------------------
(* The theorems *)

LEMMA NextIInv == IInv /\ [Next]_vars => IInv'
<1> SUFFICES ASSUME IInv, [Next]_vars PROVE IInv'
  OBVIOUS
<1>1. CASE Tick
  BY <1>1, TickStep
<1>2. CASE Frames
  BY <1>2, FrameStep DEF Frames
<1>3. CASE Sounds
  BY <1>3, AudioStep DEF Sounds
<1>4. CASE Manual
  BY <1>4, ManualCompleteStep, ManualStartStep, ManualEndStep DEF Manual
<1>5. CASE Settings
  BY <1>5, SettingsStep
<1>6. CASE Restart
  BY <1>6, RestartStep
<1>7. CASE UNCHANGED vars
  BY <1>7 DEF vars, IInv, SegmentOK, RestOK, OpenRowIsActive
<1> QED BY <1>1, <1>2, <1>3, <1>4, <1>5, <1>6, <1>7 DEF Next

\* ReviewSegmentMaintainer's variables keep their types: in particular a camera
\* never has two rows without an end_time, and every time is a possible age.
THEOREM ReviewTypeCorrect == Spec => []TypeOK
<1>1. IInv => TypeOK
  BY DEF IInv, SegmentOK, RestOK, TypeOK
<1> QED BY <1>1, InitIInv, NextIInv, PTL DEF Spec

\* A row without an end_time is that of the active segment, so no review is left
\* ongoing by a setting, by a restart, or by the death of the thread.
THEOREM NoReviewLeftOpen == Spec => []OpenRowIsActive
<1>1. IInv => OpenRowIsActive
  BY DEF IInv, SegmentOK
<1> QED BY <1>1, InitIInv, NextIInv, PTL DEF Spec

-----------------------------------------------------------------------------
(* Reviews do not overlap, and manual events hold theirs                    *)

\* Every kind of review is on, and will be.
AllOn == cameraOn /\ recordOn /\ alertsOn /\ detectionsOn /\ toggles = 0

\* No message that is still to be handled is older than the latest end: what ends a segment is
\* a frame that is a threshold younger than its last update.
EndsArePast == prevEnd >= MaxLag /\ ReviewsCannotOverlap

\* The events of the object processor are those of the maintainer, which is alive.
EventsHold ==
  ~completed =>
    /\ alive /\ ongoing = indefinite
    /\ ongoing # {} => seg.active /\ seg.last = Held

\* What a message may do to the segment while every kind of review is on.
SegmentStep ==
  \/ UNCHANGED <<seg, rowVars>>
  \/ PublishSegmentEnd /\ seg.active /\ seg.last > MaxLag
  \/ /\ prevEnd' = prevEnd /\ seg'.active
     /\ \/ seg.active /\ seg'.start = seg.start
        \/ ~seg.active /\ seg'.start <= MaxLag

\* A message that is not about a manual event does not move an update that no time reaches.
StaysHeld == seg.active /\ seg.last = Held => seg'.active /\ seg'.last = Held

LEMMA FrameSegment ==
  ASSUME IInv, AllOn, MaxLag <= ThresholdAlert, MaxLag <= ThresholdDetection,
         NEW age \in 0..MaxLag, NEW severity, NEW active \in BOOLEAN, NEW frame \in BOOLEAN,
         Frame(age, severity, active, frame)
  PROVE  SegmentStep /\ StaysHeld
<1>1. /\ seg \in Segment /\ seg.last \in Int /\ seg.start \in Int
      /\ age \in Int /\ age >= 0 /\ age <= MaxLag /\ MaxLag \in Int
      /\ Held \in Int /\ Held < 0 /\ ThresholdAlert \in Nat /\ ThresholdDetection \in Nat
  BY AgesRange, TimesAssumption DEF IInv, SegmentOK, Segment, Ages
<1>2. ~SeverityOff
  BY DEF AllOn, SeverityOff
<1>3. CASE UNCHANGED <<seg, rowVars>>
  BY <1>3 DEF SegmentStep, StaysHeld
<1>4. CASE ActiveFrame(age, severity, frame)
  <2>1. PICK publish, drawn \in BOOLEAN :
          Upsert([seg EXCEPT !.last = Later(@, age), !.alert = @ \/ severity = "alert",
                             !.drawn = @ \/ drawn], publish)
    BY <1>4 DEF ActiveFrame
  <2>2. /\ seg.active /\ seg'.active /\ seg'.start = seg.start /\ prevEnd' = prevEnd
        /\ seg'.last = Later(seg.last, age)
    BY <1>1, <1>4, <2>1 DEF ActiveFrame, Upsert, Segment
  <2> QED BY <1>1, <2>2 DEF SegmentStep, StaysHeld, Later
<1>5. CASE QuietFrame(age, frame)
  <2>1. CASE PublishSegmentEnd /\ seg.active
             /\ \/ seg.last - age > ThresholdAlert
                \/ seg.last - age > ThresholdDetection
    BY <1>1, <2>1 DEF SegmentStep, StaysHeld
  <2>2. CASE seg.active /\ Upsert([seg EXCEPT !.drawn = TRUE], ~seg.drawn)
    <3>1. /\ seg'.active /\ seg'.start = seg.start /\ prevEnd' = prevEnd /\ seg'.last = seg.last
      BY <1>1, <2>2 DEF Upsert, Segment
    <3> QED BY <2>2, <3>1 DEF SegmentStep, StaysHeld
  <2> QED BY <1>3, <1>5, <2>1, <2>2 DEF QuietFrame
<1>6. CASE NewSegment(age, severity, frame)
  <2>1. PICK drawn \in BOOLEAN :
          Upsert([Pending(severity, age) EXCEPT !.drawn = drawn], frame)
    BY <1>6 DEF NewSegment
  <2>2. seg'.active /\ seg'.start = age /\ prevEnd' = prevEnd /\ ~seg.active
    BY <1>6, <2>1 DEF Upsert, NewSegment, Pending, NoSegment
  <2> QED BY <1>1, <2>2 DEF SegmentStep, StaysHeld
<1> QED BY <1>2, <1>3, <1>4, <1>5, <1>6 DEF Frame

LEMMA AudioSegment ==
  ASSUME IInv, AllOn, NEW age \in 0..MaxLag, NEW severity, Audio(age, severity)
  PROVE  SegmentStep /\ StaysHeld
<1>1. /\ seg \in Segment /\ seg.last \in Int /\ seg.start \in Int
      /\ age \in Int /\ age >= 0 /\ age <= MaxLag /\ Held \in Int /\ Held < 0
  BY AgesRange, TimesAssumption DEF IInv, SegmentOK, Segment, Ages
<1>2. ~SeverityOff
  BY DEF AllOn, SeverityOff
<1>3. CASE UNCHANGED <<seg, rowVars>>
  BY <1>3 DEF SegmentStep, StaysHeld
<1>4. CASE seg.active /\ Upsert([seg EXCEPT !.last = Later(@, age),
                                            !.alert = @ \/ severity = "alert"], FALSE)
  <2>1. /\ seg'.active /\ seg'.start = seg.start /\ prevEnd' = prevEnd
        /\ seg'.last = Later(seg.last, age)
    BY <1>1, <1>4 DEF Upsert, Segment
  <2> QED BY <1>1, <1>4, <2>1 DEF SegmentStep, StaysHeld, Later
<1>5. CASE ~seg.active /\ Upsert(Pending(severity, age), FALSE)
  <2>1. seg'.active /\ seg'.start = age /\ prevEnd' = prevEnd
    BY <1>5 DEF Upsert, Pending, NoSegment
  <2> QED BY <1>1, <1>5, <2>1 DEF SegmentStep, StaysHeld
<1> QED BY <1>2, <1>3, <1>4, <1>5 DEF Audio

\* A manual event makes or takes a pending segment.
LEMMA ManualSegment ==
  ASSUME IInv, NEW kind, NEW age \in 0..MaxLag, NEW last,
         Upsert([WithManual(kind, age) EXCEPT !.last = last], FALSE)
  PROVE  SegmentStep /\ seg'.active /\ seg'.last = last
<1>1. seg \in Segment
  BY DEF IInv, SegmentOK
<1>2. CASE seg.active
  <2>1. seg'.active /\ seg'.start = seg.start /\ prevEnd' = prevEnd /\ seg'.last = last
    BY <1>1, <1>2 DEF Upsert, WithManual, Segment
  <2> QED BY <1>2, <2>1 DEF SegmentStep
<1>3. CASE ~seg.active
  <2>1. seg'.active /\ seg'.start = age /\ prevEnd' = prevEnd /\ seg'.last = last
    BY <1>3 DEF Upsert, WithManual, Pending, NoSegment
  <2> QED BY <1>3, <2>1, TimesAssumption DEF SegmentStep
<1> QED BY <1>2, <1>3

\* Reviews do not overlap after any such step.
LEMMA NoOverlap ==
  ASSUME IInv, IInv', EndsArePast, SegmentStep
  PROVE  EndsArePast'
<1>1. /\ seg.last \in Int /\ seg.start \in Int /\ prevEnd \in Int /\ MaxLag \in Int
      /\ seg'.start \in Int
  BY TimesAssumption, AgesRange DEF IInv, SegmentOK, Segment, Ages
<1>2. CASE UNCHANGED <<seg, rowVars>>
  BY <1>2 DEF EndsArePast, ReviewsCannotOverlap, rowVars
<1>3. CASE PublishSegmentEnd /\ seg.last > MaxLag
  BY <1>1, <1>3, SegmentsMade DEF EndsArePast, ReviewsCannotOverlap, PublishSegmentEnd, Later
<1>4. CASE /\ prevEnd' = prevEnd /\ seg'.active
           /\ \/ seg.active /\ seg'.start = seg.start
              \/ ~seg.active /\ seg'.start <= MaxLag
  <2>1. CASE seg.active
    BY <1>1, <1>4, <2>1 DEF EndsArePast, ReviewsCannotOverlap
  <2>2. CASE ~seg.active /\ seg'.start <= MaxLag
    BY <1>1, <1>4, <2>2 DEF EndsArePast, ReviewsCannotOverlap
  <2> QED BY <1>4, <2>1, <2>2
<1> QED BY <1>2, <1>3, <1>4 DEF SegmentStep, rowVars

\* An event that begins holds the segment, and one that ends lets go of it only if it was the
\* last.
LEMMA ManualEventsHold ==
  ASSUME IInv, AllOn, EventsHold, ~completed, NEW id \in ManualEvents, NEW age \in 0..MaxLag,
         ManualEnd(id, age) \/ \E kind \in {"api", "lpr"} : ManualStart(id, kind, age)
  PROVE  SegmentStep /\ EventsHold'
<1>1. Processed /\ ~SeverityOff /\ completed' = completed /\ alive /\ ongoing = indefinite
  BY DEF AllOn, EventsHold, Processed, SeverityOff, ManualEnd, ManualStart, Severity
<1>2. ASSUME NEW kind \in {"api", "lpr"}, ManualStart(id, kind, age)
      PROVE  SegmentStep /\ EventsHold'
  <2>1. ManualSeverity(kind) # "none"
    BY DEF ManualSeverity, Severity, AllOn
  <2>2. /\ Upsert([WithManual(kind, age) EXCEPT !.last = Held], FALSE)
        /\ ongoing' = ongoing \cup {id} /\ indefinite' = indefinite \cup {id} /\ alive' = alive
    BY <1>1, <1>2, <2>1 DEF ManualStart
  <2>3. SegmentStep /\ seg'.active /\ seg'.last = Held
    BY <2>2, ManualSegment
  <2> QED BY <1>1, <2>2, <2>3 DEF EventsHold
<1>3. CASE ManualEnd(id, age)
  <2>1. id \in ongoing /\ ongoing' = ongoing \ {id}
    BY <1>3 DEF ManualEnd
  <2>2. seg.active /\ seg.last = Held
    BY <1>1, <2>1 DEF EventsHold
  <2>3. EndHeld(id, age)
    BY <1>1, <1>3, <2>2 DEF ManualEnd
  <2>4. CASE indefinite' = {}
    <3>1. Upsert([seg EXCEPT !.last = age], FALSE) /\ alive' /\ ongoing' = {}
      BY <1>1, <2>1, <2>3, <2>4 DEF EndHeld
    <3>2. seg'.active /\ seg'.start = seg.start /\ prevEnd' = prevEnd
      BY <2>2, <3>1 DEF Upsert, IInv, SegmentOK, Segment
    <3> QED BY <1>1, <2>2, <2>4, <3>1, <3>2 DEF SegmentStep, EventsHold
  <2>5. CASE indefinite' # {}
    <3>1. UNCHANGED <<seg, rowVars>> /\ alive' = alive /\ indefinite' = ongoing'
      BY <1>1, <2>1, <2>3, <2>5 DEF EndHeld
    <3> QED BY <1>1, <2>2, <3>1 DEF SegmentStep, EventsHold
  <2> QED BY <2>4, <2>5
<1> QED BY <1>2, <1>3

\* With an event of known duration the segment may end; it still does not overlap another.
LEMMA ManualSegmentStep ==
  ASSUME IInv, AllOn, NEW id \in ManualEvents, NEW age \in 0..MaxLag,
         \/ ManualEnd(id, age)
         \/ \E kind \in {"api", "lpr"} : ManualStart(id, kind, age)
         \/ \E duration \in 1..MaxDuration : ManualComplete(id, age, duration)
  PROVE  SegmentStep
<1>1. ~SeverityOff
  BY DEF AllOn, SeverityOff
<1>2. CASE UNCHANGED <<seg, rowVars>>
  BY <1>2 DEF SegmentStep
<1>3. ASSUME NEW kind, NEW last, Upsert([WithManual(kind, age) EXCEPT !.last = last], FALSE)
      PROVE  SegmentStep
  BY <1>3, ManualSegment
<1>4. CASE seg.active /\ Upsert([seg EXCEPT !.last = age], FALSE)
  <2>1. seg'.active /\ seg'.start = seg.start /\ prevEnd' = prevEnd
    BY <1>4 DEF Upsert, IInv, SegmentOK, Segment
  <2> QED BY <1>4, <2>1 DEF SegmentStep
<1> QED BY <1>1, <1>2, <1>3, <1>4 DEF ManualEnd, EndHeld, ManualStart, ManualComplete

\* What the two properties need, for an inductive invariant.
ManualInv == IInv /\ AllOn /\ EndsArePast /\ EventsHold

LEMMA ManualInvInit == ASSUME Init PROVE ManualInv
<1>1. IInv
  BY InitIInv
<1>2. AllOn /\ EventsHold
  BY DEF Init, AllOn, EventsHold
<1>3. EndsArePast
  BY AgesRange, TimesAssumption, SegmentsMade DEF Init, EndsArePast, ReviewsCannotOverlap
<1> QED BY <1>1, <1>2, <1>3 DEF ManualInv

LEMMA ManualInvNext ==
  ASSUME MaxToggles = 0, MaxLag <= ThresholdAlert, MaxLag <= ThresholdDetection,
         ManualInv, [Next]_vars
  PROVE  ManualInv'
<1> USE DEF ManualInv
<1>1. IInv'
  BY NextIInv
<1>2. ASSUME SegmentStep PROVE EndsArePast'
  BY <1>1, <1>2, NoOverlap
<1>3. ASSUME SegmentStep, StaysHeld, UNCHANGED <<settings, toggles, alive, indefinite, ongoing, completed>>
      PROVE  ManualInv'
  <2>1. AllOn' /\ EventsHold'
    BY <1>3 DEF AllOn, EventsHold, StaysHeld, settings
  <2> QED BY <1>1, <1>2, <1>3, <2>1
<1>4. CASE Tick
  <2>1. /\ prevEnd \in Int /\ seg.start \in Int /\ MaxLag \in Int /\ Cap \in Int /\ prevEnd <= Cap
        /\ Held \in Int /\ MaxLag >= 0 /\ Held < 0 /\ MaxLag < Cap /\ seg.start <= Cap
    BY TimesAssumption, AgesRange DEF SegmentOK, IInv, Segment, Ages
  <2>2. /\ prevEnd' = Older(prevEnd) /\ seg' = [seg EXCEPT !.start = Older(@), !.last = Older(@)]
        /\ UNCHANGED <<settings, toggles, alive, indefinite, ongoing, completed>>
    BY <1>4 DEF Tick
  <2>3. seg'.active = seg.active /\ seg'.start = Older(seg.start) /\ seg'.last = Older(seg.last)
    BY <2>2 DEF SegmentOK, IInv, Segment
  <2>4. EndsArePast'
    BY <2>1, <2>2, <2>3 DEF EndsArePast, ReviewsCannotOverlap, Older
  <2>5. AllOn' /\ EventsHold'
    BY <2>2, <2>3 DEF AllOn, EventsHold, settings, Older
  <2> QED BY <1>1, <2>4, <2>5
<1>5. CASE Frames
  <2>1. PICK age \in 0..MaxLag, severity \in Severities, active, frame \in BOOLEAN :
          Frame(age, severity, active, frame)
    BY <1>5 DEF Frames
  <2>2. SegmentStep /\ StaysHeld
    BY <2>1, FrameSegment
  <2>3. UNCHANGED <<settings, toggles, alive, indefinite, ongoing, completed>>
    BY <2>1 DEF Frame
  <2> QED BY <1>3, <2>2, <2>3
<1>6. CASE Sounds
  <2>1. PICK age \in 0..MaxLag, severity \in Severities : Audio(age, severity)
    BY <1>6 DEF Sounds
  <2>2. SegmentStep /\ StaysHeld
    BY <2>1, AudioSegment
  <2>3. UNCHANGED <<settings, toggles, alive, indefinite, ongoing, completed>>
    BY <2>1 DEF Audio
  <2> QED BY <1>3, <2>2, <2>3
<1>7. CASE Manual
  <2>1. PICK id \in ManualEvents, age \in 0..MaxLag :
          \/ ManualEnd(id, age)
          \/ \E kind \in {"api", "lpr"} : ManualStart(id, kind, age)
          \/ \E duration \in 1..MaxDuration : ManualComplete(id, age, duration)
    BY <1>7 DEF Manual
  <2>2. SegmentStep
    BY <2>1, ManualSegmentStep
  <2>3. AllOn'
    BY <2>1 DEF AllOn, ManualEnd, ManualStart, ManualComplete, settings
  <2>4. EventsHold'
    <3>1. CASE completed
      <4>1. completed'
        BY <2>1, <3>1 DEF ManualEnd, ManualStart, ManualComplete
      <4> QED BY <4>1 DEF EventsHold
    <3>2. CASE \E duration \in 1..MaxDuration : ManualComplete(id, age, duration)
      <4>1. completed'
        BY <3>2 DEF ManualComplete
      <4> QED BY <4>1 DEF EventsHold
    <3>3. CASE /\ ~completed
               /\ ManualEnd(id, age) \/ \E kind \in {"api", "lpr"} : ManualStart(id, kind, age)
      BY <3>3, ManualEventsHold
    <3> QED BY <2>1, <3>1, <3>2, <3>3
  <2> QED BY <1>1, <1>2, <2>2, <2>3, <2>4
<1>8. CASE Settings
  <2>1. Toggle
    BY <1>8 DEF Settings, CameraSetting, RecordSetting, ReviewSetting
  <2> QED BY <2>1 DEF Toggle, AllOn
<1>9. CASE Restart
  <2>1. AllOn' /\ EventsHold'
    BY <1>9 DEF Restart, AllOn, EventsHold
  <2>2. /\ prevEnd \in Int /\ MaxLag \in Int /\ Cap \in Int /\ MaxLag >= 0
        /\ MaxLag < Cap /\ prevEnd >= MaxLag /\ Held < 0 /\ Held \in Int
    BY TimesAssumption, AgesRange DEF SegmentOK, IInv, Ages, EndsArePast
  <2>3. prevEnd' >= MaxLag /\ ~seg'.active
    BY <1>9, <2>2, SegmentsMade DEF Restart, Later, Aged
  <2> QED BY <1>1, <2>1, <2>3 DEF EndsArePast, ReviewsCannotOverlap
<1>10. CASE UNCHANGED vars
  BY <1>1, <1>10 DEF vars, AllOn, EndsArePast, ReviewsCannotOverlap, EventsHold
<1> QED BY <1>4, <1>5, <1>6, <1>7, <1>8, <1>9, <1>10 DEF Next

\* As long as no kind of review is turned off and messages are handled within the time without
\* activity that ends a segment, a segment starts after its predecessor ended: whatever frames,
\* sounds, manual events and restarts come.
THEOREM ReviewsDoNotOverlap ==
  ASSUME MaxToggles = 0, MaxLag <= ThresholdAlert, MaxLag <= ThresholdDetection
  PROVE  Spec => []ReviewsCannotOverlap
<1>1. Init => ManualInv
  BY ManualInvInit
<1>2. ManualInv /\ [Next]_vars => ManualInv'
  BY ManualInvNext
<1>3. ManualInv => ReviewsCannotOverlap
  BY DEF ManualInv, EndsArePast
<1> QED BY <1>1, <1>2, <1>3, PTL DEF Spec

\* And no frame, sound or end of another event ends the segment of a manual event that goes on,
\* or lets it end, as long as no event of known duration has been made.
THEOREM ManualEventsHoldTheirSegment ==
  ASSUME MaxToggles = 0, MaxLag <= ThresholdAlert, MaxLag <= ThresholdDetection
  PROVE  Spec => []ManualEventHolds
<1>1. Init => ManualInv
  BY ManualInvInit
<1>2. ManualInv /\ [Next]_vars => ManualInv'
  BY ManualInvNext
<1>3. ManualInv => ManualEventHolds
  BY DEF ManualInv, EventsHold, ManualEventHolds
<1> QED BY <1>1, <1>2, <1>3, PTL DEF Spec
=============================================================================
