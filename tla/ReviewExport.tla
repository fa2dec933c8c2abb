----------------------------- MODULE ReviewExport -----------------------------
(***************************************************************************)
(* Exporting a part of a day's recordings: the dialog of a desktop and the *)
(* drawer of a phone choose a range, or hand it to the timeline, whose two *)
(* handles are dragged between the segments of its zoom.  The range lives  *)
(* in the recording page, the handles' times in the timeline's parent, and *)
(* the places of the handles in the document.                              *)
(***************************************************************************)
EXTENDS Integers, FiniteSets, Sequences

CONSTANTS
  Segments,        \* segmentDuration of each zoom level, the coarsest first
  DayStart, DayEnd,\* timeRange
  Spots,           \* the times that the user drags, plays or types
  Pad,             \* half of the range a timeline export starts with
  MaxExportActs,   \* bound: things the user does
  MaxPosts         \* bound: exports asked for

ASSUME ReviewExportAssumption ==
  /\ Len(Segments) \in Nat \ {0} /\ \A i \in 1..Len(Segments) : Segments[i] \in Nat \ {0}
  /\ DayStart \in Nat \ {0} /\ DayEnd \in Nat /\ DayStart < DayEnd /\ Spots \subseteq Nat \ {0}
  /\ Pad \in Nat /\ {MaxExportActs, MaxPosts} \subseteq Nat

VARIABLES
  recordingPage,        \* RecordingView: exportMode, exportRange, currentTime, showExportPreview, on a phone
  content,     \* ExportContent: selectedOption; "" when it is not mounted
  exportDrawer,\* drawerMode of a phone
  exportEnds,        \* exportStart and exportEnd of the timeline's parent; 0 at first
  bar,         \* the timeline: zoom level, motion data there, what is dragged, scrubbing
  shownAt,     \* the time each export handle shows; 0 when it has no place
  exportPosts,       \* the export requests that are not answered
  exportActs

exportVars == <<recordingPage, content, exportDrawer, exportEnds, bar, shownAt, exportPosts, exportActs>>

NoRange == [after |-> 0, before |-> 0]
Options == {"1", "24", "custom", "timeline"}
Handles == {"start", "end"}

ExportTypeOK ==
  /\ recordingPage.mode \in {"none", "select", "timeline"} /\ recordingPage.range.after \in Int /\ recordingPage.range.before \in Nat
  /\ content \in Options \cup {""} /\ exportDrawer \in {"none", "select", "export"}
  /\ exportEnds \in [Handles -> Nat] /\ shownAt \in [Handles -> Nat]
  /\ bar.zoom \in 1..Len(Segments) /\ bar.dragged \in Handles \cup {"none", "handlebar"}
  /\ Cardinality(exportPosts) <= MaxPosts /\ exportActs \in 0..MaxExportActs

FirstRecordings ==
  {[phone |-> phone, mode |-> "none", range |-> NoRange, current |-> t, preview |-> FALSE, sent |-> 0] :
     phone \in BOOLEAN, t \in Spots}

ExportInit ==
  /\ recordingPage \in FirstRecordings
  /\ content = "" /\ exportDrawer = "none" /\ exportEnds = [h \in Handles |-> 0]
  /\ bar = [zoom |-> 1, loaded |-> FALSE, dragged |-> "none", scrubbing |-> FALSE]
  /\ shownAt = [h \in Handles |-> 0] /\ exportPosts = {} /\ exportActs = 0

\* With the button held down the user only moves, zooms and lets go.
AnyAct == exportActs < MaxExportActs /\ exportActs' = exportActs + 1
ExportAct == bar.dragged = "none" /\ AnyAct

-----------------------------------------------------------------------------
(* The segments of a zoom level *)

AlignStart(t, d) == t - (t % d)
AlignEnd(t, d) == IF t % d = 0 THEN t ELSE t + d - (t % d)
TopSegment(d) == AlignStart(DayEnd, d) + 2 * d
SegmentCount(d) == (DayEnd - DayStart + 4 * d + d - 1) \div d
HasSegment(t, d) ==
  LET below == TopSegment(d) - AlignStart(t, d) IN below >= 0 /\ below \div d < SegmentCount(d)

Duration == Segments[bar.zoom]
HandlesShown(p) == p.mode = "timeline" /\ p.range # NoRange

-----------------------------------------------------------------------------
(* What follows a change of the range: the effects of the timeline *)

Edge(p, h) == IF h = "start" THEN p.range.after ELSE p.range.before

\* useDraggableElement puts a handle where its time is, unless it is dragged or its segment is
\* not in the timeline, and tells the timeline's parent so.
Placed(p, b, h) == HandlesShown(p) /\ b.loaded /\ b.dragged # h /\ HasSegment(Edge(p, h), Segments[b.zoom])

Effects_StartOnly(p, b, e, s) ==
  /\ recordingPage' = IF e["start"] \in {0, exportEnds["start"]} THEN p ELSE [p EXCEPT !.range.after = e["start"]]
  /\ bar' = b /\ exportEnds' = e
  /\ shownAt' = [h \in Handles |-> IF Placed(p, b, h) THEN Edge(p, h) ELSE IF HandlesShown(p) /\ b.loaded THEN s[h] ELSE 0]

\* Another pair of times becomes the range if there is one, and if both handles had a time.
Effects(p, b, e, s) ==
  LET told == [h \in Handles |-> IF Placed(p, b, h) THEN Edge(p, h) ELSE e[h]]
      range == [after |-> told["start"], before |-> told["end"]]
      both == told["start"] # 0 /\ told["end"] # 0 /\ told # exportEnds /\ HandlesShown(p)
      p2 == IF ~both THEN p
            ELSE [p EXCEPT !.range = range,
                           !.current = IF p.range.after # range.after THEN range.after
                                       ELSE IF p.range.before # range.before THEN range.before ELSE @]
      places == [h \in Handles |->
                   IF Placed(p2, b, h) THEN Edge(p2, h)
                   ELSE IF HandlesShown(p2) /\ b.loaded /\ HandlesShown(recordingPage) THEN s[h] ELSE 0]
  IN /\ recordingPage' = p2 /\ bar' = b /\ shownAt' = places
     /\ exportEnds' = [h \in Handles |-> IF Placed(p2, b, h) THEN Edge(p2, h) ELSE told[h]]

Sets(p) == Effects(p, bar, exportEnds, shownAt)
NewRange(a, b) == [after |-> a, before |-> b]

-----------------------------------------------------------------------------
(* onStartExport *)

CanPost(p) == p.range # NoRange /\ p.range.before >= p.range.after
Posted(p) ==
  IF CanPost(p) THEN /\ p.sent < MaxPosts /\ exportPosts' = exportPosts \cup {[n |-> p.sent + 1, range |-> p.range]}
                ELSE exportPosts' = exportPosts
Counted(p) == IF CanPost(p) THEN [p EXCEPT !.sent = @ + 1] ELSE p

ExportDone ==
  /\ \E r \in exportPosts : exportPosts' = exportPosts \ {r}
  /\ Sets([recordingPage EXCEPT !.range = NoRange, !.mode = "none"])
  /\ content' = (IF recordingPage.phone THEN content ELSE "") /\ UNCHANGED <<exportDrawer, exportActs>>

\* Only a message is shown.
ExportFailed ==
  /\ \E r \in exportPosts : exportPosts' = exportPosts \ {r}
  /\ UNCHANGED <<recordingPage, content, exportDrawer, exportEnds, bar, shownAt, exportActs>>

-----------------------------------------------------------------------------
(* The dialog and the drawer *)

\* The dialog's button chooses the last hour at once; the drawer's leaves the range as it is.
OpenDialog ==
  /\ ExportAct /\ ~recordingPage.phone /\ recordingPage.mode # "select" /\ content' = "1"
  /\ Sets([recordingPage EXCEPT !.range = NewRange(DayEnd - 2 * Pad, DayEnd), !.mode = "select"])
  /\ UNCHANGED <<exportDrawer, exportPosts>>

OpenDrawer(mode) ==
  /\ ExportAct /\ recordingPage.phone
  /\ CASE exportDrawer = "none" -> mode = "select"
       [] exportDrawer = "select" -> mode \in {"none", "export"}
       [] OTHER -> mode = "none"
  /\ exportDrawer' = mode /\ content' = (IF mode = "export" THEN "1" ELSE "")
  /\ Sets(IF mode = "export" THEN [recordingPage EXCEPT !.mode = "select"] ELSE recordingPage) /\ UNCHANGED exportPosts

\* Closed from outside, the dialog keeps the range.
CloseDialog ==
  /\ ExportAct /\ ~recordingPage.phone /\ recordingPage.mode = "select" /\ content' = ""
  /\ Sets([recordingPage EXCEPT !.mode = "none"]) /\ UNCHANGED <<exportDrawer, exportPosts>>

CancelContent ==
  /\ ExportAct /\ content # "" /\ content' = ""
  /\ Sets([recordingPage EXCEPT !.mode = "none", !.range = NoRange])
  /\ exportDrawer' = (IF recordingPage.phone THEN "select" ELSE exportDrawer) /\ UNCHANGED exportPosts

\* The timeline's option has no start of its own yet.
OnSelectTime(o) ==
  /\ ExportAct /\ content \notin {"", o} /\ content' = o
  /\ Sets([recordingPage EXCEPT !.range = NewRange(CASE o \in {"1", "custom"} -> DayEnd - 2 * Pad [] o = "24" -> DayStart [] OTHER -> 0, DayEnd)])
  /\ UNCHANGED <<exportDrawer, exportPosts>>

CustomTime(h, t) ==
  /\ ExportAct /\ content = "custom"
  /\ Sets([recordingPage EXCEPT !.range = IF h = "start" THEN [@ EXCEPT !.after = t] ELSE [@ EXCEPT !.before = t]])
  /\ UNCHANGED <<content, exportDrawer, exportPosts>>

\* The content's button: the range goes to the timeline, or is exported and the dialog closed.
ToTimeline ==
  /\ ExportAct /\ content = "timeline" /\ content' = ""
  /\ Sets([recordingPage EXCEPT !.range = NewRange(recordingPage.current - Pad, recordingPage.current + Pad), !.mode = "timeline"])
  /\ exportDrawer' = "none" /\ UNCHANGED exportPosts

SubmitContent ==
  /\ ExportAct /\ content \notin {"", "timeline"} /\ Posted(recordingPage)
  /\ Sets(Counted([recordingPage EXCEPT !.mode = "none"]))
  /\ content' = (IF recordingPage.phone THEN "1" ELSE "") /\ UNCHANGED exportDrawer

-----------------------------------------------------------------------------
(* The overlay over the timeline *)

\* A phone's cancel keeps the range.
CancelOverlay ==
  /\ ExportAct /\ recordingPage.mode = "timeline"
  /\ Sets([recordingPage EXCEPT !.mode = "none", !.range = IF recordingPage.phone THEN @ ELSE NoRange])
  /\ UNCHANGED <<content, exportDrawer, exportPosts>>

SaveOverlay ==
  /\ ExportAct /\ recordingPage.mode = "timeline" /\ Posted(recordingPage) /\ Sets(Counted(recordingPage)) /\ UNCHANGED <<content, exportDrawer>>

Preview(open) ==
  /\ ExportAct /\ recordingPage.preview # open /\ recordingPage.range # NoRange /\ (open => recordingPage.mode = "timeline")
  /\ recordingPage' = [recordingPage EXCEPT !.preview = open]
  /\ UNCHANGED <<content, exportDrawer, exportEnds, bar, shownAt, exportPosts>>

-----------------------------------------------------------------------------
(* The timeline: zooming, and dragging within the limits of useDraggableElement *)

\* Another zoom has other motion data: until it is there the timeline is not.
Zoom(level) ==
  /\ AnyAct /\ bar.loaded /\ level # bar.zoom /\ level \in {bar.zoom - 1, bar.zoom + 1}
  /\ \E cached \in BOOLEAN :
       Effects(recordingPage, [bar EXCEPT !.zoom = level, !.loaded = cached, !.dragged = IF cached THEN @ ELSE "none"], exportEnds, shownAt)
  /\ UNCHANGED <<content, exportDrawer, exportPosts>>

\* A timeline that is made tells its parent that its handlebar is not dragged.
MotionArrives ==
  /\ ~bar.loaded /\ Effects(recordingPage, [bar EXCEPT !.loaded = TRUE, !.scrubbing = FALSE], exportEnds, shownAt)
  /\ UNCHANGED <<content, exportDrawer, exportPosts, exportActs>>

\* The dialog, the drawer and the preview are over the timeline.
Reachable == bar.loaded /\ recordingPage.mode # "select" /\ exportDrawer = "none" /\ ~recordingPage.preview

MouseDown(what) ==
  /\ ExportAct /\ Reachable
  /\ what = "handlebar" <=> ~HandlesShown(recordingPage)
  /\ bar' = [bar EXCEPT !.dragged = what, !.scrubbing = what = "handlebar"]
  /\ UNCHANGED <<recordingPage, content, exportDrawer, exportEnds, shownAt, exportPosts>>

\* The limits of a handle, twice its time: the other handle's segment, padded, or a segment
\* and a half from the timeline's end.
Within(what, t) ==
  LET d == Duration
      latest == IF what = "start" THEN 2 * AlignEnd(recordingPage.range.before, d) ELSE 2 * TopSegment(d) - 3 * d
      earliest == IF what = "end" THEN 2 * (AlignStart(recordingPage.range.after, d) + d)
                                  ELSE 2 * (TopSegment(d) - SegmentCount(d) * d) + 3 * d
  IN 2 * t < latest /\ 2 * t > earliest

\* A handle that would be over its limit stays where it is.
MouseMove(t) ==
  /\ AnyAct /\ bar.dragged # "none" /\ (bar.dragged # "handlebar" => HandlesShown(recordingPage)) /\ Within(bar.dragged, t)
  /\ IF bar.dragged = "handlebar" THEN recordingPage' = [recordingPage EXCEPT !.current = t] /\ UNCHANGED <<exportEnds, bar, shownAt>>
     ELSE Effects(recordingPage, bar, [exportEnds EXCEPT ![bar.dragged] = t], [shownAt EXCEPT ![bar.dragged] = t])
  /\ UNCHANGED <<content, exportDrawer, exportPosts>>

MouseUp ==
  /\ bar.dragged # "none" /\ bar' = [bar EXCEPT !.dragged = "none", !.scrubbing = FALSE]
  /\ UNCHANGED <<recordingPage, content, exportDrawer, exportEnds, shownAt, exportPosts, exportActs>>

\* The player's time moves on while nothing holds it.
TimelinePlays ==
  /\ ExportAct /\ recordingPage.mode # "timeline" /\ recordingPage.range = NoRange /\ ~bar.scrubbing
  /\ \E t \in Spots : recordingPage' = [recordingPage EXCEPT !.current = t]
  /\ UNCHANGED <<content, exportDrawer, exportEnds, bar, shownAt, exportPosts>>

DialogNext ==
  \/ OpenDialog \/ (\E m \in {"none", "select", "export"} : OpenDrawer(m)) \/ CloseDialog \/ CancelContent
  \/ (\E o \in Options : OnSelectTime(o)) \/ (\E h \in Handles, t \in Spots : CustomTime(h, t))
  \/ ToTimeline \/ SubmitContent \/ CancelOverlay \/ SaveOverlay \/ (\E open \in BOOLEAN : Preview(open))

BarNext ==
  \/ (\E level \in 1..Len(Segments) : Zoom(level)) \/ MotionArrives
  \/ (\E what \in Handles \cup {"handlebar"} : MouseDown(what)) \/ (\E t \in Spots : MouseMove(t)) \/ MouseUp

ExportNext == DialogNext \/ BarNext \/ ExportDone \/ ExportFailed \/ TimelinePlays

ExportSpec == ExportInit /\ [][ExportNext]_exportVars

-----------------------------------------------------------------------------
(* Properties *)

\* A time that the timeline has a segment for, at every zoom; a time of 0 is none.
InTimeline(t) == t # 0 /\ \A i \in 1..Len(Segments) : HasSegment(t, Segments[i])

\* What Save would export is what the two handles show, through drags, zooms and exports that
\* follow each other, once both handles have a place and the range lies in the timeline
\* (RecordingView.tsx:814).  A range that reaches over the timeline's end may differ: its
\* handle has no place, and when it is dragged to the time that an earlier export left in
\* the parent, nothing changes there and the range is not told.
SavedIsShown ==
  (/\ HandlesShown(recordingPage) /\ bar.loaded
   /\ \A h \in Handles : shownAt[h] # 0 /\ InTimeline(Edge(recordingPage, h)))
    => recordingPage.range = NewRange(shownAt["start"], shownAt["end"])
=============================================================================
