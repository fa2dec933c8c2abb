------------------------------ MODULE EventReview ------------------------------
(***************************************************************************)
(* The review page: the segments of the server as the page last fetched    *)
(* them, the list of the chosen severity, selecting and marking, the       *)
(* preview that a card plays and that marks its segment when it was        *)
(* watched, the details of one segment, and the motion view that plays all *)
(* cameras along its timeline.                                             *)
(***************************************************************************)
EXTENDS Integers, FiniteSets

CONSTANTS
  ReviewIds,      \* review segments
  MotionEnd,      \* the motion view goes from 0 to MotionEnd
  MaxReviewActs   \* bound: things the user does

ASSUME ReviewAssumption == {MotionEnd, MaxReviewActs} \subseteq Nat

VARIABLES
  server,     \* segments of the server: severity, ended, reviewed
  reviews,    \* the page's copy (SWR), or Unfetched; the summary counts come with it
  current,    \* currentItems: the list as it was last computed, or Unfetched
  severityTab,        \* severity, severityToggle, showReviewed, showAll
  pickedReviews,   \* selectedReviews
  reviewPosts,      \* marks and deletions under way
  card,       \* the card that plays its preview, and the cards that ignore clicks
  reviewDialog,     \* details, confirmation, recording
  motion,     \* the motion view
  chosenReviews,     \* ghost: segments the user opened or marked one by one or by selecting them
  reviewActs

reviewVars == <<server, reviews, current, severityTab, pickedReviews, reviewPosts, card, reviewDialog, motion, chosenReviews, reviewActs>>

Unfetched == [none |-> "unfetched"]
NoSegment == "none"
NoCard == [id |-> NoSegment, over |-> FALSE, timer |-> FALSE, playing |-> FALSE, mode |-> "auto", progress |-> 0,
           deaf |-> {}]
NoMotionView == [open |-> FALSE, playing |-> FALSE, timer |-> FALSE, started |-> FALSE, later |-> FALSE, time |-> 0,
                 only |-> FALSE]
NoReviewDialog == [detail |-> NoSegment, shown |-> FALSE, closing |-> FALSE, confirm |-> FALSE, recording |-> FALSE]
Fetched(d) == d # Unfetched
Severities == {"alert", "detection", "motion"}

ReviewTypeOK ==
  /\ DOMAIN server \subseteq ReviewIds
  /\ \A i \in DOMAIN server : server[i] \in [severity : Severities \ {"motion"}, ended : BOOLEAN, reviewed : BOOLEAN]
  /\ Fetched(reviews) => DOMAIN reviews \subseteq ReviewIds
  /\ Fetched(current) => DOMAIN current \subseteq ReviewIds
  /\ severityTab \in [severity : Severities, toggle : Severities, showReviewed : BOOLEAN, showAll : BOOLEAN]
  /\ pickedReviews \subseteq ReviewIds /\ chosenReviews \subseteq ReviewIds
  /\ reviewPosts \subseteq [does : {"mark", "markAll", "markSelected", "delete"}, ids : SUBSET ReviewIds]
  /\ card.id \in ReviewIds \cup {NoSegment} /\ card.progress \in 0..2 /\ card.deaf \subseteq ReviewIds
  /\ motion.time \in 0..MotionEnd + 2 /\ reviewActs \in 0..MaxReviewActs

FirstReviews == [ReviewIds -> [severity : {"alert", "detection"}, ended : BOOLEAN, reviewed : {FALSE}]]

ReviewInit ==
  /\ server \in FirstReviews
  /\ reviews = Unfetched /\ current = Unfetched
  /\ severityTab = [severity |-> "alert", toggle |-> "alert", showReviewed |-> FALSE, showAll |-> FALSE]
  /\ pickedReviews = {} /\ reviewPosts = {} /\ card = NoCard /\ reviewDialog = NoReviewDialog /\ motion = NoMotionView
  /\ chosenReviews = {} /\ reviewActs = 0

ReviewAct == reviewActs < MaxReviewActs /\ reviewActs' = reviewActs + 1
Only(f, ids) == [i \in DOMAIN f \cap ids |-> f[i]]

-----------------------------------------------------------------------------
(* The motion view, at the end of the time range unless it is come back to *)

\* Only motion: the time goes on at the end of the quiet stretch it is in, here the odd times.
NextTimestamp(m) == IF m.only /\ m.time % 2 = 1 THEN m.time + 2 ELSE m.time + 1

\* The effect that moves the time: it looks at playing only once a timer was ever set.
MotionEffect(m) ==
  IF ~m.playing /\ m.started THEN [m EXCEPT !.timer = FALSE]
  ELSE IF NextTimestamp(m) >= MotionEnd THEN [m EXCEPT !.playing = FALSE, !.timer = FALSE]
  ELSE [m EXCEPT !.timer = TRUE, !.started = TRUE]

MotionOpened(t) == MotionEffect([NoMotionView EXCEPT !.open = TRUE, !.time = t])

-----------------------------------------------------------------------------
(* The data *)

SegmentEnds(i) ==
  /\ ~server[i].ended /\ server' = [server EXCEPT ![i].ended = TRUE]
  /\ UNCHANGED <<reviews, current, severityTab, pickedReviews, reviewPosts, card, reviewDialog, motion, chosenReviews, reviewActs>>

\* The list: of a severity or of all, without the reviewed ones or with them.
CurrentItems(data, t) ==
  Only(data, {i \in DOMAIN data : /\ t.showAll \/ data[i].severity = t.severity
                                  /\ t.showReviewed \/ ~data[i].reviewed})

\* An unmounted list forgets its selection and its card.
NoCards == card' = NoCard

FetchAnswered ==
  /\ ~Fetched(reviews) /\ reviews' = server /\ current' = CurrentItems(server, severityTab)
  /\ UNCHANGED <<server, severityTab, pickedReviews, reviewPosts, card, reviewDialog, motion, chosenReviews, reviewActs>>

\* reloadData: another "before", hence another key without data.
ReloadData == reviews' = Unfetched /\ current' = Unfetched

\* The summary says how many there are to review; an empty list with some left is fetched anew.
ItemsToReview ==
  Cardinality({i \in DOMAIN server : server[i].severity = severityTab.toggle /\ (severityTab.showReviewed \/ ~server[i].reviewed)})
PullLatestData ==
  /\ severityTab.severity = severityTab.toggle /\ severityTab.severity # "motion" /\ ~reviewDialog.recording
  /\ Fetched(current) /\ DOMAIN current = {} /\ ItemsToReview > 0
  /\ ReloadData /\ NoCards
  /\ UNCHANGED <<server, severityTab, pickedReviews, reviewPosts, reviewDialog, motion, chosenReviews, reviewActs>>
NewReviewData ==
  /\ ReviewAct /\ ~reviewDialog.recording /\ Fetched(current) /\ Cardinality(DOMAIN current) < ItemsToReview
  /\ ReloadData /\ NoCards
  /\ UNCHANGED <<server, severityTab, pickedReviews, reviewPosts, reviewDialog, motion, chosenReviews>>

Shows(i) ==
  /\ severityTab.severity = severityTab.toggle /\ severityTab.severity # "motion" /\ ~reviewDialog.recording
  /\ Fetched(current) /\ i \in DOMAIN current

-----------------------------------------------------------------------------
(* Marking *)

PostReviews(does, ids) == reviewPosts' = reviewPosts \cup {[does |-> does, ids |-> ids]}
MarkLocally(data, ids) ==
  IF Fetched(data) THEN [i \in DOMAIN data |-> [data[i] EXCEPT !.reviewed = @ \/ i \in ids]] ELSE data

\* A card's own object is marked before the server has answered.
MarkItem(i) == current' = MarkLocally(current, {i}) /\ PostReviews("mark", {i})

ToMark_All(items) == DOMAIN items
ToMark(items) == {i \in DOMAIN items : items[i].ended}

\* markAllItemsAsReviewed; the page marks all of the first one's severity, the server those listed.
MarkAllItems ==
  /\ ReviewAct /\ \E i \in ReviewIds : Shows(i) /\ current[i].ended
  /\ ItemsToReview > 0 /\ pickedReviews' = {}
  /\ \E first \in DOMAIN current :
       reviews' = MarkLocally(reviews, {i \in DOMAIN reviews :
                                          reviews[i].ended /\ reviews[i].severity = current[first].severity})
  /\ IF ToMark(current) = {} THEN UNCHANGED reviewPosts ELSE PostReviews("markAll", ToMark(current))
  /\ UNCHANGED <<server, current, severityTab, card, reviewDialog, motion, chosenReviews>>

PostAnswered(p, ok) ==
  /\ p \in reviewPosts /\ reviewPosts' = reviewPosts \ {p}
  /\ server' = IF ~ok THEN server
               ELSE IF p.does = "delete" THEN Only(server, ReviewIds \ p.ids)
               ELSE MarkLocally(server, p.ids)
  /\ CASE ~ok -> UNCHANGED <<reviews, current, pickedReviews, card>>
       [] ok /\ p.does = "mark" -> reviews' = MarkLocally(reviews, p.ids) /\ UNCHANGED <<current, pickedReviews, card>>
       [] OTHER -> /\ ReloadData /\ NoCards
                   /\ pickedReviews' = IF p.does = "markAll" THEN pickedReviews ELSE {}
  /\ UNCHANGED <<severityTab, reviewDialog, motion, chosenReviews, reviewActs>>

-----------------------------------------------------------------------------
(* Selecting *)

\* A click selects once something is selected or with the modifier key; else it opens the recording.
OnSelectReview(i, ctrl) ==
  /\ ReviewAct /\ Shows(i) /\ (ctrl \/ i \notin card.deaf)
  /\ IF pickedReviews # {} \/ ctrl
     THEN pickedReviews' = (pickedReviews \ {i}) \cup ({i} \ pickedReviews) /\ UNCHANGED <<current, reviewPosts, card, reviewDialog, chosenReviews>>
     ELSE /\ reviewDialog' = [reviewDialog EXCEPT !.recording = TRUE]
          /\ MarkItem(i) /\ chosenReviews' = chosenReviews \cup {i} /\ NoCards /\ UNCHANGED pickedReviews
  /\ UNCHANGED <<server, reviews, severityTab, motion>>

OnSelectAllReviews ==
  /\ ReviewAct /\ severityTab.severity = severityTab.toggle /\ severityTab.severity # "motion" /\ ~reviewDialog.recording
  /\ Fetched(current) /\ DOMAIN current # {}
  /\ pickedReviews' = IF Cardinality(pickedReviews) < Cardinality(DOMAIN current) THEN DOMAIN current ELSE {}
  /\ UNCHANGED <<server, reviews, current, severityTab, reviewPosts, card, reviewDialog, motion, chosenReviews>>

\* Key "r": of the selected ones those of this list, one call each; all of the selection goes.
MarkSelectedHere ==
  /\ ReviewAct /\ pickedReviews # {} /\ severityTab.severity # "motion" /\ ~reviewDialog.recording /\ Fetched(current)
  /\ LET here == pickedReviews \cap DOMAIN current
     IN /\ current' = MarkLocally(current, here)
        /\ reviewPosts' = reviewPosts \cup {[does |-> "mark", ids |-> {i}] : i \in here}
        /\ chosenReviews' = chosenReviews \cup here
  /\ pickedReviews' = {}
  /\ UNCHANGED <<server, reviews, severityTab, card, reviewDialog, motion>>

ActionGroup == IF pickedReviews = {} \/ reviewDialog.recording THEN {}
               ELSE {"unselect", "mark", "delete"} \cup (IF Cardinality(pickedReviews) = 1 THEN {"export"} ELSE {})
UseActionGroup(shift) ==
  /\ ReviewAct
  /\ \/ "unselect" \in ActionGroup /\ pickedReviews' = {} /\ UNCHANGED <<reviewPosts, reviewDialog, chosenReviews>>
     \/ "export" \in ActionGroup /\ pickedReviews' = {} /\ UNCHANGED <<reviewPosts, reviewDialog, chosenReviews>>
     \/ /\ "mark" \in ActionGroup /\ PostReviews("markSelected", pickedReviews) /\ chosenReviews' = chosenReviews \cup pickedReviews
        /\ UNCHANGED <<pickedReviews, reviewDialog>>
     \/ /\ "delete" \in ActionGroup /\ UNCHANGED <<pickedReviews, chosenReviews>>
        /\ IF shift \/ reviewDialog.confirm
           THEN PostReviews("delete", pickedReviews) /\ reviewDialog' = [reviewDialog EXCEPT !.confirm = FALSE]
           ELSE reviewDialog' = [reviewDialog EXCEPT !.confirm = TRUE] /\ UNCHANGED reviewPosts
  /\ UNCHANGED <<server, reviews, current, severityTab, card, motion>>

\* The selection is kept.
SetSeverityToggle(s) ==
  /\ ReviewAct /\ s # severityTab.toggle /\ ~reviewDialog.recording
  /\ severityTab' = [severityTab EXCEPT !.toggle = s]
  /\ NoCards /\ UNCHANGED <<server, reviews, current, pickedReviews, reviewPosts, reviewDialog, motion, chosenReviews>>
\* 100 ms later.  The motion view is mounted, or left.
SetSeverity ==
  /\ severityTab.severity # severityTab.toggle /\ ~reviewDialog.recording
  /\ severityTab' = [severityTab EXCEPT !.severity = severityTab.toggle]
  /\ current' = IF Fetched(reviews) THEN CurrentItems(reviews, severityTab') ELSE Unfetched
  /\ motion' = IF severityTab.toggle = "motion" THEN MotionOpened(MotionEnd) ELSE NoMotionView
  /\ UNCHANGED <<server, reviews, pickedReviews, reviewPosts, card, reviewDialog, chosenReviews, reviewActs>>
SetReviewFilter ==
  /\ ReviewAct /\ pickedReviews = {} /\ ~reviewDialog.recording
  /\ \/ severityTab' = [severityTab EXCEPT !.showReviewed = ~@]
     \/ severityTab' = [severityTab EXCEPT !.showAll = ~@]
  /\ current' = IF Fetched(reviews) THEN CurrentItems(reviews, severityTab') ELSE Unfetched
  /\ NoCards /\ UNCHANGED <<server, reviews, pickedReviews, reviewPosts, reviewDialog, motion, chosenReviews>>

LeaveRecording ==
  /\ reviewDialog.recording /\ reviewDialog' = NoReviewDialog /\ pickedReviews' = {}
  /\ severityTab' = [severityTab EXCEPT !.toggle = severityTab.severity]
  /\ motion' = IF severityTab.severity = "motion" THEN MotionOpened(1) ELSE NoMotionView
  /\ UNCHANGED <<server, reviews, current, reviewPosts, card, chosenReviews, reviewActs>>

-----------------------------------------------------------------------------
(* The preview of a card *)

HoverCard(i) ==
  /\ ReviewAct /\ Shows(i) /\ card.id = NoSegment
  /\ card' = [card EXCEPT !.id = i, !.over = TRUE, !.timer = TRUE]
  /\ UNCHANGED <<server, reviews, current, severityTab, pickedReviews, reviewPosts, reviewDialog, motion, chosenReviews>>
\* The preview is mounted, and lets the card hear clicks.
HoverTimeout ==
  /\ card.timer
  /\ card' = [card EXCEPT !.timer = FALSE, !.playing = TRUE, !.mode = "auto", !.progress = 0, !.deaf = @ \ {card.id}]
  /\ UNCHANGED <<server, reviews, current, severityTab, pickedReviews, reviewPosts, reviewDialog, motion, chosenReviews, reviewActs>>
\* The preview goes with what it last told the card.
LeaveCard ==
  /\ card.id # NoSegment /\ card' = [NoCard EXCEPT !.deaf = card.deaf]
  /\ UNCHANGED <<server, reviews, current, severityTab, pickedReviews, reviewPosts, reviewDialog, motion, chosenReviews, reviewActs>>

\* handleSetReviewed
SetReviewed ==
  IF Fetched(current) /\ card.id \in DOMAIN current
     /\ current[card.id].ended /\ ~current[card.id].reviewed
  THEN MarkItem(card.id) ELSE UNCHANGED <<current, reviewPosts>>

\* Half of it, then the end.
PreviewProgress ==
  /\ card.playing /\ card.mode = "auto" /\ card.progress < 2
  /\ card' = [card EXCEPT !.progress = @ + 1] /\ SetReviewed
  /\ UNCHANGED <<server, reviews, severityTab, pickedReviews, reviewDialog, motion, chosenReviews, reviewActs>>
ManualSeek(mode) ==
  /\ ReviewAct /\ card.playing /\ ~(mode = "hover" /\ card.mode = "drag")
  /\ card' = [card EXCEPT !.mode = mode, !.deaf = @ \cup {card.id}] /\ SetReviewed
  /\ UNCHANGED <<server, reviews, severityTab, pickedReviews, reviewDialog, motion, chosenReviews>>
StopManualSeek ==
  /\ card.playing /\ card.mode # "auto"
  /\ card' = [card EXCEPT !.mode = "auto", !.deaf = @ \ {card.id}]
  /\ UNCHANGED <<server, reviews, current, severityTab, pickedReviews, reviewPosts, reviewDialog, motion, chosenReviews, reviewActs>>
SwipeCard(i) ==
  /\ ReviewAct /\ Shows(i) /\ card.id \in {NoSegment, i}
  /\ \/ card' = [card EXCEPT !.id = i, !.playing = TRUE, !.mode = "auto", !.progress = 0, !.deaf = @ \ {i}]
        /\ UNCHANGED <<current, reviewPosts>>
     \/ card' = [NoCard EXCEPT !.deaf = card.deaf]
        /\ IF current[i].ended /\ ~current[i].reviewed THEN MarkItem(i) ELSE UNCHANGED <<current, reviewPosts>>
  /\ UNCHANGED <<server, reviews, severityTab, pickedReviews, reviewDialog, motion, chosenReviews>>

-----------------------------------------------------------------------------
(* Details: closing takes 300 ms, whatever is opened meanwhile *)

OpenDetail(i) ==
  /\ ReviewAct /\ Shows(i) /\ ~reviewDialog.shown
  /\ reviewDialog' = [reviewDialog EXCEPT !.detail = i, !.shown = (reviewDialog.detail # i)]
  /\ UNCHANGED <<server, reviews, current, severityTab, pickedReviews, reviewPosts, card, motion, chosenReviews>>
CloseReviewDetail ==
  /\ reviewDialog.shown /\ reviewDialog' = [reviewDialog EXCEPT !.shown = FALSE, !.closing = TRUE]
  /\ UNCHANGED <<server, reviews, current, severityTab, pickedReviews, reviewPosts, card, motion, chosenReviews, reviewActs>>
DetailClosed ==
  /\ reviewDialog.closing /\ reviewDialog' = [reviewDialog EXCEPT !.closing = FALSE, !.shown = FALSE, !.detail = NoSegment]
  /\ UNCHANGED <<server, reviews, current, severityTab, pickedReviews, reviewPosts, card, motion, chosenReviews, reviewActs>>

-----------------------------------------------------------------------------
(* Using the motion view *)

MoveMotion(m) == motion' = MotionEffect(m)
MotionStays == UNCHANGED <<server, reviews, current, severityTab, pickedReviews, reviewPosts, card, reviewDialog, chosenReviews>>

MotionTimeout ==
  /\ motion.timer /\ MoveMotion([motion EXCEPT !.time = NextTimestamp(motion)])
  /\ MotionStays /\ UNCHANGED reviewActs
\* A click that resumes 100 ms later, whether or not it was paused meanwhile.
MotionResumes ==
  /\ motion.later /\ MoveMotion([motion EXCEPT !.later = FALSE, !.playing = TRUE])
  /\ MotionStays /\ UNCHANGED reviewActs
UseMotionView ==
  /\ ReviewAct /\ motion.open /\ ~reviewDialog.recording
  /\ \/ MoveMotion([motion EXCEPT !.playing = ~@])
     \/ MoveMotion([motion EXCEPT !.only = ~@])
     \/ \E d \in {-1, 1} : /\ motion.time + d \in 0..MotionEnd
                           /\ MoveMotion([motion EXCEPT !.time = @ + d, !.playing = FALSE, !.later = @ \/ motion.playing])
     \/ \E t \in 0..MotionEnd : t # motion.time /\ MoveMotion([motion EXCEPT !.time = t, !.playing = FALSE])
  /\ MotionStays
MotionOpensRecording ==
  /\ ReviewAct /\ motion.open /\ ~reviewDialog.recording
  /\ reviewDialog' = [NoReviewDialog EXCEPT !.recording = TRUE] /\ motion' = NoMotionView
  /\ UNCHANGED <<server, reviews, current, severityTab, pickedReviews, reviewPosts, card, chosenReviews>>

ReviewNext ==
  \/ \E i \in DOMAIN server : SegmentEnds(i)
  \/ FetchAnswered \/ PullLatestData \/ NewReviewData \/ MarkAllItems
  \/ \E p \in reviewPosts, ok \in BOOLEAN : PostAnswered(p, ok)
  \/ \E i \in ReviewIds : (\E ctrl \in BOOLEAN : OnSelectReview(i, ctrl)) \/ HoverCard(i) \/ SwipeCard(i) \/ OpenDetail(i)
  \/ OnSelectAllReviews \/ MarkSelectedHere \/ (\E shift \in BOOLEAN : UseActionGroup(shift))
  \/ (\E s \in Severities : SetSeverityToggle(s)) \/ SetSeverity \/ SetReviewFilter \/ LeaveRecording
  \/ HoverTimeout \/ LeaveCard \/ PreviewProgress \/ StopManualSeek \/ (\E mode \in {"hover", "drag"} : ManualSeek(mode))
  \/ CloseReviewDetail \/ DetailClosed
  \/ MotionTimeout \/ MotionResumes \/ UseMotionView \/ MotionOpensRecording

ReviewSpec == ReviewInit /\ [][ReviewNext]_reviewVars

-----------------------------------------------------------------------------
(* Properties *)

\* A segment that is still going on is marked as reviewed by nothing but the user's own choice
\* of it: not by marking the whole list, watching its preview or swiping it away, however old
\* the list is that was marked.
InProgressStaysOpen == \A i \in DOMAIN server : server[i].reviewed /\ ~server[i].ended => i \in chosenReviews
=============================================================================
