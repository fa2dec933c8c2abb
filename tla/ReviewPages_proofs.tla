--------------------------- MODULE ReviewPages_proofs ---------------------------
(***************************************************************************)
(* Theorems about the pages on which recordings are reviewed, played and   *)
(* exported, and about that of the logs, for any reviews, hours, chunks,   *)
(* cameras, timelines, files and numbers of acts.  Each page has an invariant of its own:                *)
(*                                                                         *)
(* ReviewInv: a list says that nothing has ended which goes on, and a      *)
(* request marks only what has ended or was chosen.                        *)
(* PreviewInv: a source that must change has a timer or a still to change  *)
(* it, and a seek that was begun an event to end it.                       *)
(* FiltersInv: only a page that has the list of cameras opens it.          *)
(* ClickInv: a clicked time is on its way: its recordings are fetched, or  *)
(* its source is loading, or the video is there.                           *)
(* ExportInv: the handles and the range are two copies, and each change of *)
(* the one reaches the other.                                              *)
(* LogsInv: while no two requests overlap, what is asked for continues the *)
(* list at its beginning and what is streamed at its end (GapAt).          *)
(***************************************************************************)
EXTENDS EventReview, ReviewFilters, PreviewScrub, Playback, ReviewExport, Logs, TLAPS
LOCAL INSTANCE WellFoundedInduction
LOCAL INSTANCE FiniteSetTheorems

-----------------------------------------------------------------------------
(* Reviews *)

Segment == [severity : {"alert", "detection"}, ended : BOOLEAN, reviewed : BOOLEAN]

\* A list that was fetched once says of no segment that it has ended which goes on.
Faithful(list) ==
  \A i \in DOMAIN list :
    list[i] \in Segment /\ (i \in DOMAIN server /\ list[i].ended => server[i].ended)
Seen(list) == Fetched(list) => Faithful(list)

\* What a request marks has ended or was chosen.
Entitled(p) ==
  p.does # "delete" => \A i \in p.ids \cap DOMAIN server : server[i].ended \/ i \in chosenReviews

ReviewInv ==
  /\ \A i \in DOMAIN server : server[i] \in Segment
  /\ InProgressStaysOpen
  /\ Seen(reviews) /\ Seen(current)
  /\ \A p \in reviewPosts : Entitled(p)

\* Marking a segment changes nothing else of it.
LEMMA MarkedIsSeen ==
  ASSUME NEW list, Seen(list), NEW ids
  PROVE  Seen(MarkLocally(list, ids))
<1>1. CASE ~Fetched(list)
  BY <1>1 DEF MarkLocally
<1>2. CASE Fetched(list)
  <2> DEFINE marked == MarkLocally(list, ids)
  <2>1. DOMAIN marked = DOMAIN list
    BY <1>2 DEF MarkLocally
  <2>2. ASSUME NEW i \in DOMAIN list
        PROVE  marked[i] \in Segment /\ marked[i].ended = list[i].ended
    <3>1. marked[i] = [list[i] EXCEPT !.reviewed = @ \/ i \in ids] BY <1>2 DEF MarkLocally
    <3>2. list[i] \in Segment BY <1>2 DEF Seen, Faithful
    <3>3. list[i].reviewed \in BOOLEAN BY <3>2 DEF Segment
    <3>4. marked[i] \in Segment BY <3>1, <3>2, <3>3 DEF Segment
    <3>5. marked[i].ended = list[i].ended BY <3>1, <3>2 DEF Segment
    <3> QED BY <3>4, <3>5
  <2> QED BY <1>2, <2>1, <2>2 DEF Seen, Faithful
<1> QED BY <1>1, <1>2

LEMMA PartIsFaithful ==
  ASSUME NEW list, Faithful(list), NEW ids
  PROVE  Faithful(Only(list, ids))
BY DEF Faithful, Only

\* The steps that leave the server alone.
LEMMA ListStep ==
  ASSUME ReviewInv, server' = server, chosenReviews \subseteq chosenReviews',
         Seen(reviews'), Seen(current'),
         \A p \in reviewPosts' :
           p \in reviewPosts
           \/ (p.does # "delete" => \A i \in p.ids \cap DOMAIN server : server[i].ended \/ i \in chosenReviews')
  PROVE  ReviewInv'
BY DEF ReviewInv, InProgressStaysOpen, Seen, Faithful, Entitled

LEMMA SameKeepsReviews ==
  ASSUME ReviewInv, server' = server, chosenReviews' = chosenReviews, reviewPosts' = reviewPosts,
         reviews' = reviews \/ reviews' = Unfetched, current' = current \/ current' = Unfetched
  PROVE  ReviewInv'
<1>1. Seen(reviews') /\ Seen(current')
  BY DEF ReviewInv, Seen, Fetched
<1> QED BY <1>1, ListStep

\* Cards mark a segment only if the list says that it has ended.
LEMMA CardKeepsReviews ==
  ASSUME ReviewInv, NEW i, Fetched(current), i \in DOMAIN current, MarkItem(i),
         current[i].ended \/ i \in chosenReviews',
         UNCHANGED <<server, reviews>>, chosenReviews \subseteq chosenReviews'
  PROVE  ReviewInv'
<1>1. current' = MarkLocally(current, {i}) /\ reviewPosts' = reviewPosts \cup {[does |-> "mark", ids |-> {i}]}
  BY DEF MarkItem, PostReviews
<1>2. Seen(current') BY <1>1, MarkedIsSeen DEF ReviewInv
<1>3. i \in DOMAIN server => server[i].ended \/ i \in chosenReviews'
  BY DEF ReviewInv, Seen, Faithful
<1>4. Seen(reviews') BY DEF ReviewInv
<1> QED BY <1>1, <1>2, <1>3, <1>4, ListStep

LEMMA RefetchKeeps == ASSUME ReviewInv, FetchAnswered PROVE ReviewInv'
<1>1. reviews' = server /\ current' = CurrentItems(server, severityTab)
      /\ UNCHANGED <<server, chosenReviews, reviewPosts>>
  BY DEF FetchAnswered
<1>2. Faithful(server) BY DEF ReviewInv, Faithful
<1>3. Faithful(CurrentItems(server, severityTab)) BY <1>2, PartIsFaithful DEF CurrentItems
<1> QED BY <1>1, <1>2, <1>3, ListStep DEF Seen

LEMMA MarkAllKeeps == ASSUME ReviewInv, MarkAllItems PROVE ReviewInv'
<1>1. \E i \in ReviewIds : Shows(i) BY DEF MarkAllItems
<1>2. Fetched(current) BY <1>1 DEF Shows
<1>3. Faithful(current) BY <1>2 DEF ReviewInv, Seen
<1>4. Seen(reviews') BY MarkedIsSeen DEF MarkAllItems, ReviewInv
<1>5. reviewPosts' = reviewPosts \/ reviewPosts' = reviewPosts \cup {[does |-> "markAll", ids |-> ToMark(current)]}
  BY DEF MarkAllItems, PostReviews
<1>6. \A i \in ToMark(current) \cap DOMAIN server : server[i].ended
  BY <1>3 DEF ToMark, Faithful
<1>7. UNCHANGED <<server, current, chosenReviews>> BY DEF MarkAllItems
<1> QED BY <1>4, <1>5, <1>6, <1>7, ListStep DEF ReviewInv

\* The server marks what the request names, deletes it, or does nothing.
LEMMA AnswerKeepsReviews ==
  ASSUME ReviewInv, NEW p \in reviewPosts, NEW ok \in BOOLEAN, PostAnswered(p, ok)
  PROVE  ReviewInv'
<1>1. reviewPosts' \subseteq reviewPosts /\ chosenReviews' = chosenReviews
  BY DEF PostAnswered
<1>2. /\ reviews' = reviews \/ reviews' = Unfetched \/ reviews' = MarkLocally(reviews, p.ids)
      /\ current' = current \/ current' = Unfetched
  BY DEF PostAnswered, ReloadData
<1>3. Seen(reviews') /\ Seen(current')
  BY <1>2, MarkedIsSeen DEF ReviewInv, Seen, Fetched
<1>4. CASE server' = server
  BY <1>1, <1>3, <1>4, ListStep
<1>5. CASE server' = Only(server, ReviewIds \ p.ids)
  BY <1>1, <1>3, <1>5 DEF ReviewInv, InProgressStaysOpen, Seen, Faithful, Entitled, Only
<1>6. CASE Fetched(server) /\ p.does # "delete" /\ server' = MarkLocally(server, p.ids)
  <2>1. DOMAIN server' = DOMAIN server
    BY <1>6 DEF MarkLocally
  <2>2. ASSUME NEW i \in DOMAIN server
        PROVE  /\ server'[i] \in Segment /\ server'[i].ended = server[i].ended
               /\ server'[i].reviewed => server[i].reviewed \/ i \in p.ids
    <3>1. server'[i] = [server[i] EXCEPT !.reviewed = @ \/ i \in p.ids] BY <1>6 DEF MarkLocally
    <3>2. server[i] \in Segment /\ server[i].reviewed \in BOOLEAN BY DEF ReviewInv, Segment
    <3>3. server'[i] \in Segment BY <3>1, <3>2 DEF Segment
    <3>4. server'[i].ended = server[i].ended BY <3>1, <3>2 DEF Segment
    <3>5. server'[i].reviewed => server[i].reviewed \/ i \in p.ids BY <3>1, <3>2 DEF Segment
    <3> QED BY <3>3, <3>4, <3>5
  <2>3. ASSUME NEW i \in DOMAIN server, server'[i].reviewed, ~server'[i].ended
        PROVE  i \in chosenReviews
    <3>1. server[i].reviewed \/ i \in p.ids BY <2>2, <2>3
    <3>2. ~server[i].ended BY <2>2, <2>3
    <3>3. Entitled(p) BY DEF ReviewInv
    <3> QED BY <3>1, <3>2, <3>3, <1>6 DEF ReviewInv, InProgressStaysOpen, Entitled
  <2>4. InProgressStaysOpen' BY <1>1, <2>1, <2>3 DEF InProgressStaysOpen
  <2>5. Seen(reviews)' /\ Seen(current)' BY <1>3, <2>1, <2>2 DEF Seen, Faithful
  <2>6. \A q \in reviewPosts' : Entitled(q)' BY <1>1, <2>1, <2>2 DEF ReviewInv, Entitled
  <2> QED BY <2>1, <2>2, <2>4, <2>5, <2>6 DEF ReviewInv
<1>7. server' = server \/ server' = Only(server, ReviewIds \ p.ids)
      \/ (Fetched(server) /\ p.does # "delete" /\ server' = MarkLocally(server, p.ids))
  BY DEF PostAnswered, MarkLocally
<1> QED BY <1>4, <1>5, <1>6, <1>7

LEMMA SegmentEndsKeeps ==
  ASSUME ReviewInv, NEW i \in DOMAIN server, SegmentEnds(i) PROVE ReviewInv'
<1>1. server' = [server EXCEPT ![i].ended = TRUE]
      /\ UNCHANGED <<reviews, current, reviewPosts, chosenReviews>>
  BY DEF SegmentEnds
<1>2. DOMAIN server' = DOMAIN server BY <1>1
<1>3. ASSUME NEW j \in DOMAIN server
      PROVE  /\ server'[j] \in Segment /\ server'[j].reviewed = server[j].reviewed
             /\ server[j].ended => server'[j].ended
  <2>1. server[j] \in Segment BY DEF ReviewInv
  <2>2. CASE j = i BY <2>1, <2>2, <1>1 DEF Segment
  <2>3. CASE j # i BY <2>1, <2>3, <1>1
  <2> QED BY <2>2, <2>3
<1> QED BY <1>1, <1>2, <1>3 DEF ReviewInv, InProgressStaysOpen, Seen, Faithful, Entitled

\* What the user selects and marks is chosen.
LEMMA ChoiceKeeps ==
  ASSUME ReviewInv,
         MarkSelectedHere \/ (\E shift \in BOOLEAN : UseActionGroup(shift))
         \/ (\E i \in ReviewIds, ctrl \in BOOLEAN : OnSelectReview(i, ctrl))
  PROVE  ReviewInv'
<1>1. CASE MarkSelectedHere
  <2> DEFINE here == pickedReviews \cap DOMAIN current
  <2>1. /\ current' = MarkLocally(current, here) /\ chosenReviews' = chosenReviews \cup here
        /\ reviewPosts' = reviewPosts \cup {[does |-> "mark", ids |-> {i}] : i \in here}
        /\ UNCHANGED <<server, reviews>>
    BY <1>1 DEF MarkSelectedHere
  <2>2. Seen(reviews') /\ Seen(current') BY <2>1, MarkedIsSeen DEF ReviewInv
  <2>3. \A p \in reviewPosts' \ reviewPosts : p.ids \subseteq chosenReviews' BY <2>1
  <2> QED BY <2>1, <2>2, <2>3, ListStep
<1>2. CASE \E shift \in BOOLEAN : UseActionGroup(shift)
  <2>1. /\ UNCHANGED <<server, reviews, current>> /\ chosenReviews \subseteq chosenReviews'
        /\ \/ reviewPosts' = reviewPosts
           \/ reviewPosts' = reviewPosts \cup {[does |-> "delete", ids |-> pickedReviews]}
           \/ /\ reviewPosts' = reviewPosts \cup {[does |-> "markSelected", ids |-> pickedReviews]}
              /\ pickedReviews \subseteq chosenReviews'
    BY <1>2 DEF UseActionGroup, PostReviews
  <2> QED BY <2>1, ListStep DEF ReviewInv
<1>3. CASE \E i \in ReviewIds, ctrl \in BOOLEAN : OnSelectReview(i, ctrl)
  <2> PICK i \in ReviewIds, ctrl \in BOOLEAN : OnSelectReview(i, ctrl) BY <1>3
  <2>1. Fetched(current) /\ i \in DOMAIN current /\ UNCHANGED <<server, reviews>>
    BY DEF OnSelectReview, Shows
  <2>2. UNCHANGED <<current, reviewPosts, chosenReviews>>
        \/ (MarkItem(i) /\ chosenReviews' = chosenReviews \cup {i})
    BY DEF OnSelectReview
  <2> QED BY <2>1, <2>2, SameKeepsReviews, CardKeepsReviews
<1> QED BY <1>1, <1>2, <1>3

\* The preview of a card marks what has ended.
LEMMA PreviewKeeps ==
  ASSUME ReviewInv,
         PreviewProgress \/ (\E mode \in {"hover", "drag"} : ManualSeek(mode))
         \/ (\E i \in ReviewIds : SwipeCard(i))
  PROVE  ReviewInv'
<1>1. UNCHANGED <<server, reviews, chosenReviews>>
  BY DEF PreviewProgress, ManualSeek, SwipeCard
<1>2. UNCHANGED <<current, reviewPosts>>
      \/ \E i : Fetched(current) /\ i \in DOMAIN current /\ current[i].ended /\ MarkItem(i)
  BY DEF PreviewProgress, ManualSeek, SwipeCard, SetReviewed, Shows
<1> QED BY <1>1, <1>2, SameKeepsReviews, CardKeepsReviews

LEMMA ReviewKept == ASSUME ReviewInv, [ReviewNext]_reviewVars PROVE ReviewInv'
<1>1. CASE UNCHANGED reviewVars
  BY <1>1, SameKeepsReviews DEF reviewVars
<1>2. CASE \/ FetchAnswered \/ MarkAllItems \/ \E i \in DOMAIN server : SegmentEnds(i)
           \/ \E p \in reviewPosts, ok \in BOOLEAN : PostAnswered(p, ok)
  BY <1>2, RefetchKeeps, MarkAllKeeps, SegmentEndsKeeps, AnswerKeepsReviews
<1>3. CASE \/ MarkSelectedHere \/ PreviewProgress \/ (\E shift \in BOOLEAN : UseActionGroup(shift))
           \/ (\E i \in ReviewIds, ctrl \in BOOLEAN : OnSelectReview(i, ctrl))
           \/ (\E mode \in {"hover", "drag"} : ManualSeek(mode))
           \/ \E i \in ReviewIds : SwipeCard(i)
  BY <1>3, ChoiceKeeps, PreviewKeeps
<1>4. CASE SetSeverity \/ SetReviewFilter
  <2>1. UNCHANGED <<server, reviews, reviewPosts, chosenReviews>>
        /\ current' = IF Fetched(reviews) THEN CurrentItems(reviews, severityTab') ELSE Unfetched
    BY <1>4 DEF SetSeverity, SetReviewFilter
  <2>2. Fetched(reviews) => Faithful(CurrentItems(reviews, severityTab'))
    BY PartIsFaithful DEF ReviewInv, Seen, CurrentItems
  <2>3. Seen(reviews') /\ Seen(current') BY <2>1, <2>2 DEF ReviewInv, Seen, Fetched
  <2> QED BY <2>1, <2>3, ListStep
<1>5. CASE PullLatestData \/ NewReviewData
  BY <1>5, SameKeepsReviews DEF PullLatestData, NewReviewData, ReloadData
<1>6. CASE \/ OnSelectAllReviews \/ (\E s \in Severities : SetSeverityToggle(s)) \/ LeaveRecording
           \/ (\E i \in ReviewIds : HoverCard(i) \/ OpenDetail(i))
           \/ HoverTimeout \/ LeaveCard \/ StopManualSeek \/ CloseReviewDetail \/ DetailClosed
           \/ MotionTimeout \/ MotionResumes \/ UseMotionView \/ MotionOpensRecording
  <2>1. UNCHANGED <<server, reviews, current, reviewPosts, chosenReviews>>
    BY <1>6 DEF OnSelectAllReviews, SetSeverityToggle, LeaveRecording, HoverCard, OpenDetail,
                HoverTimeout, LeaveCard, StopManualSeek, CloseReviewDetail, DetailClosed,
                MotionTimeout, MotionResumes, UseMotionView, MotionOpensRecording, MotionStays
  <2> QED BY <2>1, SameKeepsReviews
<1> QED
  BY <1>1, <1>2, <1>3, <1>4, <1>5, <1>6 DEF ReviewNext

\* Marking whole lists, watching previews and swiping cards never marks a segment that goes
\* on, however old the list is and in whatever order the server answers (EventView.tsx,
\* Events.tsx): what is reviewed and goes on was chosen.
THEOREM OngoingIsReviewedByChoice == ReviewSpec => []InProgressStaysOpen
<1>1. ReviewInit => ReviewInv
  <2> SUFFICES ASSUME ReviewInit PROVE ReviewInv
    OBVIOUS
  <2>1. \A i \in DOMAIN server : server[i] \in Segment /\ ~server[i].reviewed
    BY DEF ReviewInit, FirstReviews, Segment
  <2>2. Seen(reviews) /\ Seen(current) /\ reviewPosts = {}
    BY DEF ReviewInit, Seen, Fetched
  <2> QED BY <2>1, <2>2 DEF ReviewInv, InProgressStaysOpen
<1>2. ReviewInv /\ [ReviewNext]_reviewVars => ReviewInv'
  BY ReviewKept
<1>3. ReviewInv => InProgressStaysOpen
  BY DEF ReviewInv
<1> QED
  BY <1>1, <1>2, <1>3, PTL DEF ReviewSpec

-----------------------------------------------------------------------------
(* The preview that is scrubbed *)

PvStates ==
  [hour : Hours, start : Offsets, visible : BOOLEAN, current : Hours \cup {Nil}, sized : BOOLEAN,
   timers : Nat, remembered : BOOLEAN, frame : {"none", "loading", "shown"}]
VideoStates ==
  [does : {"absent", "loading", "ready"}, hour : Hours \cup {Nil}, at : Offsets, seek : Offsets \cup {Nil}]
CtlStates ==
  [made : BOOLEAN, preview : Hours \cup {Nil}, seeking : BOOLEAN, timeToSeek : Offsets \cup {Nil},
   newPreviewLoaded : BOOLEAN, seeked : Nat]
PreviewTypes == pv \in PvStates /\ video \in VideoStates /\ ctl \in CtlStates

\* An element shows the video of the player's hour unless a changeover is under way, and
\* its controller knows the hour of the timeline.
SourceInv ==
  /\ video.does # "absent" => Player(pv.hour) = "video"
  /\ video.does # "absent" /\ pv.timers = 0 => video.hour = pv.current
  /\ ctl.made => ctl.preview = pv.hour /\ pv.current = pv.hour
  /\ ~ctl.made => ctl = NoController

\* A controller that waits, for its source or for a seek, is going to be told.
ToldInv ==
  ctl.made /\ video.does = "ready" => /\ ~ctl.newPreviewLoaded => pv.timers > 0
                                      /\ ctl.seeking => video.seek # Nil \/ ctl.seeked > 0

PreviewInv == PreviewTypes /\ SourceInv /\ ToldInv

LEMMA PreviewStarts == PreviewInit => PreviewInv
<1> USE DEF PvStates, VideoStates, CtlStates
<1> SUFFICES ASSUME PreviewInit PROVE PreviewInv
  OBVIOUS
<1>1. PICK h \in Hours, s \in {0, Length} :
        pv = [hour |-> h, start |-> s, visible |-> TRUE, current |-> h, sized |-> FALSE, timers |-> 0,
              remembered |-> FALSE, frame |-> "none"]
  <2>1. PICK h \in Hours, s \in {0, Length} :
          pv = Mounted([hour |-> h, start |-> s, visible |-> TRUE, current |-> Nil, sized |-> FALSE, timers |-> 0,
                        remembered |-> FALSE, frame |-> "none"])
    BY DEF PreviewInit, FirstPreviews
  <2>2. pv = [hour |-> h, start |-> s, visible |-> TRUE, current |-> h, sized |-> FALSE, timers |-> 0,
              remembered |-> FALSE, frame |-> "none"]
    BY <2>1 DEF Mounted
  <2> QED BY <2>2
<1>2. Length \in Nat /\ 0 \in Offsets /\ Length \in Offsets
  BY PreviewAssumption DEF Offsets
<1>3. ctl = NoController /\ (video = NoVideo \/ (Player(pv.hour) = "video" /\ video = Appears(pv)))
  BY DEF PreviewInit
<1>4. \/ video = NoVideo
      \/ Player(pv.hour) = "video" /\ video = [does |-> "loading", hour |-> h, at |-> 0, seek |-> Nil]
  BY <1>1, <1>3 DEF Appears, NoVideo
<1>5. PreviewTypes
  BY <1>1, <1>2, <1>3, <1>4 DEF PreviewTypes, NoController, NoVideo
<1> QED
  BY <1>1, <1>3, <1>4, <1>5 DEF PreviewInv, SourceInv, ToldInv, NoController, NoVideo

\* The element does not change: what a render does to the player and the controller.
LEMMA EffectKeeps ==
  ASSUME PreviewInv, NEW h \in Hours, NEW p, p = [pv EXCEPT !.hour = h],
         video.does # "absent" => Player(h) = "video",
         PlaybackEffect(p), UNCHANGED video
  PROVE  PreviewInv'
<1> USE DEF PreviewInv, PvStates, VideoStates, CtlStates
<1>1. /\ p.hour = h /\ p.current = pv.current /\ p.timers = pv.timers /\ p.frame = pv.frame /\ p.sized = pv.sized
      /\ p \in PvStates
  BY DEF PreviewTypes
<1>2. /\ ctl' \in CtlStates
      /\ ctl'.made /\ ctl'.preview = h /\ ~ctl'.seeking
      /\ ctl'.newPreviewLoaded = (ctl.newPreviewLoaded /\ h = pv.current)
  BY <1>1 DEF PlaybackEffect, NewPlayback, PreviewTypes
<1>3. /\ pv' \in PvStates
      /\ pv'.hour = h /\ pv'.current = h
      /\ IF h # pv.current /\ video.does # "absent" THEN pv'.timers = pv.timers + 1 ELSE pv'.timers = pv.timers
  <2>1. CASE h = pv.current
    BY <1>1, <2>1 DEF PlaybackEffect
  <2>2. CASE h # pv.current /\ video.does = "absent"
    <3>1. pv' = [p EXCEPT !.current = h] BY <1>1, <2>2 DEF PlaybackEffect, ChangeSource
    <3> QED BY <1>1, <2>2, <3>1
  <2>3. CASE h # pv.current /\ video.does # "absent"
    <3>1. PICK still \in {"none", "loading", "shown"} :
            pv' = [p EXCEPT !.current = h, !.timers = p.timers + 1, !.remembered = TRUE, !.frame = still]
      BY <1>1, <2>3 DEF PlaybackEffect, ChangeSource
    <3>2. p.timers + 1 \in Nat BY <1>1
    <3>3. /\ pv' \in PvStates
          /\ pv'.hour = h /\ pv'.current = h /\ pv'.timers = p.timers + 1
      BY <1>1, <3>1, <3>2
    <3> QED BY <1>1, <2>3, <3>3
  <2> QED BY <2>1, <2>2, <2>3
<1>4. PreviewTypes'
  BY <1>2, <1>3 DEF PreviewTypes
<1>5. SourceInv'
  BY <1>2, <1>3 DEF SourceInv, PreviewTypes
<1>6. ToldInv'
  BY <1>2, <1>3 DEF ToldInv, SourceInv, PreviewTypes, NoController
<1> QED BY <1>4, <1>5, <1>6

LEMMA MakeKeeps == ASSUME PreviewInv, MakeController \/ DropController PROVE PreviewInv'
<1> USE DEF PvStates, VideoStates, CtlStates
<1>1. CASE MakeController
  <2>1. pv = [pv EXCEPT !.hour = pv.hour] /\ pv.hour \in Hours
    BY DEF PreviewInv, PreviewTypes
  <2> QED BY <1>1, <2>1, EffectKeeps DEF MakeController, PreviewInv, SourceInv
<1>2. CASE DropController
  BY <1>2 DEF DropController, PreviewInv, PreviewTypes, SourceInv, ToldInv, NoController, Nil
<1> QED BY <1>1, <1>2

LEMMA MountKeeps ==
  ASSUME PreviewInv, NEW h \in Hours, NEW p, p = [pv EXCEPT !.hour = h],
         pv' = Mounted(p), ctl' = NoController,
         video' = IF Player(h) = "video" THEN Appears(Mounted(p)) ELSE NoVideo
  PROVE  PreviewInv'
<1> USE DEF PvStates, VideoStates, CtlStates
<1>1. /\ pv' \in PvStates
      /\ pv'.hour = h /\ pv'.current = h
  BY DEF PreviewInv, PreviewTypes, Mounted
<1>2. 0 \in Offsets
  BY PreviewAssumption DEF Offsets
<1>3. \/ video' = NoVideo
      \/ Player(h) = "video" /\ video' = [does |-> "loading", hour |-> h, at |-> 0, seek |-> Nil]
  BY <1>1 DEF Appears, NoVideo
<1> QED
  BY <1>1, <1>2, <1>3 DEF PreviewInv, PreviewTypes, SourceInv, ToldInv, NoVideo, NoController

LEMMA RangeKeeps == ASSUME PreviewInv, NEW h \in Hours, TimeRangeChanges(h) PROVE PreviewInv'
<1> USE DEF PvStates, VideoStates, CtlStates
<1> DEFINE p == [pv EXCEPT !.hour = h]
<1>1. CASE Player(h) = "video" /\ Player(pv.hour) = "video" /\ ctl.made
  BY <1>1, EffectKeeps DEF TimeRangeChanges
<1>2. CASE Player(h) = "video" /\ Player(pv.hour) = "video" /\ ~ctl.made
  <2>1. pv' = p /\ UNCHANGED <<ctl, video>>
    BY <1>2 DEF TimeRangeChanges
  <2> QED BY <1>2, <2>1 DEF PreviewInv, PreviewTypes, SourceInv, ToldInv
<1>3. CASE ~(Player(h) = "video" /\ Player(pv.hour) = "video")
  BY <1>3, MountKeeps DEF TimeRangeChanges
<1> QED BY <1>1, <1>2, <1>3

LEMMA ElementKeeps ==
  ASSUME PreviewInv, (\E b \in BOOLEAN : SetVisible(b)) \/ ChangeoverTimeout \/ FrameDrawn
  PROVE  PreviewInv'
<1> USE DEF PvStates, VideoStates, CtlStates
<1>0. 0 \in Offsets
  BY PreviewAssumption DEF Offsets
<1>1. ASSUME NEW b \in BOOLEAN, SetVisible(b) PROVE PreviewInv'
  <2>1. /\ pv' \in PvStates
        /\ pv'.hour = pv.hour /\ pv'.current = pv.current /\ pv'.timers = pv.timers /\ UNCHANGED ctl
    BY <1>1 DEF SetVisible, PreviewInv, PreviewTypes
  <2>2. \/ UNCHANGED video
        \/ video' = NoVideo
        \/ Player(pv.hour) = "video" /\ video' = [does |-> "loading", hour |-> pv.current, at |-> 0, seek |-> Nil]
    BY <1>1, <2>1 DEF SetVisible, Appears, NoVideo
  <2>3. PreviewTypes'
    BY <1>0, <2>1, <2>2 DEF PreviewInv, PreviewTypes, NoVideo
  <2>4. Player(pv'.hour) = Player(pv.hour)
    BY <2>1
  <2> QED BY <2>1, <2>2, <2>3, <2>4 DEF PreviewInv, PreviewTypes, SourceInv, ToldInv, NoVideo
<1>2. CASE ChangeoverTimeout \/ FrameDrawn
  <2>1. /\ pv' \in PvStates
        /\ pv'.hour = pv.hour /\ pv'.current = pv.current /\ UNCHANGED ctl
    <3>1. PICK n \in Nat, still \in {"none", "loading", "shown"} :
            pv' = [pv EXCEPT !.timers = n, !.remembered = FALSE, !.frame = still]
      <4>1. CASE ChangeoverTimeout
        <5>1. pv' = [pv EXCEPT !.timers = pv.timers - 1, !.remembered = FALSE, !.frame = pv.frame]
          BY <4>1 DEF ChangeoverTimeout, PreviewInv, PreviewTypes
        <5>2. pv.timers - 1 \in Nat /\ pv.frame \in {"none", "loading", "shown"}
          BY <4>1 DEF ChangeoverTimeout, PreviewInv, PreviewTypes
        <5> QED BY <5>1, <5>2
      <4>2. CASE FrameDrawn
        <5>1. PICK n : /\ n = (IF pv.remembered /\ pv.timers > 0 THEN pv.timers - 1 ELSE pv.timers)
                       /\ pv' = [pv EXCEPT !.frame = "shown", !.remembered = FALSE, !.timers = n]
          BY <4>2 DEF FrameDrawn
        <5>2. n \in Nat BY <5>1 DEF PreviewInv, PreviewTypes
        <5>3. pv' = [pv EXCEPT !.timers = n, !.remembered = FALSE, !.frame = "shown"]
          BY <5>1 DEF PreviewInv, PreviewTypes
        <5> QED BY <5>2, <5>3
      <4> QED BY <1>2, <4>1, <4>2
    <3>2. UNCHANGED ctl
      BY <1>2 DEF ChangeoverTimeout, FrameDrawn
    <3> QED BY <3>1, <3>2 DEF PreviewInv, PreviewTypes
  <2>2. \/ video' = NoVideo
        \/ video.does # "absent" /\ video' = [does |-> "loading", hour |-> pv.current, at |-> 0, seek |-> Nil]
    BY <1>2 DEF ChangeoverTimeout, FrameDrawn, Loads, NoVideo
  <2>3. PreviewTypes'
    BY <1>0, <2>1, <2>2 DEF PreviewInv, PreviewTypes, NoVideo
  <2>4. Player(pv'.hour) = Player(pv.hour)
    BY <2>1
  <2> QED BY <2>1, <2>2, <2>3, <2>4 DEF PreviewInv, PreviewTypes, SourceInv, ToldInv, NoVideo
<1> QED BY <1>1, <1>2

\* What the controller makes of the end of a seek.
LEMMA FinishedSeekingIs ==
  ASSUME NEW c \in CtlStates,
         NEW v \in VideoStates,
         NEW r, r = FinishedSeeking(c, v)
  PROVE  /\ r.c \in CtlStates
         /\ r.v \in VideoStates
         /\ r.v.does = v.does /\ r.v.hour = v.hour
         /\ r.c.made = c.made /\ r.c.preview = c.preview /\ r.c.newPreviewLoaded = c.newPreviewLoaded
         /\ ~c.seeking => ~r.c.seeking
         /\ v.does = "ready" /\ c.preview # Nil => ~r.c.seeking \/ r.v.seek # Nil
<1> USE DEF PvStates, VideoStates, CtlStates
<1>1. CASE v.does = "absent" \/ c.preview = Nil
  BY <1>1 DEF FinishedSeeking
<1>2. CASE ~(v.does = "absent" \/ c.preview = Nil) /\ c.timeToSeek > 0 /\ c.timeToSeek # v.at
  <2>1. r = [c |-> c, v |-> [v EXCEPT !.seek = c.timeToSeek]] /\ c.timeToSeek \in Offsets /\ c.timeToSeek # Nil
    BY <1>2 DEF FinishedSeeking, Seek, Nil
  <2> QED BY <2>1
<1>3. CASE ~(v.does = "absent" \/ c.preview = Nil) /\ c.timeToSeek > 0 /\ c.timeToSeek = v.at
  BY <1>3 DEF FinishedSeeking
<1>4. CASE ~(v.does = "absent" \/ c.preview = Nil) /\ ~(c.timeToSeek > 0)
  BY <1>4 DEF FinishedSeeking
<1> QED BY <1>1, <1>2, <1>3, <1>4

LEMMA PreviewReadyIs ==
  ASSUME NEW c \in CtlStates,
         NEW v \in VideoStates,
         NEW r, r = PreviewReady(c, v)
  PROVE  /\ r.c \in CtlStates
         /\ r.v \in VideoStates
         /\ r.v.does = v.does /\ r.v.hour = v.hour
         /\ r.c.made = c.made /\ r.c.preview = c.preview /\ r.c.newPreviewLoaded /\ ~r.c.seeking
<1> USE DEF PvStates, VideoStates, CtlStates
<1> DEFINE ready == [c EXCEPT !.newPreviewLoaded = TRUE, !.seeking = FALSE]
<1>1. ready \in CtlStates
  OBVIOUS
<1>2. /\ ready.made = c.made /\ ready.preview = c.preview
      /\ ready.newPreviewLoaded = TRUE /\ ready.seeking = FALSE
  OBVIOUS
<1>3. CASE c.timeToSeek > 0
  <2>1. r = FinishedSeeking(ready, v) BY <1>3 DEF PreviewReady
  <2> HIDE DEF ready
  <2> QED BY <1>1, <1>2, <2>1, FinishedSeekingIs
<1>4. CASE ~(c.timeToSeek > 0)
  <2>1. r = [c |-> ready, v |-> v] BY <1>4 DEF PreviewReady
  <2> HIDE DEF ready
  <2> QED BY <1>1, <1>2, <2>1
<1> QED BY <1>3, <1>4

LEMMA LoadedKeeps == ASSUME PreviewInv, LoadedData PROVE PreviewInv'
<1> USE DEF PvStates, VideoStates, CtlStates
<1> DEFINE now == [video EXCEPT !.does = "ready", !.at = 0]
           r == IF ctl.made THEN PreviewReady(ctl, now) ELSE [c |-> ctl, v |-> now]
<1>1. 0 \in Offsets /\ PreviewTypes /\ video.does = "loading"
  BY PreviewAssumption DEF Offsets, PreviewInv, LoadedData
<1>2. /\ now \in VideoStates
      /\ now.does = "ready" /\ now.hour = video.hour
  BY <1>1 DEF PreviewTypes
<1>3. /\ r.c \in CtlStates
      /\ r.v \in VideoStates
      /\ r.v.does = "ready" /\ r.v.hour = video.hour
      /\ r.c.made = ctl.made /\ r.c.preview = ctl.preview
      /\ ctl.made => r.c.newPreviewLoaded /\ ~r.c.seeking
      /\ ~ctl.made => r.c = ctl
  <2>1. CASE ~ctl.made BY <2>1, <1>1, <1>2 DEF PreviewTypes
  <2>2. CASE ctl.made
    <3>1. r = PreviewReady(ctl, now) BY <2>2
    <3> HIDE DEF r, now
    <3>2. ctl \in CtlStates
      BY <1>1 DEF PreviewTypes
    <3>3. /\ r.c \in CtlStates
          /\ r.v \in VideoStates
          /\ r.v.does = now.does /\ r.v.hour = now.hour
          /\ r.c.made = ctl.made /\ r.c.preview = ctl.preview /\ r.c.newPreviewLoaded /\ ~r.c.seeking
      BY <3>1, <3>2, <1>2, PreviewReadyIs
    <3> QED BY <2>2, <3>3, <1>2
  <2> QED BY <2>1, <2>2
<1>4. /\ ctl' = r.c /\ video' = (IF pv.start > 0 THEN Seek(r.v, pv.start) ELSE r.v)
      /\ pv' = [pv EXCEPT !.sized = TRUE]
  BY DEF LoadedData
<1> HIDE DEF r
<1>6. /\ video' \in VideoStates
      /\ video'.does = "ready" /\ video'.hour = video.hour
  BY <1>1, <1>3, <1>4 DEF Seek, PreviewTypes
<1>7. /\ pv' \in PvStates
      /\ pv'.hour = pv.hour /\ pv'.current = pv.current /\ pv'.timers = pv.timers
  BY <1>1, <1>4 DEF PreviewTypes
<1>8. PreviewTypes'
  BY <1>3, <1>4, <1>6, <1>7 DEF PreviewTypes
<1>9. SourceInv'
  BY <1>1, <1>3, <1>4, <1>6, <1>7 DEF PreviewInv, SourceInv
<1>10. ToldInv'
  BY <1>3, <1>4, <1>9 DEF ToldInv, SourceInv, NoController
<1> QED BY <1>8, <1>9, <1>10 DEF PreviewInv

LEMMA SeekedKeeps == ASSUME PreviewInv, OnPreviewSeeked PROVE PreviewInv'
<1> USE DEF PvStates, VideoStates, CtlStates
<1>1. PreviewTypes /\ video.does = "ready" /\ video.seek \in Offsets
  BY DEF OnPreviewSeeked, PreviewInv, PreviewTypes
<1>2. /\ video' \in VideoStates
      /\ video'.does = "ready" /\ video'.hour = video.hour
  BY <1>1 DEF OnPreviewSeeked, PreviewTypes
<1>3. CASE ctl.made
  <2>1. /\ ctl' \in CtlStates
        /\ ctl'.made /\ ctl'.preview = ctl.preview /\ ctl'.seeking = ctl.seeking
        /\ ctl'.newPreviewLoaded = ctl.newPreviewLoaded /\ ctl'.seeked > 0
    BY <1>1, <1>3 DEF OnPreviewSeeked, PreviewTypes
  <2>2. /\ pv' \in PvStates
        /\ pv'.hour = pv.hour /\ pv'.current = pv.current /\ pv'.timers = pv.timers
    BY <1>1, <1>3 DEF OnPreviewSeeked, PreviewTypes
  <2> QED BY <1>1, <1>2, <1>3, <2>1, <2>2 DEF PreviewInv, PreviewTypes, SourceInv, ToldInv
<1>4. CASE ~ctl.made
  BY <1>1, <1>2, <1>4 DEF OnPreviewSeeked, PreviewInv, PreviewTypes, SourceInv, ToldInv
<1> QED BY <1>3, <1>4

LEMMA HearsKeeps == ASSUME PreviewInv, ControllerHears PROVE PreviewInv'
<1> USE DEF PvStates, VideoStates, CtlStates
<1> DEFINE c == [ctl EXCEPT !.seeked = @ - 1]
           r == FinishedSeeking(c, video)
<1>1. /\ PreviewTypes /\ SourceInv /\ ctl.seeked \in Nat \ {0}
  BY DEF ControllerHears, PreviewInv, PreviewTypes
<1>2. /\ c \in CtlStates
      /\ c.made = ctl.made /\ c.preview = ctl.preview /\ c.newPreviewLoaded = ctl.newPreviewLoaded
  BY <1>1 DEF PreviewTypes
<1>3. ctl.made /\ ctl.preview = pv.hour /\ ctl.preview # Nil
  BY <1>1 DEF SourceInv, PreviewTypes, NoController, Hours, Nil
<1>4. ctl' = r.c /\ video' = r.v /\ UNCHANGED pv
  BY DEF ControllerHears
<1> HIDE DEF r, c
<1>5. /\ ctl' \in CtlStates
      /\ video' \in VideoStates
      /\ video'.does = video.does /\ video'.hour = video.hour
      /\ ctl'.made /\ ctl'.preview = ctl.preview /\ ctl'.newPreviewLoaded = ctl.newPreviewLoaded
      /\ video.does = "ready" => ~ctl'.seeking \/ video'.seek # Nil
  <2>1. r = FinishedSeeking(c, video)
    BY DEF r
  <2>2. /\ r.c \in CtlStates
        /\ r.v \in VideoStates
        /\ r.v.does = video.does /\ r.v.hour = video.hour
        /\ r.c.made = c.made /\ r.c.preview = c.preview /\ r.c.newPreviewLoaded = c.newPreviewLoaded
        /\ video.does = "ready" /\ c.preview # Nil => ~r.c.seeking \/ r.v.seek # Nil
    BY <1>1, <1>2, <2>1, FinishedSeekingIs DEF PreviewTypes
  <2> QED BY <2>2, <1>2, <1>3, <1>4
<1>6. PreviewTypes'
  BY <1>1, <1>4, <1>5 DEF PreviewTypes
<1>7. SourceInv'
  BY <1>1, <1>3, <1>4, <1>5 DEF SourceInv
<1>8. ToldInv'
  BY <1>1, <1>3, <1>4, <1>5 DEF PreviewInv, ToldInv
<1> QED
  BY <1>6, <1>7, <1>8 DEF PreviewInv

LEMMA ScrubKeeps ==
  ASSUME PreviewInv, NEW h \in Hours, NEW o \in Offsets, ScrubTo(h, o) PROVE PreviewInv'
<1> USE DEF PvStates, VideoStates, CtlStates
<1>1. CASE UNCHANGED <<pv, video, ctl>>
  BY <1>1 DEF PreviewInv, PreviewTypes, SourceInv, ToldInv
<1>2. CASE ScrubVideo(h, o)
  <2>1. PreviewTypes /\ ctl.made /\ ctl.newPreviewLoaded /\ UNCHANGED pv /\ o # Nil
    BY <1>2 DEF ScrubVideo, PreviewInv, Offsets, Nil
  <2>2. /\ ctl' \in CtlStates
        /\ ctl'.made /\ ctl'.newPreviewLoaded /\ ctl'.preview = ctl.preview /\ ctl'.seeked = ctl.seeked
    BY <1>2, <2>1 DEF ScrubVideo, PreviewTypes
  <2>3. /\ video' \in VideoStates
        /\ video'.does = video.does /\ video'.hour = video.hour
        /\ IF ctl.seeking THEN video' = video ELSE video'.seek = o
    BY <1>2, <2>1 DEF ScrubVideo, Seek, PreviewTypes
  <2> QED BY <2>1, <2>2, <2>3 DEF PreviewInv, PreviewTypes, SourceInv, ToldInv
<1> QED BY <1>1, <1>2 DEF ScrubTo, ScrubFrames

LEMMA FramesKeep == ASSUME PreviewInv, FramesArrive \/ FrameLoaded \/ FrameFails PROVE PreviewInv'
<1> USE DEF PvStates, VideoStates, CtlStates
<1>1. /\ UNCHANGED <<video, ctl>>
      /\ pv' = pv \/ pv' = [pv EXCEPT !.frame = "shown"]
  BY DEF FramesArrive, FrameLoaded, FrameFails
<1>2. PreviewTypes /\ PreviewTypes' /\ pv'.hour = pv.hour /\ pv'.current = pv.current /\ pv'.timers = pv.timers
  BY <1>1 DEF PreviewInv, PreviewTypes
<1> QED BY <1>1, <1>2 DEF PreviewInv, SourceInv, ToldInv

\* Whatever hours are chosen, however often the video disappears and times are scrubbed to,
\* once nothing is under way the video is that of the hour of the timeline and takes the
\* next scrub (PreviewPlayer.tsx): a seek that was begun always ends in an event or in
\* another load, and a source that is to change has a timer or a drawn still to change it.
THEOREM PreviewComesToRest == PreviewSpec => []PreviewSettles
<1> USE DEF PvStates, VideoStates, CtlStates
<1>1. PreviewInv /\ [PreviewNext]_pvVars => PreviewInv'
  <2> SUFFICES ASSUME PreviewInv, [PreviewNext]_pvVars PROVE PreviewInv'
    OBVIOUS
  <2>1. CASE UNCHANGED pvVars
    BY <2>1 DEF pvVars, PreviewInv, PreviewTypes, SourceInv, ToldInv
  <2>2. CASE PreviewNext
    BY <2>2, MakeKeeps, RangeKeeps, ElementKeeps, LoadedKeeps, SeekedKeeps, HearsKeeps, FramesKeep, ScrubKeeps
       DEF PreviewNext
  <2> QED BY <2>1, <2>2
<1>2. PreviewInv => PreviewSettles
  BY DEF PreviewInv, PreviewTypes, SourceInv, ToldInv, PreviewSettles, Settled
<1> QED
  BY PreviewStarts, <1>1, <1>2, PTL DEF PreviewSpec

-----------------------------------------------------------------------------
(* The cameras' list of the review filter *)

\* The records the controls edit have their keys, and only a page that has the list opens it.
FiltersInv ==
  /\ on \in Places
  /\ DOMAIN camButton = {"open", "cameras"} /\ DOMAIN drawer = {"mode", "draft"}
  /\ {"cameras", "day"} \subseteq DOMAIN inForce /\ {"cameras", "day"} \subseteq DOMAIN drawer.draft
  /\ camButton.open => HasCamButton
  /\ FreshListIsInForce

\* A filter takes the list of cameras along, if it was closed with what is in force or in the
\* new filter.
LEMMA BecomesKeeps ==
  ASSUME FiltersInv, UNCHANGED on, NEW f, NEW cam, NEW gen, Becomes(f, cam, gen),
         {"cameras", "day"} \subseteq DOMAIN f, DOMAIN cam = {"open", "cameras"},
         cam.open => HasCamButton,
         ~cam.open => cam.cameras \in {f.cameras, inForce.cameras} \/ (on.recording /\ ~on.phone),
         UNCHANGED drawer \/ (DOMAIN drawer' = {"mode", "draft"} /\ {"cameras", "day"} \subseteq DOMAIN drawer'.draft)
  PROVE  FiltersInv'
<1>1. /\ inForce' = f
      /\ camButton' = IF f.cameras # inForce.cameras \/ (on.recording /\ ~on.phone)
                      THEN [cam EXCEPT !.cameras = f.cameras] ELSE cam
  BY DEF Becomes, Follows
<1>2. /\ DOMAIN camButton' = {"open", "cameras"} /\ camButton'.open = cam.open
      /\ ~cam.open => camButton'.cameras = f.cameras
  BY <1>1
<1> QED BY <1>1, <1>2 DEF FiltersInv, FreshListIsInForce, HasCamButton

\* On the recording page the camera that is played is added to the filter's.
LEMMA AdjustedCameras ==
  ASSUME NEW f, {"cameras", "day"} \subseteq DOMAIN f
  PROVE  /\ DOMAIN Adjusted(f) = DOMAIN f
         /\ ~on.recording => Adjusted(f) = f
BY DEF Adjusted

\* The toolbar: what it sets differs from what it keeps in the cameras only.
LEMMA ToolbarKeeps ==
  ASSUME FiltersInv, UNCHANGED <<on, drawer>>, NEW f, NEW cam, NEW gen, FromToolbar(f, cam, gen),
         {"cameras", "day"} \subseteq DOMAIN f, DOMAIN cam = {"open", "cameras"},
         cam.open => HasCamButton, HasCamButton \/ ~on.recording \/ cam = camButton,
         ~cam.open => cam.cameras \in {f.cameras, inForce.cameras}
  PROVE  FiltersInv'
<1>1. Becomes(Adjusted(f), cam, gen) BY DEF FromToolbar
<1>2. {"cameras", "day"} \subseteq DOMAIN Adjusted(f) BY AdjustedCameras
<1>3. ~cam.open => cam.cameras \in {Adjusted(f).cameras, inForce.cameras} \/ (on.recording /\ ~on.phone)
  BY AdjustedCameras DEF FiltersInv, HasCamButton, FreshListIsInForce
<1> QED BY <1>1, <1>2, <1>3, BecomesKeeps

LEMMA OthersKeepFilters ==
  ASSUME FiltersInv,
         \/ ReviewsArrive \/ SelectReviews \/ UNCHANGED filtersVars
         \/ \E s \in Switches : ToggleReviewed(s) \/ ToggleSet(s)
         \/ \E open \in BOOLEAN : OpenGeneral(open)
         \/ EditGeneral
         \/ \E mode : DrawerMode(mode)
         \/ \E c \in ReviewCams : SelectMain(c)
  PROVE  FiltersInv'
<1>1. CASE ReviewsArrive
  BY <1>1 DEF ReviewsArrive, MadeAgain, FiltersInv, Places, HasCamButton, FreshListIsInForce
<1>2. CASE SelectReviews
  BY <1>2 DEF SelectReviews, MadeAgain, FiltersInv, HasCamButton, FreshListIsInForce
<1>3. CASE \/ UNCHANGED filtersVars \/ EditGeneral
           \/ \E s \in Switches : ToggleReviewed(s) \/ ToggleSet(s)
           \/ \E open \in BOOLEAN : OpenGeneral(open)
  <2>1. UNCHANGED <<on, inForce, camButton, drawer>>
    BY <1>3 DEF filtersVars, EditGeneral, ToggleReviewed, ToggleSet, OpenGeneral
  <2> QED BY <2>1 DEF FiltersInv, HasCamButton, FreshListIsInForce
<1>4. CASE \E mode : DrawerMode(mode)
  BY <1>4 DEF DrawerMode, FiltersInv, HasCamButton, FreshListIsInForce
<1>5. CASE \E c \in ReviewCams : SelectMain(c)
  BY <1>5 DEF SelectMain, FiltersInv, Places, HasCamButton, FreshListIsInForce
<1> QED BY <1>1, <1>2, <1>3, <1>4, <1>5

\* The list itself: it is edited while it is open, and closed with what is in force.
LEMMA CamerasKeep == ASSUME FiltersInv, CamerasNext PROVE FiltersInv'
<1>1. ASSUME NEW cams, EditCameras(cams) PROVE FiltersInv'
  BY <1>1 DEF EditCameras, FiltersInv, HasCamButton, FreshListIsInForce
<1>2. ASSUME NEW open \in BOOLEAN, OpenCameras(open) PROVE FiltersInv'
  BY <1>2 DEF OpenCameras, FiltersInv, HasCamButton, FreshListIsInForce
<1>3. CASE ApplyCameras
  <2> DEFINE f == [inForce EXCEPT !.cameras = camButton.cameras]
             cam == [camButton EXCEPT !.open = FALSE]
  <2>1. FromToolbar(f, cam, general) /\ UNCHANGED <<on, drawer>> /\ HasCamButton
    BY <1>3 DEF ApplyCameras, FiltersInv
  <2>2. /\ {"cameras", "day"} \subseteq DOMAIN f /\ DOMAIN cam = {"open", "cameras"}
        /\ ~cam.open /\ cam.cameras = f.cameras
    BY DEF FiltersInv
  <2> HIDE DEF f, cam
  <2> QED BY <2>1, <2>2, ToolbarKeeps
<1>4. CASE ResetCameras
  <2> DEFINE f == [inForce EXCEPT !.cameras = All]
             cam == [camButton EXCEPT !.cameras = All]
  <2>1. FromToolbar(f, cam, general) /\ UNCHANGED <<on, drawer>> /\ HasCamButton
    BY <1>4 DEF ResetCameras, FiltersInv
  <2>2. /\ {"cameras", "day"} \subseteq DOMAIN f /\ DOMAIN cam = {"open", "cameras"}
        /\ cam.cameras = f.cameras
    BY DEF FiltersInv
  <2> HIDE DEF f, cam
  <2> QED BY <2>1, <2>2, ToolbarKeeps
<1>5. CASE \/ AllCameras \/ (\E g \in CamGroups : CameraGroup(g))
           \/ (\E c \in ReviewCams : CheckCamera(c) \/ UncheckCamera(c))
  BY <1>1, <1>5 DEF AllCameras, CameraGroup, CheckCamera, UncheckCamera
<1> QED BY <1>2, <1>3, <1>4, <1>5, OthersKeepFilters DEF CamerasNext

\* The dialog and the calendar leave the cameras as they are.
LEMMA GeneralKeeps ==
  ASSUME FiltersInv, ApplyGeneral \/ ResetGeneral \/ \E d \in FilterDays : SelectDay(d)
  PROVE  FiltersInv'
<1>1. PICK f, gen : /\ FromToolbar(f, camButton, gen) /\ UNCHANGED <<on, drawer>>
                    /\ \/ f = Spread(inForce, general.draft) \/ f = Spread(inForce, NoGeneral)
                       \/ \E d \in FilterDays : f = [inForce EXCEPT !.day = d]
  BY DEF ApplyGeneral, ResetGeneral, SelectDay
<1>2. f.cameras = inForce.cameras /\ {"cameras", "day"} \subseteq DOMAIN f
  BY <1>1 DEF Spread, FiltersInv
<1>3. /\ DOMAIN camButton = {"open", "cameras"}
      /\ camButton.open => HasCamButton
      /\ ~camButton.open => camButton.cameras = inForce.cameras
  BY DEF FiltersInv, FreshListIsInForce
<1> QED BY <1>1, <1>2, <1>3, ToolbarKeeps

\* The drawer sets the whole filter, cameras included.
LEMMA DrawerKeeps ==
  ASSUME FiltersInv, EditDrawer \/ ApplyDrawer \/ ResetDrawer \/ \E d \in FilterDays : DrawerDay(d)
  PROVE  FiltersInv'
<1>0. /\ DOMAIN camButton = {"open", "cameras"}
      /\ camButton.open => HasCamButton
      /\ ~camButton.open => camButton.cameras = inForce.cameras
      /\ DOMAIN drawer = {"mode", "draft"} /\ {"cameras", "day"} \subseteq DOMAIN drawer.draft
      /\ {"cameras", "day"} \subseteq DOMAIN inForce
  BY DEF FiltersInv, FreshListIsInForce
<1>1. CASE EditDrawer
  <2>1. PICK d \in Edited(drawer.draft) :
          drawer' = [drawer EXCEPT !.draft = d] /\ UNCHANGED <<on, inForce, camButton>>
    BY <1>1 DEF EditDrawer
  <2>2. DOMAIN d = DOMAIN drawer.draft
    BY <2>1 DEF Edited, WithShowAll, WithAll, Checked, Unchecked
  <2> QED BY <1>0, <2>1, <2>2 DEF FiltersInv, HasCamButton, FreshListIsInForce
<1>2. CASE ApplyDrawer
  <2>1. /\ Becomes(Whole(drawer.draft), camButton, general) /\ UNCHANGED on
        /\ drawer' = [drawer EXCEPT !.mode = "select"]
    BY <1>2 DEF ApplyDrawer
  <2>2. {"cameras", "day"} \subseteq DOMAIN Whole(drawer.draft)
    BY <1>0 DEF Whole
  <2>3. DOMAIN drawer' = {"mode", "draft"} /\ drawer'.draft = drawer.draft
    BY <1>0, <2>1
  <2> QED BY <1>0, <2>1, <2>2, <2>3, BecomesKeeps
<1>3. CASE ResetDrawer
  <2> DEFINE none == [inForce EXCEPT !.cameras = All, !.labels = All, !.zones = All, !.showAll = FALSE, !.day = "last24"]
  <2>1. Becomes(none, camButton, general) /\ UNCHANGED on /\ drawer' = [drawer EXCEPT !.draft = none]
    BY <1>3 DEF ResetDrawer
  <2>2. {"cameras", "day"} \subseteq DOMAIN none
    BY <1>0
  <2> HIDE DEF none
  <2>3. DOMAIN drawer' = {"mode", "draft"} /\ drawer'.draft = none
    BY <1>0, <2>1
  <2> QED BY <1>0, <2>1, <2>2, <2>3, BecomesKeeps
<1>4. ASSUME NEW d \in FilterDays, DrawerDay(d) PROVE FiltersInv'
  <2>1. Becomes([inForce EXCEPT !.day = d], camButton, general) /\ UNCHANGED <<on, drawer>>
    BY <1>4 DEF DrawerDay
  <2> QED BY <1>0, <2>1, BecomesKeeps
<1> QED BY <1>1, <1>2, <1>3, <1>4

LEMMA FiltersStart == FiltersInit => FiltersInv
BY DEF FiltersInit, FirstFilters, FiltersInv, Places, HasCamButton, FreshListIsInForce

\* Any control of the review and recording pages may change the filter, and the list of
\* cameras, when it is closed, holds what is in force (CamerasFilterButton.tsx): for any
\* cameras, groups and number of actions.
THEOREM CameraListIsFresh == FiltersSpec => []FreshListIsInForce
<1>1. FiltersInv /\ [FiltersNext]_filtersVars => FiltersInv'
  BY OthersKeepFilters, CamerasKeep, GeneralKeeps, DrawerKeeps DEF FiltersNext, GeneralNext, DrawerNext
<1>2. FiltersInv => FreshListIsInForce
  BY DEF FiltersInv
<1> QED
  BY FiltersStart, <1>1, <1>2, PTL DEF FiltersSpec

-----------------------------------------------------------------------------
(* Playing from a time that is clicked *)

\* The records have their keys, and a controller that is made is the one the view was given.
PlayersInv ==
  /\ DOMAIN rv = {"idx", "currentTime", "playerTime", "start", "scrubbing", "exportMode", "exportRange", "controller"}
  /\ DOMAIN dvp = {"recordings", "timers", "loading", "buffering", "noRecording"}
  /\ DOMAIN mainCtl = {"made", "range", "mode", "timeToStart"}
  /\ DOMAIN media = {"ready", "chunk", "at", "paused"}
  /\ mainCtl.made => rv.controller = "this"

\* A clicked time is on its way: its chunk is selected, and either its recordings are being
\* fetched while the old video plays, or its source is loading, or it is where the video is.
Fetching(t) == ~dvp.recordings /\ media.chunk # rv.idx /\ rv.start = t
Loading(t) == dvp.recordings /\ ~media.ready /\ media.chunk = rv.idx /\ mainCtl.range = rv.idx /\ rv.start = t
Arrived(t) == dvp.recordings /\ media.ready /\ media.chunk = rv.idx /\ media.at = Position(t)
OnItsWay(t) ==
  /\ t \in Times /\ Position(t) > 0 /\ ChunkOf(t) \in recorded
  /\ rv.idx = ChunkOf(t) /\ ~rv.scrubbing /\ mainCtl.made
  /\ Fetching(t) \/ Loading(t) \/ Arrived(t)

ClickInv == PlayersInv /\ (clickedTime # NoTime => OnItsWay(clickedTime))

\* A time is its position in its chunk, and the first time is at the start of one.
LEMMA TimeIsInItsChunk ==
  ASSUME NEW t \in Times
  PROVE  TimeAt(ChunkOf(t), Position(t)) = t /\ (Position(t) > 0 => t > 0)
<1>1. t \in Nat /\ Span \in Nat /\ Span > 0
  BY PlaybackAssumption DEF Times
<1>2. PICK q \in Nat : q = t \div Span
  BY <1>1
<1>3. PICK r \in Nat : r = t % Span
  BY <1>1
<1>4. q * Span + r = t
  BY <1>1, <1>2, <1>3, Z3T(20)
<1>5. ChunkOf(t) - 1 = q /\ Position(t) = r
  BY <1>2, <1>3 DEF ChunkOf, Position
<1>6. TimeAt(ChunkOf(t), Position(t)) = t
  BY <1>4, <1>5, Zenon DEF TimeAt
<1>7. t = 0 => Position(t) = 0
  BY <1>1 DEF Position
<1> QED BY <1>1, <1>6, <1>7

\* What the controller gives back are a controller and an element.
LEMMA SeekIs ==
  ASSUME NEW c, NEW m, NEW t, NEW play, DOMAIN c = {"made", "range", "mode", "timeToStart"},
         DOMAIN m = {"ready", "chunk", "at", "paused"}, NEW r, r = SeekToTimestamp(c, m, t, play)
  PROVE  /\ DOMAIN r.c = {"made", "range", "mode", "timeToStart"} /\ DOMAIN r.m = {"ready", "chunk", "at", "paused"}
         /\ r.c.made = c.made /\ r.c.range = c.range /\ r.m.ready = m.ready /\ r.m.chunk = m.chunk
         /\ c.range = ChunkOf(t) /\ c.range # NoTime /\ Position(t) # 0 => r.m.at = Position(t)
<1>1. CASE c.range = NoTime \/ ChunkOf(t) # c.range
  <2>1. r = [c |-> [c EXCEPT !.timeToStart = t], m |-> m] BY <1>1 DEF SeekToTimestamp
  <2> QED BY <1>1, <2>1
<1>2. CASE ~(c.range = NoTime \/ ChunkOf(t) # c.range)
  <2>1. /\ r.c = [c EXCEPT !.mode = "playback"]
        /\ r.m = IF Position(t) = 0 THEN m ELSE [m EXCEPT !.at = Position(t), !.paused = ~play]
    BY <1>2 DEF SeekToTimestamp
  <2> QED BY <2>1
<1> QED BY <1>1, <1>2

LEMMA PlayRecordingsIs ==
  ASSUME NEW c, NEW m, NEW chunk, DOMAIN c = {"made", "range", "mode", "timeToStart"},
         DOMAIN m = {"ready", "chunk", "at", "paused"}, NEW r, r = PlayRecordings(c, m, chunk)
  PROVE  /\ DOMAIN r.c = {"made", "range", "mode", "timeToStart"} /\ DOMAIN r.m = {"ready", "chunk", "at", "paused"}
         /\ r.c.made = c.made /\ r.c.range = chunk
<1> DEFINE at == [c EXCEPT !.range = chunk]
           s == SeekToTimestamp(at, m, c.timeToStart, FALSE)
<1>1. DOMAIN at = {"made", "range", "mode", "timeToStart"} /\ at.made = c.made /\ at.range = chunk
  OBVIOUS
<1>2. r = IF c.timeToStart > 0 THEN [c |-> [s.c EXCEPT !.timeToStart = NoTime], m |-> s.m] ELSE [c |-> at, m |-> m]
  BY DEF PlayRecordings
<1>3. s = SeekToTimestamp(at, m, c.timeToStart, FALSE)
  OBVIOUS
<1> HIDE DEF at, s
<1>4. /\ DOMAIN s.c = {"made", "range", "mode", "timeToStart"} /\ DOMAIN s.m = {"ready", "chunk", "at", "paused"}
      /\ s.c.made = c.made /\ s.c.range = chunk
  <2>1. PICK t, play : s = SeekToTimestamp(at, m, t, play)
    BY <1>3
  <2> QED BY <1>1, <2>1, SeekIs
<1> QED BY <1>1, <1>2, <1>4

LEMMA VideoPlaysIs ==
  ASSUME PlayersInv, NEW c, DOMAIN c = {"made", "range", "mode", "timeToStart"}, VideoPlays(c)
  PROVE  /\ DOMAIN mainCtl' = {"made", "range", "mode", "timeToStart"} /\ DOMAIN media' = {"ready", "chunk", "at", "paused"}
         /\ DOMAIN dvp' = {"recordings", "timers", "loading", "buffering", "noRecording"}
         /\ mainCtl'.made = c.made /\ mainCtl'.range = rv.idx /\ dvp'.recordings = TRUE
         /\ media.chunk # rv.idx => media'.ready = FALSE /\ media'.chunk = rv.idx
<1> DEFINE r == PlayRecordings(c, media, rv.idx)
<1>1. /\ mainCtl' = r.c /\ dvp' = [dvp EXCEPT !.recordings = TRUE, !.timers = More(@)]
      /\ media' = IF media.chunk = rv.idx THEN r.m ELSE Load(rv.idx, IsScrubbing(rv))
  BY DEF VideoPlays
<1>2. /\ DOMAIN r.c = {"made", "range", "mode", "timeToStart"} /\ DOMAIN r.m = {"ready", "chunk", "at", "paused"}
      /\ r.c.made = c.made /\ r.c.range = rv.idx
  BY PlayRecordingsIs DEF PlayersInv
<1> HIDE DEF r
<1> QED BY <1>1, <1>2 DEF Load, PlayersInv

\* What is asked of the controller the view was given.
LEMMA AskedIs ==
  ASSUME PlayersInv, NEW t, NEW play, NEW r, r = SeekToTimestamp(mainCtl, media, t, play), AskRecordings(r)
  PROVE  /\ DOMAIN mainCtl' = {"made", "range", "mode", "timeToStart"} /\ DOMAIN media' = {"ready", "chunk", "at", "paused"}
         /\ mainCtl'.made = mainCtl.made /\ mainCtl'.range = mainCtl.range
         /\ media'.ready = media.ready /\ media'.chunk = media.chunk
         /\ mainCtl.made /\ mainCtl.range = ChunkOf(t) /\ mainCtl.range # NoTime /\ Position(t) # 0
               => media'.at = Position(t)
<1>1. /\ DOMAIN r.c = {"made", "range", "mode", "timeToStart"} /\ DOMAIN r.m = {"ready", "chunk", "at", "paused"}
      /\ r.c.made = mainCtl.made /\ r.c.range = mainCtl.range /\ r.m.ready = media.ready /\ r.m.chunk = media.chunk
      /\ mainCtl.range = ChunkOf(t) /\ mainCtl.range # NoTime /\ Position(t) # 0 => r.m.at = Position(t)
  BY SeekIs DEF PlayersInv
<1>2. CASE Asked(r) BY <1>1, <1>2 DEF Asked
<1>3. CASE NotAsked BY <1>3 DEF NotAsked, PlayersInv
<1> QED BY <1>2, <1>3 DEF AskRecordings

\* Nothing was clicked: the records keep their keys.
LEMMA KeysKept == ASSUME PlayersInv, [PlaybackNext]_playVars PROVE PlayersInv'
<1> USE DEF PlayersInv
<1>1. CASE UNCHANGED playVars
  BY <1>1 DEF playVars
<1>2. CASE RecordingsArrive
  <2>1. CASE rv.idx \in recorded /\ mainCtl.made
    BY <1>2, <2>1, VideoPlaysIs DEF RecordingsArrive
  <2>2. CASE ~(rv.idx \in recorded /\ mainCtl.made)
    BY <1>2, <2>2 DEF RecordingsArrive
  <2> QED BY <2>1, <2>2
<1>3. CASE ControllerReady
  <2> DEFINE c == [NewController EXCEPT !.made = TRUE, !.mode = IF IsScrubbing(rv) THEN "scrubbing" ELSE "playback"]
  <2>1. rv' = [rv EXCEPT !.controller = "this"] /\ DOMAIN c = {"made", "range", "mode", "timeToStart"}
    BY <1>3 DEF ControllerReady, NewController
  <2>2. VideoPlays(c) \/ (mainCtl' = c /\ UNCHANGED <<dvp, media>>)
    BY <1>3 DEF ControllerReady
  <2> HIDE DEF c
  <2> QED BY <2>1, <2>2, VideoPlaysIs
<1>4. CASE OnPlayerLoaded
  <2> DEFINE now == [media EXCEPT !.ready = TRUE]
             r == SeekToTimestamp(mainCtl, now, rv.start, TRUE)
  <2>1. DOMAIN now = {"ready", "chunk", "at", "paused"} OBVIOUS
  <2>2. /\ UNCHANGED <<rv, dvp>>
        /\ (mainCtl' = r.c /\ media' = r.m) \/ (media' = now /\ UNCHANGED mainCtl)
    BY <1>4 DEF OnPlayerLoaded
  <2>3. r = SeekToTimestamp(mainCtl, now, rv.start, TRUE) OBVIOUS
  <2> HIDE DEF r, now
  <2>4. /\ DOMAIN r.c = {"made", "range", "mode", "timeToStart"} /\ DOMAIN r.m = {"ready", "chunk", "at", "paused"}
        /\ r.c.made = mainCtl.made
    <3>1. PICK t, play : r = SeekToTimestamp(mainCtl, now, t, play)
      BY <2>3
    <3> QED BY <2>1, <3>1, SeekIs
  <2> QED BY <2>1, <2>2, <2>4
<1>5. CASE TimeUpdate
  <2>1. /\ DOMAIN media' = DOMAIN media /\ DOMAIN mainCtl' = DOMAIN mainCtl /\ mainCtl'.made = mainCtl.made
    BY <1>5 DEF TimeUpdate
  <2>2. DOMAIN dvp' = DOMAIN dvp
    BY <1>5 DEF TimeUpdate
  <2>3. DOMAIN rv' = DOMAIN rv /\ rv'.controller = rv.controller
    BY <1>5 DEF TimeUpdate
  <2> QED BY <2>1, <2>2, <2>3
<1>6. CASE OnClipEnded \/ LoadingTimeout \/ OnWaiting
  BY <1>6 DEF OnClipEnded, LoadingTimeout, OnWaiting
<1>7. CASE UseControls
  <2>1. UNCHANGED <<rv, dvp, mainCtl>> /\ DOMAIN media' = DOMAIN media
    BY <1>7 DEF UseControls, OnPlayPause, OnSkip, OnSeek, ToggleControl, PlusUpload
  <2> QED BY <2>1
<1>8. CASE OnSelectCamera
  BY <1>8 DEF OnSelectCamera, NewPlayer, NewController, Load
<1>9. ASSUME NEW mode, NEW range, SetExport(mode, range) PROVE PlayersInv'
  <2>1. DOMAIN rv' = DOMAIN rv /\ rv'.controller = rv.controller /\ DOMAIN dvp' = DOMAIN dvp
    BY <1>9 DEF SetExport
  <2>2. DOMAIN media' = DOMAIN media /\ UNCHANGED mainCtl
    BY <1>9 DEF SetExport
  <2> QED BY <2>1, <2>2
<1>10. ASSUME NEW t \in Times, ScrubMain(t) PROVE PlayersInv'
  <2>1. DOMAIN rv' = DOMAIN rv /\ rv'.controller = rv.controller /\ DOMAIN dvp' = DOMAIN dvp
    BY <1>10 DEF ScrubMain, Selects, UpdateSelectedSegment
  <2>2. /\ DOMAIN media' = DOMAIN media /\ DOMAIN mainCtl' = DOMAIN mainCtl /\ mainCtl'.made = mainCtl.made
    BY <1>10 DEF ScrubMain, AskRecordings, Asked, NotAsked
  <2> QED BY <2>1, <2>2
<1>11. ASSUME NEW t \in Times, ManuallySetCurrentTime(t) \/ MoveExportHandle(t) PROVE PlayersInv'
  <2>1. DOMAIN rv' = DOMAIN rv /\ rv'.controller = rv.controller /\ DOMAIN dvp' = DOMAIN dvp
    BY <1>11 DEF ManuallySetCurrentTime, MoveExportHandle, Selects, UpdateSelectedSegment
  <2>2. AskRecordings(SeekToTimestamp(mainCtl, media, t, TRUE))
    BY <1>11 DEF ManuallySetCurrentTime, MoveExportHandle
  <2> QED BY <2>1, <2>2, AskedIs
<1>12. CASE Release
  <2>1. DOMAIN rv' = DOMAIN rv /\ rv'.controller = rv.controller /\ DOMAIN dvp' = DOMAIN dvp
    BY <1>12 DEF Release, UpdateSelectedSegment
  <2>2. AskRecordings(SeekToTimestamp(mainCtl, media, rv.currentTime, TRUE)) \/ UNCHANGED <<mainCtl, media>>
    BY <1>12 DEF Release
  <2> QED BY <2>1, <2>2, AskedIs
<1> QED
  BY <1>1, <1>2, <1>3, <1>4, <1>5, <1>6, <1>7, <1>8, <1>9, <1>10, <1>11, <1>12 DEF PlaybackNext

\* A click leaves the time on its way, or is forgotten.
LEMMA ClickBegins ==
  ASSUME ClickInv, NEW t \in Times, ManuallySetCurrentTime(t) PROVE clickedTime' # NoTime => OnItsWay(clickedTime)'
<1> SUFFICES ASSUME clickedTime' # NoTime PROVE OnItsWay(clickedTime)'
  OBVIOUS
<1>1. /\ PlayerReady /\ mainCtl.made /\ media.chunk = rv.idx /\ mainCtl.range = rv.idx
      /\ ChunkOf(t) \in recorded /\ Position(t) > 0 /\ clickedTime' = t /\ recorded' = recorded
      /\ ~rv.scrubbing
  BY DEF ManuallySetCurrentTime
<1>2. Position(t) # 0 /\ t # NoTime
  BY <1>1 DEF Times, NoTime
<1>3. AskRecordings(SeekToTimestamp(mainCtl, media, t, TRUE)) /\ PlayersInv
  BY DEF ManuallySetCurrentTime, ClickInv
<1>4. /\ mainCtl'.made = mainCtl.made /\ mainCtl'.range = mainCtl.range
      /\ media'.ready = media.ready /\ media'.chunk = media.chunk
      /\ mainCtl.made /\ mainCtl.range = ChunkOf(t) /\ mainCtl.range # NoTime /\ Position(t) # 0
            => media'.at = Position(t)
  BY <1>3, AskedIs
<1>5. CASE ChunkOf(t) = rv.idx
  <2>1. rv' = [rv EXCEPT !.currentTime = t] /\ dvp' = dvp
    BY <1>3, <1>5 DEF ManuallySetCurrentTime, Selects, PlayersInv
  <2>2. rv'.idx = rv.idx /\ rv'.scrubbing = rv.scrubbing
    BY <2>1
  <2>3. ChunkOf(t) # NoTime
    BY PlaybackAssumption DEF ChunkOf, Times, NoTime
  <2>4. media'.at = Position(t)
    BY <1>1, <1>2, <1>4, <1>5, <2>3
  <2> QED BY <1>1, <1>2, <1>4, <1>5, <2>1, <2>2, <2>4 DEF OnItsWay, Arrived, PlayerReady
<1>6. CASE ChunkOf(t) # rv.idx
  <2>1. /\ rv'.idx = ChunkOf(t) /\ rv'.start = t /\ rv'.scrubbing = rv.scrubbing /\ ~dvp'.recordings
    BY <1>3, <1>6 DEF ManuallySetCurrentTime, Selects, UpdateSelectedSegment, PlayersInv
  <2> QED BY <1>1, <1>2, <1>4, <1>6, <2>1 DEF OnItsWay, Fetching
<1> QED BY <1>5, <1>6

\* The steps that bring it there.
LEMMA ClickArrives ==
  ASSUME ClickInv, clickedTime # NoTime, UNCHANGED clickedTime, RecordingsArrive \/ OnPlayerLoaded
  PROVE  OnItsWay(clickedTime)'
<1>0. OnItsWay(clickedTime) /\ PlayersInv /\ UNCHANGED <<rv, recorded>>
  BY DEF ClickInv, RecordingsArrive, OnPlayerLoaded
<1>1. CASE RecordingsArrive
  <2>1. Fetching(clickedTime) /\ VideoPlays(mainCtl)
    BY <1>0, <1>1 DEF RecordingsArrive, OnItsWay, Fetching, Loading, Arrived
  <2>2. /\ mainCtl'.made = mainCtl.made /\ mainCtl'.range = rv.idx /\ dvp'.recordings = TRUE
        /\ media'.ready = FALSE /\ media'.chunk = rv.idx
    BY <1>0, <2>1, VideoPlaysIs DEF PlayersInv, Fetching
  <2>3. Loading(clickedTime)'
    BY <1>0, <2>1, <2>2 DEF Fetching, Loading
  <2> QED BY <1>0, <2>2, <2>3 DEF OnItsWay
<1>2. CASE OnPlayerLoaded
  <2> DEFINE now == [media EXCEPT !.ready = TRUE]
             r == SeekToTimestamp(mainCtl, now, rv.start, TRUE)
  <2>1. /\ ~media.ready /\ UNCHANGED dvp
        /\ DOMAIN now = {"ready", "chunk", "at", "paused"} /\ now.ready = TRUE /\ now.chunk = media.chunk
    BY <1>0, <1>2 DEF OnPlayerLoaded, PlayersInv
  <2>2. mainCtl.made /\ rv.start > 0 => mainCtl' = r.c /\ media' = r.m
    BY <1>2 DEF OnPlayerLoaded
  <2>3. ~(mainCtl.made /\ rv.start > 0) => media' = now /\ UNCHANGED mainCtl
    BY <1>2 DEF OnPlayerLoaded
  <2>4. \E play : r = SeekToTimestamp(mainCtl, now, rv.start, play)
    OBVIOUS
  <2> HIDE DEF r, now
  <2>5. PICK play : r = SeekToTimestamp(mainCtl, now, rv.start, play)
    BY <2>4
  <2>6. /\ r.c.made = mainCtl.made /\ r.c.range = mainCtl.range /\ r.m.ready = now.ready /\ r.m.chunk = now.chunk
        /\ mainCtl.range = ChunkOf(rv.start) /\ mainCtl.range # NoTime /\ Position(rv.start) # 0
              => r.m.at = Position(rv.start)
    BY <1>0, <2>1, <2>5, SeekIs DEF PlayersInv
  <2>7. clickedTime \in Times /\ Position(clickedTime) > 0 /\ mainCtl.made /\ rv.idx = ChunkOf(clickedTime)
    BY <1>0 DEF OnItsWay
  <2>8. CASE Fetching(clickedTime)
    <3>1. media'.chunk = media.chunk /\ mainCtl'.made = mainCtl.made
      BY <2>1, <2>2, <2>3, <2>6
    <3> QED BY <1>0, <2>1, <2>8, <3>1 DEF OnItsWay, Fetching
  <2>9. CASE Loading(clickedTime)
    <3>1. rv.start = clickedTime /\ rv.start > 0 /\ mainCtl.range = ChunkOf(clickedTime)
      BY <2>7, <2>9, TimeIsInItsChunk DEF Loading
    <3>2. mainCtl.range # NoTime /\ Position(clickedTime) # 0
      BY <2>7, <3>1, PlaybackAssumption DEF ChunkOf, Times, NoTime
    <3>3. /\ media'.ready = TRUE /\ media'.chunk = media.chunk /\ media'.at = Position(clickedTime)
          /\ mainCtl'.made = mainCtl.made
      BY <2>1, <2>2, <2>6, <2>7, <3>1, <3>2
    <3>4. Arrived(clickedTime)'
      BY <1>0, <2>1, <2>9, <3>3 DEF Loading, Arrived
    <3> QED BY <1>0, <3>3, <3>4 DEF OnItsWay
  <2> QED BY <1>0, <2>1, <2>8, <2>9 DEF OnItsWay, Arrived
<1> QED BY <1>1, <1>2

\* A video that plays on either is the old one, or takes the click with it.
LEMMA PlayingKeepsClick ==
  ASSUME ClickInv, TimeUpdate, clickedTime' # NoTime PROVE OnItsWay(clickedTime)'
<1>1. /\ clickedTime' = clickedTime /\ clickedTime # TimeAt(media.chunk, media.at)
      /\ OnItsWay(clickedTime) /\ PlayersInv /\ media.ready
  BY DEF TimeUpdate, ClickInv
<1>2. /\ media'.chunk = media.chunk /\ media'.ready = media.ready /\ recorded' = recorded
  BY <1>1 DEF TimeUpdate, PlayersInv
<1>3. mainCtl'.made = mainCtl.made /\ dvp'.recordings = dvp.recordings
  BY <1>1 DEF TimeUpdate, PlayersInv
<1>4. rv'.idx = rv.idx /\ rv'.start = rv.start /\ rv'.scrubbing = rv.scrubbing
  BY <1>1 DEF TimeUpdate, PlayersInv
<1>5. ~Arrived(clickedTime)
  BY <1>1, TimeIsInItsChunk DEF OnItsWay, Arrived
<1>6. Fetching(clickedTime)
  BY <1>1, <1>5 DEF OnItsWay, Loading
<1> QED BY <1>1, <1>2, <1>3, <1>4, <1>6 DEF OnItsWay, Fetching

\* Whatever comes first of the recordings, the source and the time of the old video, a time
\* that was clicked while nothing was loading is where the player is once both are there
\* (RecordingView.tsx, DynamicVideoController.ts): for any number of chunks, of any length,
\* and any number of actions.
THEOREM ClickReachesItsTime == PlaybackSpec => []ClickIsReached
<1>1. PlaybackInit => ClickInv
  BY DEF PlaybackInit, FirstViews, ClickInv, PlayersInv, NewPlayer, NewController, Load
<1>2. ClickInv /\ [PlaybackNext]_playVars => ClickInv'
  <2> SUFFICES ASSUME ClickInv, [PlaybackNext]_playVars PROVE ClickInv'
    OBVIOUS
  <2>0. PlayersInv'
    BY KeysKept DEF ClickInv
  <2> SUFFICES ASSUME clickedTime' # NoTime PROVE OnItsWay(clickedTime)'
    BY <2>0 DEF ClickInv
  <2>1. CASE UNCHANGED playVars
    BY <2>1 DEF playVars, ClickInv, OnItsWay, Fetching, Loading, Arrived
  <2>2. CASE \E t \in Times : ManuallySetCurrentTime(t)
    BY <2>2, ClickBegins
  <2>3. CASE RecordingsArrive \/ OnPlayerLoaded
    BY <2>3, ClickArrives DEF RecordingsArrive, OnPlayerLoaded
  <2>4. CASE TimeUpdate
    BY <2>4, PlayingKeepsClick
  <2>5. CASE LoadingTimeout \/ OnWaiting
    <3>1. /\ UNCHANGED <<rv, recorded, mainCtl, media, clickedTime>> /\ dvp'.recordings = dvp.recordings
      BY <2>5 DEF LoadingTimeout, OnWaiting, ClickInv, PlayersInv
    <3> QED BY <3>1 DEF ClickInv, OnItsWay, Fetching, Loading, Arrived
  <2>6. CASE ControllerReady \/ Release
    BY <2>6 DEF ControllerReady, Release, ClickInv, OnItsWay
  <2>7. CASE \/ OnClipEnded \/ OnSelectCamera \/ UseControls
             \/ \E t \in Times : ScrubMain(t) \/ MoveExportHandle(t)
             \/ \E mode \in {"none", "select", "timeline"}, range \in BOOLEAN : SetExport(mode, range)
    BY <2>7 DEF OnClipEnded, OnSelectCamera, UseControls, ScrubMain, MoveExportHandle, SetExport
  <2> QED BY <2>1, <2>2, <2>3, <2>4, <2>5, <2>6, <2>7 DEF PlaybackNext
<1>3. ClickInv => ClickIsReached
  BY DEF ClickInv, OnItsWay, Fetching, Loading, Arrived, ClickIsReached, PlayerReady
<1> QED
  BY <1>1, <1>2, <1>3, PTL DEF PlaybackSpec

-----------------------------------------------------------------------------
(* The handles of an export *)

\* The records have their keys; only a timeline that is there is dragged on, and no dialog is
\* open while the range is the timeline's.
PagesOfExport ==
  /\ DOMAIN recordingPage = {"phone", "mode", "range", "current", "preview", "sent"}
  /\ recordingPage.range = NewRange(recordingPage.range.after, recordingPage.range.before)
  /\ DOMAIN bar = {"zoom", "loaded", "dragged", "scrubbing"} /\ bar.zoom \in 1..Len(Segments)
  /\ DOMAIN exportEnds = Handles /\ DOMAIN shownAt = Handles
  /\ bar.dragged \in Handles \cup {"none", "handlebar"} /\ (~bar.loaded => bar.dragged = "none")
  /\ recordingPage.mode = "timeline" => content = ""

\* What a handle shows is what it told the timeline's parent.
ShownIsTold ==
  \A h \in Handles : shownAt[h] # 0 => HandlesShown(recordingPage) /\ bar.loaded /\ shownAt[h] = exportEnds[h]

\* A range within the timeline is the one that the parent was told.
RangeIsTold ==
  (HandlesShown(recordingPage) /\ bar.loaded /\ \A h \in Handles : InTimeline(Edge(recordingPage, h)))
    => \A h \in Handles : exportEnds[h] = Edge(recordingPage, h)

ExportInv == PagesOfExport /\ ShownIsTold /\ RangeIsTold

\* The two ways in which the effects of the timeline come about: with nothing held, or with
\* the range as it was and the handle that is held at another time.
Begun(p, b) == b.dragged = "none"
Moved(p, b, e) ==
  /\ HandlesShown(recordingPage) /\ bar.loaded /\ p.range = recordingPage.range
  /\ \/ e = exportEnds
     \/ \E t : t # 0 /\ b.dragged \in Handles /\ e = [exportEnds EXCEPT ![b.dragged] = t]

LEMMA EffectsKeep ==
  ASSUME ExportInv, NEW p, NEW b, NEW e, NEW s, Effects(p, b, e, s),
         DOMAIN p = {"phone", "mode", "range", "current", "preview", "sent"},
         p.range = NewRange(p.range.after, p.range.before),
         DOMAIN b = {"zoom", "loaded", "dragged", "scrubbing"}, b.zoom \in 1..Len(Segments),
         DOMAIN e = Handles, DOMAIN s = Handles,
         \A h \in Handles : s[h] # 0 => s[h] = e[h],
         b.dragged \in Handles \cup {"none", "handlebar"}, ~b.loaded => b.dragged = "none",
         p.mode = "timeline" => content' = "",
         HandlesShown(p) => Begun(p, b) \/ Moved(p, b, e)
  PROVE  ExportInv'
<1> DEFINE told == [h \in Handles |-> IF Placed(p, b, h) THEN Edge(p, h) ELSE e[h]]
           range == NewRange(told["start"], told["end"])
           both == told["start"] # 0 /\ told["end"] # 0 /\ told # exportEnds /\ HandlesShown(p)
           time == IF p.range.after # range.after THEN range.after
                   ELSE IF p.range.before # range.before THEN range.before ELSE p.current
           p2 == IF ~both THEN p ELSE [p EXCEPT !.range = range, !.current = time]
<1>1. /\ recordingPage' = p2 /\ bar' = b
      /\ shownAt' = [h \in Handles |->
                       IF Placed(p2, b, h) THEN Edge(p2, h)
                       ELSE IF HandlesShown(p2) /\ b.loaded /\ HandlesShown(recordingPage) THEN s[h] ELSE 0]
      /\ exportEnds' = [h \in Handles |-> IF Placed(p2, b, h) THEN Edge(p2, h) ELSE told[h]]
  BY DEF Effects, NewRange
<1>2. \A h \in Handles : told[h] = IF Placed(p, b, h) THEN Edge(p, h) ELSE e[h]
  OBVIOUS
<1>3. Handles = {"start", "end"}
  BY DEF Handles
<1>4. range.after = told["start"] /\ range.before = told["end"] /\ range = NewRange(range.after, range.before)
  <2>1. range = [after |-> told["start"], before |-> told["end"]]
    BY DEF NewRange
  <2> HIDE DEF range, told
  <2>2. range.after = told["start"] /\ range.before = told["end"]
    BY <2>1
  <2> QED BY <2>1, <2>2 DEF NewRange
<1>5. ~both => p2 = p
  OBVIOUS
<1>6. both => /\ DOMAIN p2 = DOMAIN p /\ p2.mode = p.mode /\ p2.range = range
              /\ \A h \in Handles : Edge(p2, h) = told[h]
  <2> SUFFICES ASSUME both PROVE DOMAIN p2 = DOMAIN p /\ p2.mode = p.mode /\ p2.range = range
    BY <1>3, <1>4 DEF Edge
  <2>1. p2 = [p EXCEPT !.range = range, !.current = time] OBVIOUS
  <2> HIDE DEF p2, range, time, both
  <2> QED BY <2>1
<1> HIDE DEF p2, range, time
<1>7. PagesOfExport'
  <2>1. p2.range = NewRange(p2.range.after, p2.range.before) /\ DOMAIN p2 = DOMAIN p /\ p2.mode = p.mode
    BY <1>4, <1>5, <1>6
  <2> QED BY <1>1, <2>1 DEF PagesOfExport
<1> HIDE DEF told
<1>8. ASSUME NEW h \in Handles, HandlesShown(p2), Placed(p, b, h) PROVE Placed(p2, b, h)
  BY <1>2, <1>5, <1>6, <1>8 DEF Placed
<1>9. \A h \in Handles : exportEnds'[h] = IF Placed(p2, b, h) THEN Edge(p2, h) ELSE told[h]
  BY <1>1
<1>10. ShownIsTold'
  <2> SUFFICES ASSUME NEW h \in Handles, shownAt'[h] # 0
               PROVE  HandlesShown(p2) /\ b.loaded /\ shownAt'[h] = exportEnds'[h]
    BY <1>1 DEF ShownIsTold
  <2>1. CASE Placed(p2, b, h)
    BY <1>1, <1>9, <2>1 DEF Placed
  <2>2. CASE ~Placed(p2, b, h)
    <3>1. HandlesShown(p2) /\ b.loaded /\ shownAt'[h] = s[h]
      BY <1>1, <2>2
    <3>2. told[h] = e[h]
      BY <1>2, <1>8, <2>2, <3>1
    <3> QED BY <1>9, <2>2, <3>1, <3>2
  <2> QED BY <2>1, <2>2
<1>11. RangeIsTold'
  <2> SUFFICES ASSUME HandlesShown(p2), b.loaded, \A h \in Handles : InTimeline(Edge(p2, h)),
                      NEW h \in Handles
               PROVE  exportEnds'[h] = Edge(p2, h)
    BY <1>1 DEF RangeIsTold
  <2>1. CASE both \/ Placed(p2, b, h)
    BY <1>6, <1>9, <2>1
  <2>2. CASE ~both /\ ~Placed(p2, b, h)
    <3>1. p2 = p /\ HandlesShown(p)
      BY <1>5, <2>2
    <3>2. ASSUME NEW o \in Handles, ~Placed(p, b, o) PROVE b.dragged = o
      BY <3>1, <3>2 DEF Placed, InTimeline
    <3>3. b.dragged = h /\ exportEnds'[h] = e[h] /\ told[h] = e[h]
      BY <1>2, <1>9, <2>2, <3>1, <3>2
    <3>4. Moved(p, b, e)
      BY <1>3, <3>1, <3>3 DEF Begun
    <3>5. \A o \in Handles : Edge(p, o) = Edge(recordingPage, o)
      BY <1>3, <3>4 DEF Moved, Edge
    <3>6. \A o \in Handles : exportEnds[o] = Edge(p, o)
      BY <3>1, <3>4, <3>5 DEF Moved, ExportInv, RangeIsTold
    <3>7. CASE e = exportEnds
      BY <3>1, <3>3, <3>6, <3>7
    <3>8. CASE e # exportEnds
      <4>1. PICK t : t # 0 /\ e = [exportEnds EXCEPT ![h] = t]
        BY <3>3, <3>4, <3>8 DEF Moved
      <4>2. e[h] # 0
        BY <4>1 DEF ExportInv, PagesOfExport
      <4>3. \A o \in Handles : o # h => told[o] = Edge(p, o) /\ Edge(p, o) # 0
        BY <1>2, <3>1, <3>2, <3>3 DEF InTimeline
      <4>4. told["start"] # 0 /\ told["end"] # 0
        BY <1>3, <3>3, <4>2, <4>3
      <4>5. told = exportEnds
        BY <2>2, <3>1, <4>4
      <4> QED BY <3>1, <3>3, <3>6, <4>5
    <3> QED BY <3>7, <3>8
  <2> QED BY <2>1, <2>2
<1> QED BY <1>7, <1>10, <1>11 DEF ExportInv

\* The effects of another state of the page alone.
LEMMA SetsKeeps ==
  ASSUME ExportInv, NEW p, Sets(p), DOMAIN p = {"phone", "mode", "range", "current", "preview", "sent"},
         p.range = NewRange(p.range.after, p.range.before), p.mode = "timeline" => content' = "",
         HandlesShown(p) => bar.dragged = "none" \/ (HandlesShown(recordingPage) /\ p.range = recordingPage.range)
  PROVE  ExportInv'
<1>1. Effects(p, bar, exportEnds, shownAt)
  BY DEF Sets
<1>2. /\ DOMAIN bar = {"zoom", "loaded", "dragged", "scrubbing"} /\ bar.zoom \in 1..Len(Segments)
      /\ DOMAIN exportEnds = Handles /\ DOMAIN shownAt = Handles
      /\ bar.dragged \in Handles \cup {"none", "handlebar"} /\ (~bar.loaded => bar.dragged = "none")
      /\ \A h \in Handles : shownAt[h] # 0 => shownAt[h] = exportEnds[h]
  BY DEF ExportInv, PagesOfExport, ShownIsTold
<1>3. HandlesShown(p) => Begun(p, bar) \/ Moved(p, bar, exportEnds)
  BY <1>2 DEF Begun, Moved
<1> QED BY <1>1, <1>2, <1>3, EffectsKeep

\* The dialog, the drawer and the overlay.
LEMMA DialogKeeps == ASSUME ExportInv, DialogNext \/ ExportDone PROVE ExportInv'
<1> USE DEF ExportInv, PagesOfExport
<1>1. ASSUME NEW p, Sets(p), DOMAIN p = DOMAIN recordingPage, p.mode # "timeline",
             p.range = NewRange(p.range.after, p.range.before)
      PROVE  ExportInv'
  BY <1>1, SetsKeeps DEF HandlesShown
<1>2. CASE OpenDialog
  <2> DEFINE p == [recordingPage EXCEPT !.range = NewRange(DayEnd - 2 * Pad, DayEnd), !.mode = "select"]
  <2>1. Sets(p) BY <1>2 DEF OpenDialog
  <2>2. DOMAIN p = DOMAIN recordingPage /\ p.mode = "select" /\ p.range = NewRange(p.range.after, p.range.before)
    BY DEF NewRange
  <2> HIDE DEF p
  <2> QED BY <1>1, <2>1, <2>2
<1>3. ASSUME NEW m, OpenDrawer(m) PROVE ExportInv'
  <2>1. CASE m = "export"
    <3> DEFINE p == [recordingPage EXCEPT !.mode = "select"]
    <3>1. Sets(p) BY <1>3, <2>1 DEF OpenDrawer
    <3>2. DOMAIN p = DOMAIN recordingPage /\ p.mode = "select" /\ p.range = recordingPage.range OBVIOUS
    <3> HIDE DEF p
    <3> QED BY <1>1, <3>1, <3>2
  <2>2. CASE m # "export"
    BY <1>3, <2>2, SetsKeeps DEF OpenDrawer
  <2> QED BY <2>1, <2>2
<1>4. CASE CloseDialog
  <2> DEFINE p == [recordingPage EXCEPT !.mode = "none"]
  <2>1. Sets(p) BY <1>4 DEF CloseDialog
  <2>2. DOMAIN p = DOMAIN recordingPage /\ p.mode = "none" /\ p.range = recordingPage.range OBVIOUS
  <2> HIDE DEF p
  <2> QED BY <1>1, <2>1, <2>2
<1>5. CASE CancelContent \/ ExportDone
  <2> DEFINE p == [recordingPage EXCEPT !.mode = "none", !.range = NoRange]
             q == [recordingPage EXCEPT !.range = NoRange, !.mode = "none"]
  <2>1. Sets(p) \/ Sets(q) BY <1>5 DEF CancelContent, ExportDone
  <2>2. /\ DOMAIN p = DOMAIN recordingPage /\ p.mode = "none" /\ p.range = NewRange(p.range.after, p.range.before)
        /\ DOMAIN q = DOMAIN recordingPage /\ q.mode = "none" /\ q.range = NewRange(q.range.after, q.range.before)
    BY DEF NewRange, NoRange
  <2> HIDE DEF p, q
  <2> QED BY <1>1, <2>1, <2>2
<1>6. ASSUME NEW o \in Options, OnSelectTime(o) PROVE ExportInv'
  <2>1. PICK a : Sets([recordingPage EXCEPT !.range = NewRange(a, DayEnd)])
    BY <1>6 DEF OnSelectTime
  <2> DEFINE p == [recordingPage EXCEPT !.range = NewRange(a, DayEnd)]
  <2>2. Sets(p) /\ content # "" BY <1>6, <2>1 DEF OnSelectTime
  <2>3. DOMAIN p = DOMAIN recordingPage /\ p.mode = recordingPage.mode /\ p.range = NewRange(p.range.after, p.range.before)
    BY DEF NewRange
  <2> HIDE DEF p
  <2> QED BY <1>1, <2>2, <2>3
<1>7. ASSUME NEW h \in Handles, NEW t \in Spots, CustomTime(h, t) PROVE ExportInv'
  <2> DEFINE range == IF h = "start" THEN [recordingPage.range EXCEPT !.after = t] ELSE [recordingPage.range EXCEPT !.before = t]
             p == [recordingPage EXCEPT !.range = range]
  <2>1. Sets(p) /\ content # ""
    BY <1>7 DEF CustomTime
  <2>2. range = NewRange(range.after, range.before)
    <3>1. recordingPage.range = [after |-> recordingPage.range.after, before |-> recordingPage.range.before]
      BY DEF NewRange
    <3>2. \/ range = [after |-> t, before |-> recordingPage.range.before]
          \/ range = [after |-> recordingPage.range.after, before |-> t]
      BY <3>1
    <3> HIDE DEF range
    <3> QED BY <3>2 DEF NewRange
  <2>3. DOMAIN p = DOMAIN recordingPage /\ p.mode = recordingPage.mode /\ p.range = range
    OBVIOUS
  <2> HIDE DEF p, range
  <2> QED BY <1>1, <2>1, <2>2, <2>3
<1>8. CASE ToTimeline
  <2> DEFINE p == [recordingPage EXCEPT !.range = NewRange(recordingPage.current - Pad, recordingPage.current + Pad), !.mode = "timeline"]
  <2>1. Sets(p) /\ content' = "" /\ bar.dragged = "none" BY <1>8 DEF ToTimeline, ExportAct
  <2>2. DOMAIN p = DOMAIN recordingPage /\ p.range = NewRange(p.range.after, p.range.before)
    BY DEF NewRange
  <2> HIDE DEF p
  <2> QED BY <2>1, <2>2, SetsKeeps
<1>9. CASE SubmitContent
  <2> DEFINE q == [recordingPage EXCEPT !.mode = "none"]
             p == Counted(q)
  <2>1. Sets(p) BY <1>9 DEF SubmitContent
  <2>2. DOMAIN p = DOMAIN recordingPage /\ p.mode = "none" /\ p.range = recordingPage.range
    BY DEF Counted
  <2> HIDE DEF p
  <2> QED BY <1>1, <2>1, <2>2
<1>10. CASE CancelOverlay
  <2> DEFINE p == [recordingPage EXCEPT !.mode = "none", !.range = IF recordingPage.phone THEN @ ELSE NoRange]
  <2>1. Sets(p) BY <1>10 DEF CancelOverlay
  <2>2. DOMAIN p = DOMAIN recordingPage /\ p.mode = "none" /\ (p.range = recordingPage.range \/ p.range = NoRange)
    OBVIOUS
  <2>3. p.range = NewRange(p.range.after, p.range.before)
    BY <2>2 DEF NewRange, NoRange
  <2> HIDE DEF p
  <2> QED BY <1>1, <2>1, <2>2, <2>3
<1>11. CASE SaveOverlay
  <2> DEFINE p == Counted(recordingPage)
  <2>1. Sets(p) /\ UNCHANGED content BY <1>11 DEF SaveOverlay
  <2>2. DOMAIN p = DOMAIN recordingPage /\ p.mode = recordingPage.mode /\ p.range = recordingPage.range
    BY DEF Counted
  <2> HIDE DEF p
  <2>3. HandlesShown(p) => HandlesShown(recordingPage)
    BY <2>2 DEF HandlesShown
  <2> QED BY <2>1, <2>2, <2>3, SetsKeeps
<1>12. ASSUME NEW open \in BOOLEAN, Preview(open) PROVE ExportInv'
  <2>1. UNCHANGED <<content, exportEnds, bar, shownAt>> /\ recordingPage' = [recordingPage EXCEPT !.preview = open]
    BY <1>12 DEF Preview
  <2>2. DOMAIN recordingPage' = DOMAIN recordingPage /\ recordingPage'.mode = recordingPage.mode /\ recordingPage'.range = recordingPage.range
    BY <2>1
  <2> QED BY <2>1, <2>2 DEF ShownIsTold, RangeIsTold, HandlesShown, Edge
<1> QED
  BY <1>2, <1>3, <1>4, <1>5, <1>6, <1>7, <1>8, <1>9, <1>10, <1>11, <1>12 DEF DialogNext

\* The page's time, and what is held, have no part in it.
LEMMA SameRangeKeeps ==
  ASSUME ExportInv, DOMAIN recordingPage' = DOMAIN recordingPage, recordingPage'.mode = recordingPage.mode,
         recordingPage'.range = recordingPage.range, UNCHANGED <<content, exportEnds, shownAt>>,
         DOMAIN bar' = DOMAIN bar, bar'.zoom = bar.zoom, bar'.loaded = bar.loaded,
         bar'.dragged \in Handles \cup {"none", "handlebar"}, ~bar.loaded => bar'.dragged = "none"
  PROVE  ExportInv'
BY DEF ExportInv, PagesOfExport, ShownIsTold, RangeIsTold, HandlesShown, Edge

\* The timeline.
LEMMA BarKeeps == ASSUME ExportInv, BarNext \/ TimelinePlays PROVE ExportInv'
<1> USE DEF ExportInv, PagesOfExport
<1>0. /\ \A h \in Handles : shownAt[h] # 0 => shownAt[h] = exportEnds[h]
      /\ HandlesShown(recordingPage) /\ bar.loaded => Moved(recordingPage, bar, exportEnds)
  BY DEF ShownIsTold, Moved
<1>1. ASSUME NEW level \in 1..Len(Segments), Zoom(level) PROVE ExportInv'
  <2>1. PICK cached \in BOOLEAN :
          Effects(recordingPage, [bar EXCEPT !.zoom = level, !.loaded = cached, !.dragged = IF cached THEN @ ELSE "none"], exportEnds, shownAt)
    BY <1>1 DEF Zoom
  <2> DEFINE b == [bar EXCEPT !.zoom = level, !.loaded = cached, !.dragged = IF cached THEN @ ELSE "none"]
  <2>2. Effects(recordingPage, b, exportEnds, shownAt) /\ bar.loaded /\ UNCHANGED content
    BY <1>1, <2>1 DEF Zoom
  <2>3. /\ DOMAIN b = {"zoom", "loaded", "dragged", "scrubbing"} /\ b.zoom \in 1..Len(Segments)
        /\ b.dragged \in Handles \cup {"none", "handlebar"} /\ (~b.loaded => b.dragged = "none")
    OBVIOUS
  <2> HIDE DEF b
  <2>4. HandlesShown(recordingPage) => Moved(recordingPage, b, exportEnds)
    BY <2>2 DEF Moved
  <2> QED BY <1>0, <2>2, <2>3, <2>4, EffectsKeep
<1>2. CASE MotionArrives
  <2> DEFINE b == [bar EXCEPT !.loaded = TRUE, !.scrubbing = FALSE]
  <2>1. Effects(recordingPage, b, exportEnds, shownAt) /\ ~bar.loaded /\ UNCHANGED content
    BY <1>2 DEF MotionArrives
  <2>2. /\ DOMAIN b = {"zoom", "loaded", "dragged", "scrubbing"} /\ b.zoom \in 1..Len(Segments)
        /\ b.dragged = "none"
    BY <2>1
  <2> HIDE DEF b
  <2>3. Begun(recordingPage, b)
    BY <2>2 DEF Begun
  <2> QED BY <1>0, <2>1, <2>2, <2>3, EffectsKeep
<1>3. ASSUME NEW what \in Handles \cup {"handlebar"}, MouseDown(what) PROVE ExportInv'
  <2>1. bar' = [bar EXCEPT !.dragged = what, !.scrubbing = what = "handlebar"] /\ bar.loaded
    BY <1>3 DEF MouseDown, Reachable
  <2>2. DOMAIN bar' = DOMAIN bar /\ bar'.zoom = bar.zoom /\ bar'.loaded = bar.loaded /\ bar'.dragged = what
    BY <2>1
  <2>3. UNCHANGED <<recordingPage, content, exportEnds, shownAt>>
    BY <1>3 DEF MouseDown
  <2> QED BY <2>1, <2>2, <2>3, SameRangeKeeps
<1>4. ASSUME NEW t \in Spots, MouseMove(t) PROVE ExportInv'
  <2>0. t # 0
    BY ReviewExportAssumption
  <2>1. CASE bar.dragged = "handlebar"
    <3>1. recordingPage' = [recordingPage EXCEPT !.current = t] /\ UNCHANGED <<content, exportEnds, bar, shownAt>>
      BY <1>4, <2>1 DEF MouseMove
    <3>2. /\ DOMAIN recordingPage' = DOMAIN recordingPage /\ recordingPage'.mode = recordingPage.mode
          /\ recordingPage'.range = recordingPage.range
      BY <3>1
    <3> QED BY <3>1, <3>2, SameRangeKeeps
  <2>2. CASE bar.dragged # "handlebar"
    <3> DEFINE e == [exportEnds EXCEPT ![bar.dragged] = t]
               s == [shownAt EXCEPT ![bar.dragged] = t]
    <3>1. /\ Effects(recordingPage, bar, e, s) /\ UNCHANGED content
          /\ HandlesShown(recordingPage) /\ bar.dragged # "none" /\ bar.loaded
      BY <1>4, <2>2 DEF MouseMove
    <3>2. /\ DOMAIN e = Handles /\ DOMAIN s = Handles
          /\ \A h \in Handles : s[h] # 0 => s[h] = e[h]
      BY <1>0
    <3>3. bar.dragged \in Handles /\ e = [exportEnds EXCEPT ![bar.dragged] = t]
      BY <2>2, <3>1
    <3> HIDE DEF e, s
    <3>4. Moved(recordingPage, bar, e)
      BY <2>0, <3>1, <3>3 DEF Moved
    <3> QED BY <3>1, <3>2, <3>4, EffectsKeep
  <2> QED BY <2>1, <2>2
<1>5. CASE MouseUp
  <2>1. /\ bar' = [bar EXCEPT !.dragged = "none", !.scrubbing = FALSE]
        /\ UNCHANGED <<recordingPage, content, exportEnds, shownAt>>
    BY <1>5 DEF MouseUp
  <2>2. DOMAIN bar' = DOMAIN bar /\ bar'.zoom = bar.zoom /\ bar'.loaded = bar.loaded /\ bar'.dragged = "none"
    BY <2>1
  <2> QED BY <2>1, <2>2, SameRangeKeeps
<1>6. CASE TimelinePlays
  <2>1. PICK t : recordingPage' = [recordingPage EXCEPT !.current = t]
    BY <1>6 DEF TimelinePlays
  <2>2. /\ DOMAIN recordingPage' = DOMAIN recordingPage /\ recordingPage'.mode = recordingPage.mode
        /\ recordingPage'.range = recordingPage.range /\ UNCHANGED <<content, exportEnds, bar, shownAt>>
    BY <1>6, <2>1 DEF TimelinePlays
  <2> QED BY <2>2, SameRangeKeeps
<1> QED BY <1>1, <1>2, <1>3, <1>4, <1>5, <1>6 DEF BarNext

\* What Save exports is what the handles show, if the range lies in the timeline, for any
\* timeline and zooms and however often its handles are dragged, an export is cancelled and
\* another one begun (RecordingView.tsx:814): the parent's times and the range are two
\* copies, and each change of the one reaches the other.
THEOREM SavedAsShown == ExportSpec => []SavedIsShown
<1>1. ExportInit => ExportInv
  <2> SUFFICES ASSUME ExportInit PROVE ExportInv
    OBVIOUS
  <2>0. \A r \in FirstRecordings :
          \E ph, t :
            r = [phone |-> ph, mode |-> "none", range |-> NoRange, current |-> t, preview |-> FALSE, sent |-> 0]
    BY DEF FirstRecordings
  <2>1. PICK ph, t :
          recordingPage = [phone |-> ph, mode |-> "none", range |-> NoRange, current |-> t, preview |-> FALSE, sent |-> 0]
    BY <2>0, Zenon DEF ExportInit
  <2>2. recordingPage.range = NewRange(recordingPage.range.after, recordingPage.range.before)
    BY <2>1 DEF NoRange, NewRange
  <2>3. PagesOfExport
    <3>1. 1 \in 1..Len(Segments)
      BY ReviewExportAssumption
    <3>2. bar = [zoom |-> 1, loaded |-> FALSE, dragged |-> "none", scrubbing |-> FALSE] /\ content = ""
      BY DEF ExportInit
    <3>3. DOMAIN exportEnds = Handles /\ DOMAIN shownAt = Handles
      BY DEF ExportInit
    <3>4. DOMAIN recordingPage = {"phone", "mode", "range", "current", "preview", "sent"}
      BY <2>1
    <3>5. DOMAIN bar = {"zoom", "loaded", "dragged", "scrubbing"} /\ bar.zoom = 1 /\ bar.dragged = "none"
      BY <3>2
    <3> QED BY <2>2, <3>1, <3>2, <3>3, <3>4, <3>5 DEF PagesOfExport
  <2>4. ~HandlesShown(recordingPage) /\ \A h \in Handles : shownAt[h] = 0
    BY <2>1 DEF ExportInit, HandlesShown
  <2> QED BY <2>3, <2>4 DEF ExportInv, ShownIsTold, RangeIsTold
<1>2. ExportInv /\ [ExportNext]_exportVars => ExportInv'
  <2> SUFFICES ASSUME ExportInv, [ExportNext]_exportVars PROVE ExportInv'
    OBVIOUS
  <2>1. CASE UNCHANGED exportVars \/ ExportFailed
    <3>1. UNCHANGED <<recordingPage, content, exportEnds, bar, shownAt>>
      BY <2>1 DEF exportVars, ExportFailed
    <3> QED BY <3>1, SameRangeKeeps DEF ExportInv, PagesOfExport
  <2>2. CASE DialogNext \/ ExportDone
    BY <2>2, DialogKeeps
  <2>3. CASE BarNext \/ TimelinePlays
    BY <2>3, BarKeeps
  <2> QED BY <2>1, <2>2, <2>3 DEF ExportNext
<1>3. ExportInv => SavedIsShown
  <2> SUFFICES ASSUME ExportInv, HandlesShown(recordingPage), bar.loaded,
                      \A h \in Handles : shownAt[h] # 0 /\ InTimeline(Edge(recordingPage, h))
               PROVE  recordingPage.range = NewRange(shownAt["start"], shownAt["end"])
    BY DEF SavedIsShown
  <2>1. \A h \in Handles : shownAt[h] = Edge(recordingPage, h)
    BY DEF ExportInv, ShownIsTold, RangeIsTold
  <2>2. shownAt["start"] = recordingPage.range.after /\ shownAt["end"] = recordingPage.range.before
    BY <2>1 DEF Handles, Edge
  <2> QED BY <2>2 DEF ExportInv, PagesOfExport
<1> QED
  BY <1>1, <1>2, <1>3, PTL DEF ExportSpec

-----------------------------------------------------------------------------
(* The lines of a log *)

LinesOf(svc) == [svc : {svc}, n : Nat]
InitialFrom(total) == IF total > InitialLines THEN total - InitialLines ELSE 0

HasFields(a) == {"kind", "svc", "filter", "from", "to", "answer", "total", "lines"} \subseteq DOMAIN a

\* What a request asks for, and what it is answered.
AskOk(a) ==
  /\ HasFields(a)
  /\ a.kind \in {"initial", "copy", "range"} /\ a.svc \in Services /\ a.from \in Int /\ a.to \in Int
  /\ a.answer \in {Pending, "lines", "failed"}
  /\ IF a.kind = "range" THEN 0 <= a.from /\ a.from < a.to
     ELSE a.to = -1 /\ a.from = (IF a.filter = {} THEN -InitialLines ELSE 0)
  /\ IF a.answer # "lines" THEN a.lines = <<>>
     ELSE /\ a.total \in Nat /\ a.total <= logged[a.svc]
          /\ a.lines = IF a.kind = "range" THEN FileLines(a.svc, a.from, a.to)
                       ELSE FileLines(a.svc, IF a.filter = {} THEN InitialFrom(a.total) ELSE 0, a.total)

\* No request is out of date: one at most is not answered, it and the stream are of the
\* page's service and filter, and a list that is loading is empty and has no stream.
OneAsk ==
  /\ \A a, b \in logAsks : a = b
  /\ \A a \in logAsks :
       /\ a.svc = logPage.svc /\ a.filter = logPage.filter
       /\ logPage.loading <=> a.kind # "range"
       /\ a.kind = "initial" => logs = <<>> /\ lastFetched = -1
       /\ a.kind = "range" => a.to = lastFetched
  /\ logStream # NoStream => logStream.svc = logPage.svc /\ logStream.filter = logPage.filter
  /\ logPage.loading => logStream = NoStream

RowsAreWanted ==
  /\ rows \in Seq(LinesOf(logPage.svc))
  /\ logPage.filter # {} => \A i \in 1 .. Len(rows) : SeverityOf(rows[i]) \in logPage.filter

\* The g-th line may be followed by another than the next one; 0 if all are.
GapAt(g) ==
  /\ \A i \in 1 .. Len(rows) - 1 :
       rows[i].n < rows[i + 1].n /\ (i # g => rows[i + 1].n = rows[i].n + 1)
  /\ rows # <<>> =>
       /\ rows[Len(rows)].n <= logged[logPage.svc]
       /\ logStream.at > 0 => rows[Len(rows)].n < logStream.at
  /\ g > 0 /\ logStream # NoStream =>
       rows # <<>> /\ rows[Len(rows)].n + 1 = logStream.at

RowsAreInOrder ==
  /\ \E g \in Nat : GapAt(g)
  /\ lastFetched > 0 => logs # <<>>
  /\ logs # <<>> => rows # <<>> /\ rows[1].n = lastFetched + 1

LogsInv ==
  /\ logged \in [Services -> Nat] /\ lastFetched \in Int
  /\ DOMAIN logPage = {"svc", "filter", "loading", "streaming"}
  /\ logPage.svc \in Services /\ logPage.loading \in BOOLEAN
  /\ DOMAIN logStream = {"svc", "filter", "at"} /\ logStream.at \in Nat
  /\ logStream # NoStream => logStream.svc \in Services
  /\ plain \in BOOLEAN
  /\ \A a \in logAsks : AskOk(a)
  /\ plain => OneAsk
  /\ plain /\ ~logPage.loading => RowsAreWanted /\ (logPage.filter = {} => RowsAreInOrder)

\* A set of natural numbers has a least one: what goes wrong in a sequence goes wrong at a
\* first place.
LEMMA LeastOf ==
  ASSUME NEW S, S \subseteq Nat, S # {}
  PROVE  \E m \in S : \A x \in S : m <= x
<1> DEFINE R == {p \in Nat \X Nat : p[1] < p[2]}
<1>1. OpToRel(<, Nat) = R
  BY DEF OpToRel
<1>2. IsWellFoundedOn(R, Nat)
  BY <1>1, NatLessThanWellFounded
<1> HIDE DEF R
<1>3. PICK m \in S : \A x \in S : ~(<<x, m>> \in R)
  BY <1>2, WFMin
<1>4. ASSUME NEW x \in S PROVE m <= x
  <2>1. x \in Nat /\ m \in Nat /\ ~(<<x, m>> \in R)
    BY <1>3
  <2> QED BY <2>1 DEF R
<1> QED BY <1>4

\* The lines up to the i-th that pass the filter, as the function that defines Wanted.
Step(filter, lines, w, i) ==
  IF i = 0 THEN <<>> ELSE IF SeverityOf(lines[i]) \in filter THEN Append(w[i - 1], lines[i]) ELSE w[i - 1]
Passing(filter, lines, n, w) == w = [i \in 0 .. n |-> Step(filter, lines, w, i)]

LEMMA PassingExists ==
  ASSUME NEW filter, NEW lines, NEW n \in Nat
  PROVE  \E w : Passing(filter, lines, n, w)
<1> DEFINE bad == {k \in Nat : ~ \E w : Passing(filter, lines, k, w)}
<1> SUFFICES ASSUME bad # {} PROVE FALSE
  OBVIOUS
<1>1. PICK m \in bad : \A k \in bad : m <= k
  BY LeastOf
<1>2. CASE m = 0
  <2>1. Passing(filter, lines, 0, [i \in 0 .. 0 |-> <<>>])
    BY DEF Passing, Step
  <2> QED BY <1>1, <1>2, <2>1
<1>3. CASE m > 0
  <2>1. m - 1 \in Nat /\ m - 1 \notin bad /\ m \in Nat
    BY <1>1, <1>3
  <2>2. PICK v : Passing(filter, lines, m - 1, v)
    BY <2>1
  <2> DEFINE w == [i \in 0 .. m |-> Step(filter, lines, v, i)]
  <2>3. \A i \in 0 .. m - 1 : v[i] = Step(filter, lines, v, i)
    BY <2>2 DEF Passing
  <2>4. \A i \in 0 .. m - 1 : w[i] = v[i]
    BY <2>1, <2>3
  <2>5. \A i \in 0 .. m : Step(filter, lines, v, i) = Step(filter, lines, w, i)
    <3> SUFFICES ASSUME NEW i \in 0 .. m PROVE Step(filter, lines, v, i) = Step(filter, lines, w, i)
      OBVIOUS
    <3>1. CASE i = 0
      BY <3>1 DEF Step
    <3>2. CASE i > 0
      <4>1. i - 1 \in 0 .. m - 1
        BY <2>1, <3>2
      <4>2. w[i - 1] = v[i - 1]
        BY <2>4, <4>1
      <4> HIDE DEF w
      <4> QED BY <3>2, <4>2 DEF Step
    <3> QED BY <2>1, <3>1, <3>2
  <2>6. w = [i \in 0 .. m |-> Step(filter, lines, w, i)]
    BY <2>5
  <2> HIDE DEF w
  <2> QED BY <1>1, <2>6 DEF Passing
<1> QED BY <1>1, <1>2, <1>3

LEMMA WantedIs ==
  ASSUME NEW filter, filter # {}, NEW S, NEW lines \in Seq(S)
  PROVE  /\ Wanted(filter, lines) \in Seq(S)
         /\ \A i \in 1 .. Len(Wanted(filter, lines)) : SeverityOf(Wanted(filter, lines)[i]) \in filter
<1> DEFINE n == Len(lines)
           w == CHOOSE v : Passing(filter, lines, n, v)
           Good(s) == s \in Seq(S) /\ \A i \in 1 .. Len(s) : SeverityOf(s[i]) \in filter
           bad == {k \in 0 .. n : ~Good(w[k])}
<1>1. n \in Nat
  OBVIOUS
<1>2. Passing(filter, lines, n, w)
  BY <1>1, PassingExists
<1>3. Wanted(filter, lines) = w[n]
  BY DEF Wanted, Passing, Step
<1>4. \A i \in 0 .. n : w[i] = Step(filter, lines, w, i)
  BY <1>2 DEF Passing
<1> HIDE DEF w
<1>5. \A i \in 0 .. n : Good(w[i])
  <2> SUFFICES ASSUME bad # {} PROVE FALSE
    OBVIOUS
  <2>0. bad \subseteq Nat
    OBVIOUS
  <2>1. PICK m \in bad : \A k \in bad : m <= k
    BY <2>0, LeastOf
  <2>2. CASE m = 0
    <3>1. w[0] = <<>>
      BY <1>1, <1>4 DEF Step
    <3>2. Good(<<>>)
      OBVIOUS
    <3> QED BY <2>1, <2>2, <3>1, <3>2
  <2>3. CASE m > 0
    <3>1. m \in 1 .. n /\ m - 1 \in 0 .. n /\ Good(w[m - 1])
      BY <1>1, <2>1, <2>3
    <3>2. w[m] = IF SeverityOf(lines[m]) \in filter THEN Append(w[m - 1], lines[m]) ELSE w[m - 1]
      BY <1>4, <2>1, <2>3 DEF Step
    <3>3. lines[m] \in S
      BY <3>1
    <3>4. Good(w[m])
      BY <3>1, <3>2, <3>3
    <3> QED BY <2>1, <3>4
  <2> QED BY <2>1, <2>2, <2>3
<1> QED BY <1>1, <1>3, <1>5

LEMMA FileLinesAre ==
  ASSUME NEW svc, NEW from \in Nat, NEW to \in Int, from <= to
  PROVE  /\ FileLines(svc, from, to) \in Seq(LinesOf(svc)) /\ Len(FileLines(svc, from, to)) = to - from
         /\ \A i \in 1 .. to - from : FileLines(svc, from, to)[i] = [svc |-> svc, n |-> from + i]
<1>1. \A i \in 1 .. to - from : [svc |-> svc, n |-> from + i] \in LinesOf(svc)
  BY DEF LinesOf
<1>2. to - from \in Nat
  OBVIOUS
<1> QED BY <1>1, <1>2 DEF FileLines

LEMMA OneLine ==
  ASSUME NEW svc, NEW at \in Nat, at > 0
  PROVE  /\ FileLines(svc, at - 1, at) \in Seq(LinesOf(svc)) /\ Len(FileLines(svc, at - 1, at)) = 1
         /\ FileLines(svc, at - 1, at)[1] = [svc |-> svc, n |-> at]
<1> DEFINE from == at - 1
<1>1. from \in Nat /\ at \in Int /\ from <= at /\ at - from = 1 /\ from + 1 = at
  OBVIOUS
<1> HIDE DEF from
<1>2. /\ FileLines(svc, from, at) \in Seq(LinesOf(svc)) /\ Len(FileLines(svc, from, at)) = at - from
      /\ \A i \in 1 .. at - from : FileLines(svc, from, at)[i] = [svc |-> svc, n |-> from + i]
  BY <1>1, FileLinesAre
<1>3. FileLines(svc, from, at)[1] = [svc |-> svc, n |-> at]
  <2>1. 1 \in 1 .. at - from BY <1>1
  <2> QED BY <1>1, <1>2, <2>1
<1> QED BY <1>1, <1>2, <1>3 DEF from

\* What is wanted of a service's lines are lines of it, with a filter of its severities.
LEMMA WantedFits ==
  ASSUME NEW filter, NEW S, NEW lines \in Seq(S)
  PROVE  /\ Wanted(filter, lines) \in Seq(S)
         /\ filter = {} => Wanted(filter, lines) = lines
         /\ filter # {} => \A i \in 1 .. Len(Wanted(filter, lines)) :
                              SeverityOf(Wanted(filter, lines)[i]) \in filter
<1>1. CASE filter = {} BY <1>1 DEF Wanted
<1>2. CASE filter # {} BY <1>2, WantedIs
<1> QED BY <1>1, <1>2

\* What answers a request are lines of its service; without a filter they end with the last
\* line of the file, or where the list begins.
LEMMA AnswerIs ==
  ASSUME NEW a, AskOk(a), logged \in [Services -> Nat]
  PROVE  /\ a.lines \in Seq(LinesOf(a.svc))
         /\ a.answer = "lines" /\ a.kind = "range" =>
              a.lines = FileLines(a.svc, a.from, a.to) /\ a.from \in Nat /\ a.to \in Int /\ a.from < a.to
         /\ a.answer = "lines" /\ a.kind # "range" /\ a.filter = {} =>
              /\ InitialFrom(a.total) \in Nat /\ InitialFrom(a.total) <= a.total
              /\ a.lines = FileLines(a.svc, InitialFrom(a.total), a.total)
<1>1. CASE a.answer # "lines"
  <2>1. a.lines = <<>>
    BY <1>1 DEF AskOk, HasFields
  <2> QED BY <1>1, <2>1
<1>2. CASE a.answer = "lines" /\ a.kind = "range"
  <2>1. /\ a.from \in Nat /\ a.to \in Int /\ a.from < a.to
        /\ a.lines = FileLines(a.svc, a.from, a.to)
    BY <1>2 DEF AskOk, HasFields
  <2>2. a.from <= a.to /\ a.lines \in Seq(LinesOf(a.svc))
    <3>1. a.from <= a.to BY <2>1
    <3> QED BY <2>1, <3>1, FileLinesAre
  <2> QED BY <1>2, <2>1, <2>2
<1>3. CASE a.answer = "lines" /\ a.kind # "range"
  <2> DEFINE from == IF a.filter = {} THEN InitialFrom(a.total) ELSE 0
  <2>1. a.total \in Nat /\ a.lines = FileLines(a.svc, from, a.total)
    BY <1>3 DEF AskOk, HasFields
  <2>2. InitialFrom(a.total) \in Nat /\ InitialFrom(a.total) <= a.total
    BY <2>1, LogsAssumption DEF InitialFrom
  <2>3. from \in Nat /\ from <= a.total /\ a.total \in Int
    BY <2>1, <2>2
  <2> HIDE DEF from
  <2>4. a.lines \in Seq(LinesOf(a.svc))
    BY <2>1, <2>3, FileLinesAre
  <2> USE DEF from
  <2> QED BY <1>3, <2>1, <2>2, <2>4
<1> QED BY <1>1, <1>2, <1>3

LEMMA AtMostOne ==
  ASSUME NEW g, NEW S, S \subseteq {g}
  PROVE  Cardinality(S) <= 1
<1>1. S = {} \/ S = {g}
  OBVIOUS
<1> QED BY <1>1, FS_EmptySet, FS_Singleton

LEMMA LastOf ==
  ASSUME NEW S, NEW s \in Seq(S), s # <<>>
  PROVE  Len(s) \in 1 .. Len(s) /\ s[Len(s)] \in S
<1>1. Len(s) \in Nat /\ Len(s) # 0
  OBVIOUS
<1> QED BY <1>1

LEMMA LinesJoined ==
  ASSUME NEW S, NEW s \in Seq(S), NEW t \in Seq(S)
  PROVE  /\ s \o t \in Seq(S) /\ Len(s \o t) = Len(s) + Len(t)
         /\ \A i \in 1 .. Len(s) + Len(t) : (s \o t)[i] = IF i <= Len(s) THEN s[i] ELSE t[i - Len(s)]
  OBVIOUS

LEMMA LoadLogsKeeps ==
  ASSUME LogsInv, NEW svc \in Services, NEW filter, LoadLogs(svc, filter)
  PROVE  LogsInv'
<1>0. PICK a : a = Ask("initial", svc, filter, IF filter = {} THEN -InitialLines ELSE 0, -1)
  OBVIOUS
<1>1. /\ logPage'.svc = svc /\ logPage'.filter = filter /\ logPage'.loading = TRUE
      /\ DOMAIN logPage' = {"svc", "filter", "loading", "streaming"}
  BY DEF LoadLogs, LogsInv
<1>2. /\ logs' = <<>> /\ rows' = <<>> /\ lastFetched' = -1 /\ logStream' = NoStream /\ logged' = logged
      /\ logAsks' = logAsks \cup {a} /\ plain' = (logAsks = {})
  BY <1>0 DEF LoadLogs, AskInitial
<1>3. /\ a.kind = "initial" /\ a.svc = svc /\ a.filter = filter /\ a.to = -1
      /\ a.answer = Pending /\ a.lines = <<>>
      /\ a.from = (IF filter = {} THEN -InitialLines ELSE 0) /\ HasFields(a)
  BY <1>0 DEF Ask, HasFields
<1>4. AskOk(a)'
  BY <1>3, LogsAssumption DEF AskOk, HasFields, Pending
<1>5. \A b \in logAsks' : AskOk(b)'
  <2>1. \A b \in logAsks : AskOk(b)'
    BY <1>2 DEF LogsInv, AskOk, HasFields
  <2> QED BY <1>2, <1>4, <2>1
<1>6. plain' => OneAsk'
  BY <1>1, <1>2, <1>3 DEF OneAsk
<1>7. DOMAIN NoStream = {"svc", "filter", "at"} /\ NoStream.at = 0
  BY DEF NoStream
<1>8. lastFetched' \in Int
  <2>1. lastFetched' = -1 BY <1>2
  <2> QED BY <2>1
<1>13. logPage'.loading \in BOOLEAN
  BY <1>1
<1>12. plain' \in BOOLEAN
  BY <1>2
<1>9. ~(plain' /\ ~logPage'.loading)
  BY <1>1
<1>10. /\ logStream'.at \in Nat /\ DOMAIN logStream' = {"svc", "filter", "at"}
       /\ logStream' = NoStream /\ NoStream' = NoStream
  BY <1>2, <1>7 DEF NoStream
<1>11. logged' \in [Services -> Nat]
  BY <1>2 DEF LogsInv
<1> QED BY <1>1, <1>5, <1>6, <1>8, <1>9, <1>10, <1>11, <1>12, <1>13 DEF LogsInv

\* The list and what it follows are as they were.
RowsStay == UNCHANGED <<logged, rows, lastFetched, logs, logStream>> /\ logPage'.svc = logPage.svc
            /\ logPage'.filter = logPage.filter

LEMMA RowsStayKeep ==
  ASSUME RowsStay
  PROVE  (RowsAreWanted => RowsAreWanted') /\ (RowsAreInOrder => RowsAreInOrder')
<1>1. \A g \in Nat : GapAt(g) => GapAt(g)'
  BY DEF RowsStay, GapAt
<1> QED BY <1>1 DEF RowsStay, RowsAreWanted, RowsAreInOrder

LEMMA QuietKeeps ==
  ASSUME LogsInv, UNCHANGED <<logged, rows, lastFetched, logs, logStream, logAsks, plain>>,
         logPage'.svc = logPage.svc, logPage'.filter = logPage.filter, logPage'.loading = logPage.loading,
         DOMAIN logPage' = DOMAIN logPage
  PROVE  LogsInv'
<1>1. \A b \in logAsks : AskOk(b)'
  BY DEF LogsInv, AskOk, HasFields
<1>2. OneAsk => OneAsk'
  BY DEF OneAsk
<1>3. (RowsAreWanted => RowsAreWanted') /\ (RowsAreInOrder => RowsAreInOrder')
  BY RowsStayKeep DEF RowsStay
<1> QED BY <1>1, <1>2, <1>3 DEF LogsInv

LEMMA HandleScrollKeeps == ASSUME LogsInv, HandleScroll PROVE LogsInv'
<1> DEFINE from == IF lastFetched > PageLines THEN lastFetched - PageLines ELSE 0
<1>0. PICK a : a = Ask("range", logPage.svc, logPage.filter, from, lastFetched)
  OBVIOUS
<1>1. /\ UNCHANGED <<logged, logPage, logs, rows, lastFetched, logStream>>
      /\ ~logPage.loading /\ lastFetched > 0 /\ lastFetched \in Int
      /\ logAsks' = logAsks \cup {a} /\ plain' = (plain /\ logAsks = {})
  BY <1>0 DEF HandleScroll, LogsInv
<1>2. from \in Int /\ 0 <= from /\ from < lastFetched
  BY <1>1, LogsAssumption
<1>3. /\ a.kind = "range" /\ a.svc = logPage.svc /\ a.filter = logPage.filter /\ a.to = lastFetched
      /\ a.answer = Pending /\ a.lines = <<>> /\ a.from = from /\ HasFields(a)
  BY <1>0 DEF Ask, HasFields
<1> HIDE DEF from
<1>4. AskOk(a)'
  BY <1>1, <1>2, <1>3 DEF AskOk, HasFields, Pending, LogsInv
<1>5. \A b \in logAsks' : AskOk(b)'
  <2>1. \A b \in logAsks : AskOk(b)'
    BY <1>1 DEF LogsInv, AskOk, HasFields
  <2> QED BY <1>1, <1>4, <2>1
<1>6. plain' => OneAsk'
  BY <1>1, <1>3 DEF OneAsk, LogsInv
<1>7. (RowsAreWanted => RowsAreWanted') /\ (RowsAreInOrder => RowsAreInOrder')
  BY <1>1, RowsStayKeep DEF RowsStay
<1> QED BY <1>1, <1>5, <1>6, <1>7 DEF LogsInv

LEMMA HandleCopyKeeps == ASSUME LogsInv, HandleCopyLogs PROVE LogsInv'
<1>0. PICK a : a = Ask("copy", logPage.svc, logPage.filter,
                        IF logPage.filter = {} THEN -InitialLines ELSE 0, -1)
  OBVIOUS
<1>1. /\ logPage'.svc = logPage.svc /\ logPage'.filter = logPage.filter /\ logPage'.loading = TRUE
      /\ DOMAIN logPage' = {"svc", "filter", "loading", "streaming"}
      /\ UNCHANGED <<logged, logs, lastFetched, logStream>>
      /\ rows' = <<>> /\ logAsks' = logAsks \cup {a} /\ plain' = (logAsks = {} /\ logStream = NoStream)
  BY <1>0 DEF HandleCopyLogs, LogsInv, AskInitial
<1>3. /\ a.kind = "copy" /\ a.svc = logPage.svc /\ a.filter = logPage.filter /\ a.to = -1
      /\ a.answer = Pending /\ a.lines = <<>>
      /\ a.from = (IF logPage.filter = {} THEN -InitialLines ELSE 0) /\ HasFields(a)
  BY <1>0 DEF Ask, HasFields
<1>4. AskOk(a)'
  BY <1>3, LogsAssumption DEF AskOk, HasFields, Pending, LogsInv
<1>5. \A b \in logAsks' : AskOk(b)'
  <2>1. \A b \in logAsks : AskOk(b)'
    BY <1>1 DEF LogsInv, AskOk, HasFields
  <2> QED BY <1>1, <1>4, <2>1
<1>6. plain' => OneAsk'
  BY <1>1, <1>3 DEF OneAsk
<1> QED BY <1>1, <1>5, <1>6 DEF LogsInv

LEMMA LineLoggedKeeps == ASSUME LogsInv, LineLogged PROVE LogsInv'
<1>1. PICK s \in Services : logged' = [logged EXCEPT ![s] = @ + 1]
  BY DEF LineLogged
<1>2. UNCHANGED <<logPage, logs, rows, lastFetched, logAsks, logStream, plain>>
  BY DEF LineLogged
<1>3. /\ logged' \in [Services -> Nat]
      /\ \A v \in Services : logged'[v] \in Nat /\ logged[v] \in Nat /\ logged[v] <= logged'[v]
  BY <1>1 DEF LogsInv
<1>4. ASSUME NEW a \in logAsks PROVE AskOk(a)'
  <2>1. AskOk(a) /\ a.svc \in Services
    BY DEF LogsInv, AskOk, HasFields
  <2>2. a.answer = "lines" => a.total \in Nat /\ a.total <= logged[a.svc]
    BY <2>1 DEF AskOk, HasFields
  <2>3. a.answer = "lines" => a.total <= logged'[a.svc]
    BY <1>3, <2>1, <2>2
  <2> QED BY <2>1, <2>3 DEF AskOk, HasFields
<1>5. OneAsk => OneAsk'
  BY <1>2 DEF OneAsk
<1>6. RowsAreWanted => RowsAreWanted'
  BY <1>2 DEF RowsAreWanted
<1>7. RowsAreWanted /\ RowsAreInOrder => RowsAreInOrder'
  <2> SUFFICES ASSUME RowsAreWanted, RowsAreInOrder PROVE RowsAreInOrder'
    OBVIOUS
  <2>1. PICK g \in Nat : GapAt(g)
    BY DEF RowsAreInOrder
  <2>2. rows # <<>> => rows[Len(rows)].n \in Nat
    <3>1. rows # <<>> => rows[Len(rows)] \in LinesOf(logPage.svc)
      BY LastOf DEF RowsAreWanted
    <3> QED BY <3>1 DEF LinesOf
  <2>3. logPage.svc \in Services
    BY DEF LogsInv
  <2>4. rows # <<>> => rows[Len(rows)].n <= logged'[logPage.svc]
    <3>1. rows # <<>> => rows[Len(rows)].n <= logged[logPage.svc]
      BY <2>1 DEF GapAt
    <3> QED BY <1>3, <2>2, <2>3, <3>1
  <2>5. GapAt(g)'
    BY <1>2, <2>1, <2>4 DEF GapAt
  <2> QED BY <1>2, <2>5 DEF RowsAreInOrder
<1> QED BY <1>2, <1>3, <1>4, <1>5, <1>6, <1>7 DEF LogsInv

LEMMA ServeLogKeeps == ASSUME LogsInv, ServeLog PROVE LogsInv'
<1>0. UNCHANGED <<logged, logPage, logs, rows, lastFetched, logStream, plain>>
  BY DEF ServeLog
<1> DEFINE from(a) == IF a.from >= 0 THEN a.from
                      ELSE IF logged[a.svc] + a.from > 0 THEN logged[a.svc] + a.from ELSE 0
           to(a) == IF a.to >= 0 THEN a.to ELSE logged[a.svc]
<1> DEFINE ServedAs(a, s) ==
        /\ a.answer = Pending /\ logAsks' = (logAsks \ {a}) \cup {s}
        /\ \/ s = [a EXCEPT !.answer = "lines", !.total = logged[a.svc],
                             !.lines = FileLines(a.svc, from(a), to(a))]
           \/ s = [a EXCEPT !.answer = "failed"]
<1>11. PICK a \in logAsks : \E s : ServedAs(a, s)
  BY DEF ServeLog
<1>1. PICK s : ServedAs(a, s)
  BY <1>11
<1>2. AskOk(a) /\ logged[a.svc] \in Nat
  BY DEF LogsInv, AskOk, HasFields
<1>3. /\ s.kind = a.kind /\ s.svc = a.svc /\ s.filter = a.filter /\ s.from = a.from /\ s.to = a.to
      /\ DOMAIN s = DOMAIN a
      /\ \/ s.answer = "lines" /\ s.total = logged[a.svc] /\ s.lines = FileLines(a.svc, from(a), to(a))
         \/ s.answer = "failed" /\ s.lines = a.lines
  BY <1>1, <1>2 DEF AskOk, HasFields
<1>4. a.lines = <<>>
  BY <1>1, <1>2 DEF AskOk, HasFields, Pending
<1>5. ASSUME s.answer = "failed" PROVE AskOk(s)
  BY <1>2, <1>3, <1>4, <1>5 DEF AskOk, HasFields
<1>6. ASSUME s.answer = "lines" PROVE AskOk(s)
  <2>1. s.total = logged[a.svc] /\ s.lines = FileLines(a.svc, from(a), to(a))
    BY <1>3, <1>6
  <2>2. CASE a.kind = "range"
    <3>1. from(a) = a.from /\ to(a) = a.to
      BY <1>2, <2>2 DEF AskOk, HasFields
    <3> QED BY <1>2, <1>3, <1>6, <2>1, <2>2, <3>1 DEF AskOk, HasFields
  <2>3. CASE a.kind # "range"
    <3>1. a.to = -1 /\ a.from = (IF a.filter = {} THEN -InitialLines ELSE 0)
      BY <1>2, <2>3 DEF AskOk, HasFields
    <3>2. to(a) = logged[a.svc] /\ from(a) = (IF a.filter = {} THEN InitialFrom(logged[a.svc]) ELSE 0)
      BY <1>2, <3>1, LogsAssumption DEF InitialFrom
    <3> HIDE DEF from, to
    <3> QED BY <1>2, <1>3, <1>6, <2>1, <2>3, <3>1, <3>2 DEF AskOk, HasFields
  <2> QED BY <2>2, <2>3
<1> HIDE DEF from, to
<1>7. AskOk(s)
  BY <1>3, <1>5, <1>6
<1>8. \A b \in logAsks' : AskOk(b)'
  <2>1. \A b : AskOk(b) => AskOk(b)'
    BY <1>0 DEF AskOk, HasFields
  <2>2. \A b \in logAsks : AskOk(b)
    BY DEF LogsInv
  <2> QED BY <1>1, <1>7, <2>1, <2>2
<1>9. OneAsk => OneAsk'
  BY <1>0, <1>1, <1>3 DEF OneAsk
<1>10. (RowsAreWanted => RowsAreWanted') /\ (RowsAreInOrder => RowsAreInOrder')
  BY <1>0, RowsStayKeep DEF RowsStay
<1> QED BY <1>0, <1>8, <1>9, <1>10 DEF LogsInv

LEMMA StreamOpensKeeps == ASSUME LogsInv, StreamOpens PROVE LogsInv'
<1>1. /\ logStream # NoStream /\ logStream.at = 0
      /\ logStream' = [logStream EXCEPT !.at = logged[logStream.svc] + 1]
      /\ UNCHANGED <<logged, logPage, logs, rows, lastFetched, logAsks, plain>>
  BY DEF StreamOpens
<1>2. /\ logStream'.svc = logStream.svc /\ logStream'.filter = logStream.filter
      /\ logStream'.at = logged[logStream.svc] + 1 /\ logStream.svc \in Services
      /\ DOMAIN logStream' = {"svc", "filter", "at"}
  BY <1>1 DEF LogsInv
<1>3. logged[logStream.svc] \in Nat /\ logStream'.at \in Nat
  BY <1>2 DEF LogsInv
<1>4. \A a \in logAsks' : AskOk(a)'
  BY <1>1 DEF LogsInv, AskOk, HasFields
<1>5. OneAsk => OneAsk'
  BY <1>1, <1>2 DEF OneAsk
<1>6. RowsAreWanted => RowsAreWanted'
  BY <1>1 DEF RowsAreWanted
<1>7. OneAsk /\ RowsAreWanted /\ RowsAreInOrder => RowsAreInOrder'
  <2> SUFFICES ASSUME OneAsk, RowsAreWanted, RowsAreInOrder PROVE RowsAreInOrder'
    OBVIOUS
  <2>1. PICK g \in Nat : GapAt(g)
    BY DEF RowsAreInOrder
  <2>2. rows # <<>> => rows[Len(rows)].n \in Nat
    <3>1. rows # <<>> => rows[Len(rows)] \in LinesOf(logPage.svc)
      BY LastOf DEF RowsAreWanted
    <3> QED BY <3>1 DEF LinesOf
  <2>3. logStream.svc = logPage.svc
    BY <1>1 DEF OneAsk
  <2>4. g = 0
    <3>1. rows # <<>> => rows[Len(rows)].n + 1 # 0
      BY <2>2
    <3> QED BY <1>1, <2>1, <3>1 DEF GapAt
  <2>5. rows # <<>> => rows[Len(rows)].n < logStream'.at
    BY <1>2, <1>3, <2>1, <2>2, <2>3 DEF GapAt
  <2>6. GapAt(g)'
    BY <1>1, <2>1, <2>4, <2>5 DEF GapAt
  <2> QED BY <1>1, <2>6 DEF RowsAreInOrder
<1> QED BY <1>1, <1>2, <1>3, <1>4, <1>5, <1>6, <1>7 DEF LogsInv

\* A stream that ends leaves the list as it is.
LEMMA StreamFailsKeeps == ASSUME LogsInv, StreamFails PROVE LogsInv'
<1>1. /\ logStream' = NoStream
      /\ UNCHANGED <<logged, logPage, logs, rows, lastFetched, logAsks, plain>>
  BY DEF StreamFails
<1>2. DOMAIN NoStream = {"svc", "filter", "at"} /\ NoStream.at = 0 /\ NoStream' = NoStream
  BY DEF NoStream
<1>3. /\ logStream'.at = 0 /\ DOMAIN logStream' = {"svc", "filter", "at"}
      /\ ~(logStream'.at > 0) /\ ~(logStream' # NoStream')
  BY <1>1, <1>2
<1>4. \A a \in logAsks' : AskOk(a)'
  BY <1>1 DEF LogsInv, AskOk, HasFields
<1>5. OneAsk => OneAsk'
  BY <1>1, <1>3 DEF OneAsk
<1>6. RowsAreWanted => RowsAreWanted'
  BY <1>1 DEF RowsAreWanted
<1>7. ASSUME NEW g \in Nat, GapAt(g) PROVE GapAt(g)'
  BY <1>1, <1>3, <1>7 DEF GapAt
<1>8. RowsAreInOrder => RowsAreInOrder'
  BY <1>1, <1>7 DEF RowsAreInOrder
<1>9. logStream'.at \in Nat BY <1>3
<1> QED BY <1>1, <1>3, <1>4, <1>5, <1>6, <1>8, <1>9 DEF LogsInv

\* A line that is streamed goes after the last; lines may be missing only before the first
\* that is streamed.
LEMMA StreamChunkKeeps == ASSUME LogsInv, StreamChunk PROVE LogsInv'
<1> DEFINE at == logStream.at
           more == Wanted(logStream.filter, FileLines(logStream.svc, at - 1, at))
<1>1. /\ at > 0 /\ at \in Nat /\ at <= logged[logStream.svc]
      /\ rows' = IF logPage.loading THEN rows ELSE rows \o more
      /\ logStream' = [logStream EXCEPT !.at = @ + 1]
      /\ UNCHANGED <<logged, logPage, logs, lastFetched, logAsks, plain>>
  BY DEF StreamChunk, LogsInv
<1>2. /\ logStream'.svc = logStream.svc /\ logStream'.filter = logStream.filter /\ logStream'.at = at + 1
      /\ DOMAIN logStream' = {"svc", "filter", "at"} /\ logStream # NoStream /\ logStream.svc \in Services
      /\ logStream'.at \in Nat
  <2>1. logStream # NoStream
    <3>1. NoStream.at = 0 BY DEF NoStream
    <3> QED BY <1>1, <3>1
  <2>2. logStream.svc \in Services /\ DOMAIN logStream = {"svc", "filter", "at"}
    BY <2>1 DEF LogsInv
  <2> QED BY <1>1, <2>1, <2>2
<1>3. \A a \in logAsks' : AskOk(a)'
  BY <1>1 DEF LogsInv, AskOk, HasFields
<1>4. OneAsk => OneAsk'
  <2>1. ASSUME OneAsk PROVE ~logPage.loading
    BY <1>2, <2>1 DEF OneAsk
  <2> QED BY <1>1, <1>2, <2>1 DEF OneAsk
<1>5. /\ FileLines(logStream.svc, at - 1, at) \in Seq(LinesOf(logStream.svc))
      /\ Len(FileLines(logStream.svc, at - 1, at)) = 1
      /\ FileLines(logStream.svc, at - 1, at)[1] = [svc |-> logStream.svc, n |-> at]
  BY <1>1, OneLine
<1>6. /\ more \in Seq(LinesOf(logStream.svc))
      /\ logStream.filter # {} => \A i \in 1 .. Len(more) : SeverityOf(more[i]) \in logStream.filter
      /\ logStream.filter = {} => Len(more) = 1 /\ more[1] = [svc |-> logStream.svc, n |-> at]
  BY <1>5, WantedFits
<1> HIDE DEF more
<1> SUFFICES ASSUME plain, ~logPage.loading, OneAsk, RowsAreWanted
             PROVE  RowsAreWanted' /\ (logPage.filter = {} /\ RowsAreInOrder => RowsAreInOrder')
  BY <1>1, <1>2, <1>3, <1>4 DEF LogsInv
<1>7. logStream.svc = logPage.svc /\ logStream.filter = logPage.filter /\ rows' = rows \o more
  BY <1>1, <1>2 DEF OneAsk
<1>8. RowsAreWanted'
  <2>1. rows \in Seq(LinesOf(logPage.svc)) /\ more \in Seq(LinesOf(logPage.svc))
    BY <1>6, <1>7 DEF RowsAreWanted
  <2>2. rows' \in Seq(LinesOf(logPage.svc))
    BY <1>7, <2>1
  <2>3. ASSUME logPage.filter # {}, NEW i \in 1 .. Len(rows')
        PROVE  SeverityOf(rows'[i]) \in logPage.filter
    <3>1. CASE i <= Len(rows)
      BY <1>7, <2>1, <2>3, <3>1 DEF RowsAreWanted
    <3>2. CASE i > Len(rows)
      <4>1. i - Len(rows) \in 1 .. Len(more) /\ rows'[i] = more[i - Len(rows)]
        BY <1>7, <2>1, <3>2
      <4> QED BY <1>6, <1>7, <2>3, <4>1
    <3> QED BY <2>1, <3>1, <3>2
  <2> QED BY <1>1, <2>2, <2>3 DEF RowsAreWanted
<1>9. ASSUME logPage.filter = {}, RowsAreInOrder PROVE RowsAreInOrder'
  <2>1. PICK g \in Nat : GapAt(g)
    BY <1>9 DEF RowsAreInOrder
  <2>2. Len(more) = 1 /\ more[1] = [svc |-> logPage.svc, n |-> at] /\ more \in Seq(LinesOf(logPage.svc))
    BY <1>6, <1>7, <1>9
  <2>3. rows \in Seq(LinesOf(logPage.svc)) /\ Len(rows) \in Nat
    BY DEF RowsAreWanted
  <2>4. /\ Len(rows') = Len(rows) + 1 /\ rows' # <<>>
        /\ \A i \in 1 .. Len(rows) : rows'[i] = rows[i]
        /\ rows'[Len(rows) + 1] = [svc |-> logPage.svc, n |-> at]
    <3>1. rows' = rows \o more
      BY <1>7
    <3>2. /\ Len(rows \o more) = Len(rows) + Len(more)
          /\ \A i \in 1 .. Len(rows) + Len(more) :
               (rows \o more)[i] = IF i <= Len(rows) THEN rows[i] ELSE more[i - Len(rows)]
      BY <2>2, <2>3, LinesJoined
    <3>3. \A i \in 1 .. Len(rows) : (rows \o more)[i] = rows[i]
      <4> TAKE i \in 1 .. Len(rows)
      <4>1. i \in 1 .. Len(rows) + Len(more) /\ i <= Len(rows)
        BY <2>2, <2>3
      <4> QED BY <3>2, <4>1
    <3>4. (rows \o more)[Len(rows) + 1] = more[1]
      <4>1. /\ Len(rows) + 1 \in 1 .. Len(rows) + Len(more)
            /\ ~(Len(rows) + 1 <= Len(rows)) /\ Len(rows) + 1 - Len(rows) = 1
        BY <2>2, <2>3
      <4>2. (rows \o more)[Len(rows) + 1] = more[Len(rows) + 1 - Len(rows)]
        BY <3>2, <4>1
      <4> QED BY <4>1, <4>2
    <3>5. (rows \o more) # <<>>
      BY <2>2, <2>3, <3>2
    <3> QED BY <2>2, <3>1, <3>2, <3>3, <3>4, <3>5
  <2>5. rows'[Len(rows')].n = at
    BY <2>4
  <2>6. rows # <<>> => /\ rows[Len(rows)] \in LinesOf(logPage.svc)
                       /\ rows[Len(rows)].n \in Nat /\ rows[Len(rows)].n < at
    <3>1. rows # <<>> => rows[Len(rows)] \in LinesOf(logPage.svc)
      BY <2>3, LastOf
    <3>2. rows # <<>> => rows[Len(rows)].n \in Nat
      BY <3>1 DEF LinesOf
    <3>3. rows # <<>> => rows[Len(rows)].n < at
      BY <1>1, <2>1 DEF GapAt
    <3> QED BY <3>1, <3>2, <3>3
  <2>7. logs # <<>> => rows # <<>> /\ rows'[1] = rows[1]
    <3>1. logs # <<>> => rows # <<>>
      BY <1>9 DEF RowsAreInOrder
    <3>2. rows # <<>> => 1 \in 1 .. Len(rows)
      BY <2>3
    <3> QED BY <2>4, <3>1, <3>2
  <2>8. \E h \in Nat : GapAt(h)'
    <3>0. PICK h \in Nat : h = IF g > 0 THEN g ELSE Len(rows)
      BY <2>3
    <3>1. ASSUME NEW i \in 1 .. Len(rows') - 1
          PROVE  rows'[i].n < rows'[i + 1].n /\ (i # h => rows'[i + 1].n = rows'[i].n + 1)
      <4>1. i \in 1 .. Len(rows)
        BY <2>3, <2>4
      <4>2. CASE i < Len(rows)
        <5>1. i \in 1 .. Len(rows) - 1 /\ i + 1 \in 1 .. Len(rows)
          BY <2>3, <4>1, <4>2
        <5>2. rows'[i] = rows[i] /\ rows'[i + 1] = rows[i + 1]
          BY <2>4, <4>1, <5>1
        <5>3. i # h => i # g
          BY <3>0, <4>2, <5>1
        <5> QED BY <2>1, <5>1, <5>2, <5>3 DEF GapAt
      <4>3. CASE i = Len(rows)
        <5>1. rows # <<>> /\ rows'[i] = rows[Len(rows)] /\ rows'[i + 1].n = at
          BY <2>3, <2>4, <4>1, <4>3
        <5>2. rows[Len(rows)].n < at
          BY <2>6, <5>1
        <5>3. g > 0 => rows[Len(rows)].n + 1 = at
          BY <1>2, <2>1 DEF GapAt
        <5> QED BY <3>0, <4>3, <5>1, <5>2, <5>3
      <4> QED BY <2>3, <4>1, <4>2, <4>3
    <3>3. rows'[Len(rows')].n <= logged'[logPage'.svc] /\ rows'[Len(rows')].n < logStream'.at
      <4>1. at <= logged'[logPage'.svc]
        BY <1>1, <1>7
      <4>2. at < logStream'.at
        BY <1>1, <1>2
      <4> QED BY <2>5, <4>1, <4>2
    <3>4. rows'[Len(rows')].n + 1 = logStream'.at
      BY <1>2, <2>5
    <3>5. GapAt(h)'
      BY <2>4, <3>1, <3>3, <3>4 DEF GapAt
    <3> QED BY <3>5
  <2> QED BY <1>1, <1>9, <2>4, <2>7, <2>8 DEF RowsAreInOrder
<1> QED BY <1>8, <1>9

\* The answer to the last full request, with one request on its way: the list is what was
\* answered, and the next older page ends where it begins.
LEMMA InitialAnsweredKeeps ==
  ASSUME LogsInv, NEW a \in logAsks, a.answer # Pending, InitialAnswered(a),
         logAsks' = logAsks \ {a}, logged' = logged
  PROVE  LogsInv'
<1> DEFINE new == IF a.answer = "lines" THEN Wanted(a.filter, a.lines) ELSE logs
<1>1. /\ a.kind \in {"initial", "copy"} /\ logs' = new
      /\ rows' = IF logPage.loading \/ new # logs THEN new ELSE rows
      /\ lastFetched' = IF a.answer = "lines" THEN a.total - Len(new) ELSE lastFetched
      /\ logPage' = [logPage EXCEPT !.loading = FALSE]
      /\ logStream' = IF a.kind = "initial" /\ a.streams
                      THEN [svc |-> a.svc, filter |-> a.filter, at |-> 0] ELSE logStream
      /\ plain' = (plain /\ ~(a.kind = "copy" /\ a.answer = "failed"))
  BY DEF InitialAnswered
<1>2. /\ AskOk(a) /\ a.svc \in Services /\ a.lines \in Seq(LinesOf(a.svc))
      /\ a.answer = "lines" => a.total \in Nat /\ a.total <= logged[a.svc]
  <2>1. AskOk(a) /\ logged \in [Services -> Nat]
    BY DEF LogsInv
  <2> QED BY <2>1, AnswerIs DEF AskOk, HasFields
<1>3. /\ logPage'.svc = logPage.svc /\ logPage'.filter = logPage.filter /\ logPage'.loading = FALSE
      /\ DOMAIN logPage' = {"svc", "filter", "loading", "streaming"}
  BY <1>1 DEF LogsInv
<1>4. lastFetched' \in Int
  <2>1. a.answer = "lines" => new \in Seq(LinesOf(a.svc)) /\ Len(new) \in Nat
    BY <1>2, WantedFits
  <2> HIDE DEF new
  <2> QED BY <1>1, <1>2, <2>1 DEF LogsInv
<1>5. /\ logStream'.at \in Nat /\ DOMAIN logStream' = {"svc", "filter", "at"}
      /\ logStream' # NoStream => logStream'.svc \in Services
  <2>1. CASE a.kind = "initial" /\ a.streams
    BY <1>1, <1>2, <2>1
  <2>2. CASE ~(a.kind = "initial" /\ a.streams)
    BY <1>1, <2>2 DEF LogsInv
  <2> QED BY <2>1, <2>2
<1>6. \A b \in logAsks' : AskOk(b)'
  <2>1. \A b \in logAsks : AskOk(b)
    BY DEF LogsInv
  <2>2. \A b : AskOk(b) => AskOk(b)'
    BY DEF AskOk, HasFields
  <2> QED BY <2>1, <2>2
<1>7. plain' \in BOOLEAN /\ (plain' => plain)
  BY <1>1 DEF LogsInv
<1>8. NoStream' = NoStream
  BY DEF NoStream
<1> SUFFICES ASSUME plain' PROVE OneAsk' /\ RowsAreWanted' /\ (logPage.filter = {} => RowsAreInOrder')
  BY <1>1, <1>3, <1>4, <1>5, <1>6, <1>7 DEF LogsInv
<1>9. plain /\ OneAsk
  BY <1>7 DEF LogsInv
<1>10. /\ logAsks' = {} /\ a.svc = logPage.svc /\ a.filter = logPage.filter /\ logPage.loading
       /\ logStream = NoStream /\ rows' = new
       /\ a.kind = "initial" => logs = <<>> /\ lastFetched = -1
  BY <1>1, <1>9 DEF OneAsk
<1>11. OneAsk'
  <2>1. CASE a.kind = "initial" /\ a.streams
    BY <1>1, <1>3, <1>10, <2>1 DEF OneAsk
  <2>2. CASE ~(a.kind = "initial" /\ a.streams)
    BY <1>1, <1>3, <1>8, <1>10, <2>2 DEF OneAsk
  <2> QED BY <2>1, <2>2
<1>12. CASE a.answer = "lines"
  <2>1. /\ new \in Seq(LinesOf(logPage.svc)) /\ (a.filter = {} => new = a.lines)
        /\ a.filter # {} => \A i \in 1 .. Len(new) : SeverityOf(new[i]) \in a.filter
    BY <1>2, <1>10, <1>12, WantedFits
  <2> HIDE DEF new
  <2>2. RowsAreWanted'
    BY <1>3, <1>10, <2>1 DEF RowsAreWanted
  <2>3. ASSUME logPage.filter = {} PROVE RowsAreInOrder'
    <3> DEFINE from == InitialFrom(a.total)
    <3>1. from \in Nat /\ from <= a.total /\ a.lines = FileLines(a.svc, from, a.total) /\ a.total \in Nat
      <4>1. AskOk(a) /\ logged \in [Services -> Nat] /\ a.kind # "range" /\ a.filter = {}
        BY <1>1, <1>2, <1>10, <2>3 DEF LogsInv
      <4> QED BY <1>2, <1>12, <4>1, AnswerIs
    <3>2. from > 0 => from < a.total
      BY <3>1, LogsAssumption DEF InitialFrom
    <3>3. a.total > 0 => from < a.total
      BY <3>1, <3>2
    <3> HIDE DEF from
    <3>4. Len(new) = a.total - from /\ \A i \in 1 .. a.total - from : new[i] = [svc |-> a.svc, n |-> from + i]
      <4>1. new = FileLines(a.svc, from, a.total)
        BY <1>10, <2>1, <2>3, <3>1
      <4>2. /\ Len(FileLines(a.svc, from, a.total)) = a.total - from
            /\ \A i \in 1 .. a.total - from :
                 FileLines(a.svc, from, a.total)[i] = [svc |-> a.svc, n |-> from + i]
        <5>1. a.total \in Int BY <3>1
        <5> QED BY <3>1, <5>1, FileLinesAre
      <4> QED BY <4>1, <4>2
    <3>5. lastFetched' = from
      BY <1>1, <1>12, <3>1, <3>4
    <3>6. \A i \in 1 .. a.total - from : new[i].n = from + i
      <4> TAKE i \in 1 .. a.total - from
      <4>1. new[i] = [svc |-> a.svc, n |-> from + i] BY <3>4
      <4> QED BY <4>1
    <3>7. \A i \in 1 .. Len(new) - 1 : new[i].n < new[i + 1].n /\ new[i + 1].n = new[i].n + 1
      <4> TAKE i \in 1 .. Len(new) - 1
      <4>1. i \in 1 .. a.total - from /\ i + 1 \in 1 .. a.total - from
        BY <3>1, <3>4
      <4>2. new[i].n = from + i /\ new[i + 1].n = from + (i + 1)
        BY <3>6, <4>1
      <4> QED BY <3>1, <4>1, <4>2
    <3>8. new # <<>> => Len(new) \in 1 .. a.total - from /\ 1 \in 1 .. a.total - from
      BY <2>1, <3>1, <3>4
    <3>9. new # <<>> => new[Len(new)].n = a.total /\ new[1].n = from + 1
      <4>1. new # <<>> => new[Len(new)].n = from + Len(new) /\ new[1].n = from + 1
        BY <3>6, <3>8
      <4> QED BY <3>1, <3>4, <4>1
    <3>10. new # <<>> => new[Len(new)].n <= logged[logPage.svc]
      BY <1>2, <1>10, <1>12, <3>9
    <3>11. logStream'.at = 0
      <4>1. NoStream.at = 0 BY DEF NoStream
      <4> QED BY <1>1, <1>10, <4>1
    <3>12. GapAt(0)'
      BY <1>3, <1>10, <3>7, <3>10, <3>11 DEF GapAt
    <3>13. lastFetched' > 0 => logs' # <<>>
      BY <1>1, <1>10, <3>1, <3>2, <3>4, <3>5
    <3>14. \E g \in Nat : GapAt(g)'
      BY <3>12
    <3>15. logs' # <<>> => rows' # <<>> /\ rows'[1].n = lastFetched' + 1
      BY <1>1, <1>10, <3>5, <3>9 DEF new
    <3> QED BY <3>13, <3>14, <3>15 DEF RowsAreInOrder
  <2> QED BY <1>11, <2>2, <2>3
<1>13. CASE a.answer # "lines"
  <2>1. a.answer = "failed"
    BY <1>2, <1>13 DEF AskOk, HasFields, Pending
  <2>2. a.kind = "initial"
    BY <1>1, <2>1
  <2>3. rows' = <<>> /\ logs' = <<>> /\ lastFetched' = -1 /\ (logPage.filter = {} => TRUE)
    BY <1>1, <1>10, <1>13, <2>2
  <2>4. RowsAreWanted'
    BY <2>3 DEF RowsAreWanted
  <2>5. GapAt(0)'
    BY <2>3 DEF GapAt
  <2>6. RowsAreInOrder'
    <3>1. ~(lastFetched' > 0) BY <2>3
    <3> QED BY <2>3, <2>5, <3>1 DEF RowsAreInOrder
  <2> QED BY <1>11, <2>4, <2>6
<1> QED BY <1>12, <1>13

\* Older lines go before the list: without a filter the last of them comes right before its first.
LEMMA RangeAnsweredKeeps ==
  ASSUME LogsInv, NEW a \in logAsks, a.answer # Pending, RangeAnswered(a),
         logAsks' = logAsks \ {a}, logged' = logged
  PROVE  LogsInv'
<1> DEFINE older == Wanted(a.filter, a.lines)
<1>1. /\ a.kind = "range" /\ rows' = IF logPage.loading THEN rows ELSE older \o rows
      /\ lastFetched' = IF older = <<>> THEN lastFetched ELSE a.from
      /\ UNCHANGED <<logs, logPage, logStream, plain>>
  BY DEF RangeAnswered
<1>2. /\ AskOk(a) /\ a.lines \in Seq(LinesOf(a.svc)) /\ a.from \in Int
      /\ a.answer = "lines" => /\ a.lines = FileLines(a.svc, a.from, a.to)
                               /\ a.from \in Nat /\ a.to \in Int /\ a.from < a.to
      /\ a.answer # "lines" => a.lines = <<>>
  <2>1. AskOk(a) /\ logged \in [Services -> Nat]
    BY DEF LogsInv
  <2>2. a.from \in Int /\ (a.answer # "lines" => a.lines = <<>>)
    BY <2>1 DEF AskOk, HasFields
  <2> QED BY <1>1, <2>1, <2>2, AnswerIs
<1>3. lastFetched' \in Int
  BY <1>1, <1>2 DEF LogsInv
<1>4. \A b \in logAsks' : AskOk(b)'
  <2>1. \A b \in logAsks : AskOk(b)
    BY DEF LogsInv
  <2>2. \A b : AskOk(b) => AskOk(b)'
    BY DEF AskOk, HasFields
  <2> QED BY <2>1, <2>2
<1> SUFFICES ASSUME plain
             PROVE  /\ OneAsk'
                    /\ ~logPage.loading => RowsAreWanted' /\ (logPage.filter = {} => RowsAreInOrder')
  BY <1>1, <1>3, <1>4 DEF LogsInv
<1>5. /\ OneAsk /\ logAsks' = {} /\ a.svc = logPage.svc /\ a.filter = logPage.filter /\ ~logPage.loading
      /\ a.to = lastFetched /\ rows' = older \o rows /\ RowsAreWanted
  BY <1>1 DEF OneAsk, LogsInv
<1>6. OneAsk'
  BY <1>1, <1>5 DEF OneAsk
<1>7. /\ older \in Seq(LinesOf(logPage.svc)) /\ (a.filter = {} => older = a.lines)
      /\ a.filter # {} => \A i \in 1 .. Len(older) : SeverityOf(older[i]) \in a.filter
  BY <1>2, <1>5, WantedFits
<1> HIDE DEF older
<1>8. rows \in Seq(LinesOf(logPage.svc)) /\ Len(rows) \in Nat /\ Len(older) \in Nat
  BY <1>5, <1>7 DEF RowsAreWanted
<1>9. /\ rows' \in Seq(LinesOf(logPage.svc)) /\ Len(rows') = Len(older) + Len(rows)
      /\ \A i \in 1 .. Len(older) + Len(rows) :
           rows'[i] = IF i <= Len(older) THEN older[i] ELSE rows[i - Len(older)]
  BY <1>5, <1>7, <1>8, LinesJoined
<1>10. RowsAreWanted'
  <2>1. ASSUME logPage.filter # {}, NEW i \in 1 .. Len(rows')
        PROVE  SeverityOf(rows'[i]) \in logPage.filter
    <3>1. CASE i <= Len(older)
      BY <1>5, <1>7, <1>8, <1>9, <2>1, <3>1
    <3>2. CASE i > Len(older)
      <4>1. i - Len(older) \in 1 .. Len(rows) /\ rows'[i] = rows[i - Len(older)]
        BY <1>8, <1>9, <3>2
      <4> QED BY <1>5, <2>1, <4>1 DEF RowsAreWanted
    <3> QED BY <1>8, <1>9, <3>1, <3>2
  <2> QED BY <1>1, <1>9, <2>1 DEF RowsAreWanted
<1>11. ASSUME logPage.filter = {} PROVE RowsAreInOrder'
  <2>1. PICK g \in Nat : GapAt(g)
    BY <1>5, <1>11 DEF LogsInv, RowsAreInOrder
  <2>2. /\ lastFetched > 0 => logs # <<>>
        /\ logs # <<>> => rows # <<>> /\ rows[1].n = lastFetched + 1
    BY <1>5, <1>11 DEF LogsInv, RowsAreInOrder
  <2>3. CASE older = <<>>
    <3>1. rows' = rows /\ lastFetched' = lastFetched
      BY <1>1, <1>5, <1>8, <2>3
    <3>2. GapAt(g)'
      BY <1>1, <2>1, <3>1 DEF GapAt
    <3> QED BY <1>1, <2>2, <3>1, <3>2 DEF RowsAreInOrder
  <2>4. CASE older # <<>>
    <3>1. older = a.lines /\ a.answer = "lines"
      BY <1>2, <1>5, <1>7, <1>11, <2>4
    <3> DEFINE k == Len(older)
    <3>2. /\ k = a.to - a.from /\ a.from \in Nat /\ a.to \in Int /\ a.from < a.to
          /\ \A i \in 1 .. a.to - a.from : older[i] = [svc |-> a.svc, n |-> a.from + i]
      <4>1. /\ a.from \in Nat /\ a.to \in Int /\ a.from < a.to /\ a.from <= a.to
            /\ older = FileLines(a.svc, a.from, a.to)
        BY <1>2, <3>1
      <4> QED BY <4>1, FileLinesAre
    <3>3. k \in Nat /\ k > 0 /\ lastFetched = a.to /\ lastFetched > 0 /\ a.from + k = lastFetched
      <4>1. /\ k \in Nat /\ k = a.to - a.from /\ a.from \in Nat /\ a.to \in Int
            /\ a.from < a.to /\ a.to = lastFetched
        BY <1>5, <1>8, <3>2
      <4> HIDE DEF k
      <4> QED BY <4>1
    <3>4. \A i \in 1 .. k : older[i].n = a.from + i
      <4> TAKE i \in 1 .. k
      <4>1. older[i] = [svc |-> a.svc, n |-> a.from + i] BY <3>2
      <4> QED BY <4>1
    <3>5. logs # <<>> /\ rows # <<>> /\ rows[1].n = lastFetched + 1 /\ lastFetched' = a.from
      BY <1>1, <2>2, <2>4, <3>3
    <3>6. Len(rows) > 0
      BY <1>8, <3>5
    <3> HIDE DEF k
    <3>7. /\ Len(rows') = k + Len(rows)
          /\ \A i \in 1 .. k : rows'[i].n = a.from + i
          /\ \A i \in 1 .. Len(rows) : rows'[k + i] = rows[i]
      <4>1. Len(rows') = k + Len(rows) /\ k = Len(older)
        BY <1>9 DEF k
      <4>2. ASSUME NEW i \in 1 .. k PROVE rows'[i].n = a.from + i
        <5>1. rows'[i] = older[i]
          BY <1>8, <1>9, <3>3, <4>1
        <5> QED BY <3>4, <5>1
      <4>3. ASSUME NEW i \in 1 .. Len(rows) PROVE rows'[k + i] = rows[i]
        <5>1. k + i \in 1 .. Len(older) + Len(rows) /\ ~(k + i <= Len(older)) /\ k + i - Len(older) = i
          BY <1>8, <3>3, <4>1
        <5>2. PICK m : m = k + i
          OBVIOUS
        <5>3. m \in 1 .. Len(older) + Len(rows) /\ ~(m <= Len(older)) /\ m - Len(older) = i
          BY <1>8, <3>3, <5>1, <5>2
        <5>4. rows'[m] = rows[m - Len(older)]
          BY <1>9, <5>3
        <5> QED BY <5>2, <5>3, <5>4
      <4> QED BY <4>1, <4>2, <4>3
    <3>8. rows' # <<>> /\ rows'[1].n = a.from + 1 /\ rows'[Len(rows')] = rows[Len(rows)]
      <4>1. 1 \in 1 .. k /\ Len(rows) \in 1 .. Len(rows) /\ Len(rows') > 0
        BY <1>8, <3>3, <3>6, <3>7
      <4> QED BY <1>9, <3>7, <4>1
    <3>9. PICK h \in Nat : h = IF g > 0 THEN k + g ELSE 0
      BY <3>3
    <3>10. ASSUME NEW i \in 1 .. Len(rows') - 1
           PROVE  rows'[i].n < rows'[i + 1].n /\ (i # h => rows'[i + 1].n = rows'[i].n + 1)
      <4>0. i \in Nat /\ i >= 1 /\ i <= k + Len(rows) - 1
        BY <1>8, <3>3, <3>7
      <4>1. CASE i < k
        <5>1. i \in 1 .. k /\ i + 1 \in 1 .. k
          BY <3>3, <4>0, <4>1
        <5>2. rows'[i].n = a.from + i /\ rows'[i + 1].n = a.from + (i + 1)
          BY <3>7, <5>1
        <5>3. PICK f \in Nat : f = a.from
          BY <3>2
        <5>4. rows'[i].n = f + i /\ rows'[i + 1].n = f + i + 1
          BY <4>0, <5>2, <5>3
        <5> QED BY <4>0, <5>4
      <4>2. CASE i = k
        <5>1. k \in 1 .. k /\ 1 \in 1 .. Len(rows)
          BY <1>8, <3>3, <3>6
        <5>2. rows'[i].n = a.from + k /\ rows'[i + 1] = rows[1]
          BY <3>7, <4>2, <5>1
        <5> QED BY <3>2, <3>3, <3>5, <5>2
      <4>3. CASE i > k
        <5>1. PICK j \in Nat : j = i - k
          BY <3>3, <4>0, <4>3
        <5>2. /\ j \in 1 .. Len(rows) - 1 /\ j \in 1 .. Len(rows) /\ j + 1 \in 1 .. Len(rows)
              /\ i = k + j /\ i + 1 = k + (j + 1)
          BY <1>8, <3>3, <4>0, <4>3, <5>1
        <5>3. rows'[i] = rows[j] /\ rows'[i + 1] = rows[j + 1]
          BY <3>7, <5>2
        <5>4. i # h => j # g
          BY <3>3, <3>9, <5>1, <5>2
        <5> QED BY <2>1, <5>2, <5>3, <5>4 DEF GapAt
      <4> QED BY <3>3, <4>0, <4>1, <4>2, <4>3
    <3>11. h > 0 => g > 0
      BY <3>9
    <3>12. GapAt(h)'
      BY <1>1, <2>1, <3>5, <3>8, <3>10, <3>11 DEF GapAt
    <3> QED BY <1>1, <3>5, <3>8, <3>12 DEF RowsAreInOrder
  <2> QED BY <2>3, <2>4
<1> QED BY <1>6, <1>10, <1>11

LEMMA LogsInitInv == LogsInit => LogsInv
<1> SUFFICES ASSUME LogsInit PROVE LogsInv
  OBVIOUS
<1>0. PICK a : a = Ask("initial", logPage.svc, {}, -InitialLines, -1)
  OBVIOUS
<1>1. /\ logged \in [Services -> Nat] /\ logged = [s \in Services |-> FirstLogged]
      /\ lastFetched = -1 /\ lastFetched \in Int /\ logs = <<>> /\ rows = <<>>
      /\ logStream = NoStream /\ logAsks = {a}
  BY <1>0, LogsAssumption DEF LogsInit, AskInitial
<1>2. /\ logPage.svc \in Services /\ logPage.filter = {} /\ logPage.loading = TRUE
      /\ DOMAIN logPage = {"svc", "filter", "loading", "streaming"}
  BY LogsAssumption DEF LogsInit
<1>3. /\ a.kind = "initial" /\ a.svc = logPage.svc /\ a.filter = {} /\ a.to = -1
      /\ a.answer = Pending /\ a.lines = <<>>
      /\ a.from = -InitialLines /\ HasFields(a)
  BY <1>0 DEF Ask, HasFields
<1>4. AskOk(a)
  BY <1>2, <1>3, LogsAssumption DEF AskOk, HasFields, Pending
<1>5. OneAsk
  BY <1>1, <1>2, <1>3 DEF OneAsk
<1>6. DOMAIN NoStream = {"svc", "filter", "at"} /\ NoStream.at = 0
  BY DEF NoStream
<1>7. plain \in BOOLEAN
  BY DEF LogsInit
<1>8. logPage.loading \in BOOLEAN
  BY <1>2
<1>9. logStream.at \in Nat /\ DOMAIN logStream = {"svc", "filter", "at"} /\ ~(logStream # NoStream)
  BY <1>1, <1>6
<1> QED BY <1>1, <1>2, <1>4, <1>5, <1>7, <1>8, <1>9 DEF LogsInv

\* Nothing that the page does, and nothing that answers it, breaks the list.
LEMMA LogsNextInv == ASSUME LogsInv, [LogsNext]_logVars PROVE LogsInv'
<1>1. CASE ChooseService
  <2>1. PICK s \in Services : LoadLogs(s, {})
    BY <1>1 DEF ChooseService
  <2> QED BY <2>1, LoadLogsKeeps
<1>2. CASE AddSeverity \/ RemoveSeverity \/ AllSeverities \/ ClickSeverity
  <2>1. PICK filter : LoadLogs(logPage.svc, filter)
    BY <1>2 DEF AddSeverity, RemoveSeverity, AllSeverities, ClickSeverity
  <2>2. logPage.svc \in Services
    BY DEF LogsInv
  <2>3. PICK svc \in Services : svc = logPage.svc
    BY <2>2
  <2> QED BY <2>1, <2>3, LoadLogsKeeps
<1>3. CASE ToggleStreaming
  <2>1. /\ UNCHANGED <<logged, rows, lastFetched, logs, logStream, logAsks, plain>>
        /\ logPage'.svc = logPage.svc /\ logPage'.filter = logPage.filter /\ logPage'.loading = logPage.loading
        /\ DOMAIN logPage' = DOMAIN logPage
    BY <1>3 DEF ToggleStreaming, LogsInv
  <2> QED BY <2>1, QuietKeeps
<1>4. CASE HandleRowClick \/ CloseLine \/ UNCHANGED logVars
  <2>1. UNCHANGED <<logged, logPage, rows, lastFetched, logs, logStream, logAsks, plain>>
    BY <1>4 DEF HandleRowClick, CloseLine, logVars
  <2> QED BY <2>1, QuietKeeps
<1>5. CASE Answered
  <2>1. PICK a \in logAsks : /\ a.answer # Pending /\ (InitialAnswered(a) \/ RangeAnswered(a))
                             /\ logAsks' = logAsks \ {a}
    BY <1>5 DEF Answered
  <2>2. logged' = logged
    BY <1>5 DEF Answered
  <2> QED BY <2>1, <2>2, InitialAnsweredKeeps, RangeAnsweredKeeps
<1> QED
  BY <1>1, <1>2, <1>3, <1>4, <1>5, HandleScrollKeeps, HandleCopyKeeps, LineLoggedKeeps, ServeLogKeeps,
     StreamOpensKeeps, StreamChunkKeeps, StreamFailsKeeps DEF LogsNext

LEMMA LogsInvWhole == LogsInv => LogIsWhole
<1> SUFFICES ASSUME LogsInv, plain, ~logPage.loading
             PROVE  /\ \A i \in 1 .. Len(rows) : rows[i].svc = logPage.svc
                    /\ IF logPage.filter # {}
                       THEN \A i \in 1 .. Len(rows) : SeverityOf(rows[i]) \in logPage.filter
                       ELSE /\ \A i \in 1 .. (Len(rows) - 1) : rows[i].n < rows[i + 1].n
                            /\ Cardinality(Gaps(rows)) <= 1
                            /\ logs # <<>> => rows[1].n = lastFetched + 1
  BY DEF LogIsWhole
<1>1. RowsAreWanted /\ (logPage.filter = {} => RowsAreInOrder)
  BY DEF LogsInv
<1>2. ASSUME NEW i \in 1 .. Len(rows) PROVE rows[i].svc = logPage.svc
  <2>1. rows[i] \in LinesOf(logPage.svc)
    BY <1>1 DEF RowsAreWanted
  <2> QED BY <2>1 DEF LinesOf
<1>3. CASE logPage.filter = {}
  <2>1. PICK g \in Nat : GapAt(g)
    BY <1>1, <1>3 DEF RowsAreInOrder
  <2>2. Gaps(rows) \subseteq {g}
    BY <2>1 DEF Gaps, GapAt
  <2>3. Cardinality(Gaps(rows)) <= 1
    BY <2>2, AtMostOne
  <2> QED BY <1>1, <1>2, <1>3, <2>1, <2>3 DEF GapAt, RowsAreInOrder
<1>4. CASE logPage.filter # {}
  BY <1>1, <1>2, <1>4 DEF RowsAreWanted
<1> QED BY <1>3, <1>4

\* The logs page, whatever is asked for and written meanwhile, as long as no two requests
\* overlap: every line of the list is of the service and the severities chosen; without a filter
\* each comes once and in order, with lines missing in one place at most, and the next older
\* page ends where the list begins.
THEOREM ListOfLogsIsWhole == LogsSpec => []LogIsWhole
<1>1. LogsInv /\ [LogsNext]_logVars => LogsInv'
  BY LogsNextInv
<1> QED BY LogsInitInv, <1>1, LogsInvWhole, PTL DEF LogsSpec

==================================================================================
