---------------------------- MODULE ReviewFilters ----------------------------
(***************************************************************************)
(* The filter of the review and recording pages and the controls that      *)
(* change it: the cameras' list, the calendar, the dialog of labels and    *)
(* zones on a desktop, and the drawer of a phone.  A control edits a draft *)
(* and applies it to the filter.  The reviews are then fetched anew: the   *)
(* recording page is gone until they arrive, unless they were cached.      *)
(***************************************************************************)
EXTENDS Naturals, FiniteSets

CONSTANTS
  ReviewCams,        \* the cameras
  CamGroups,         \* the sets of cameras that a group stands for
  TrackedBy,         \* camera -> the labels and zones it offers
  MaxFilterActs      \* bound: things the user does

ASSUME ReviewFiltersAssumption ==
  CamGroups \subseteq SUBSET ReviewCams /\ DOMAIN TrackedBy = ReviewCams /\ MaxFilterActs \in Nat

VARIABLES
  on,          \* where: desktop or phone, review or recording page, its start and its main camera
  inForce,     \* the filter of the page
  reviewsThere,     \* the reviews of this filter are there
  camButton,   \* CamerasFilterButton: open, currentCameras
  general,     \* GeneralFilterButton: open, currentFilter
  drawer,      \* MobileReviewSettingsDrawer: drawerMode, currentFilter
  switches,    \* showReviewed and motionOnly: those on, those shown on, those with a timer
  filterActs

filtersVars == <<on, inForce, reviewsThere, camButton, general, drawer, switches, filterActs>>

All == {"*"}         \* a part that is undefined
Gone == {"-"}        \* a part whose key was removed from a draft
Offered == UNION {TrackedBy[c].labels \cup TrackedBy[c].zones : c \in ReviewCams}
Parts == {"labels", "zones"}
FilterDays == {"last24", "monday"}
Places == [phone : BOOLEAN, recording : BOOLEAN, start : ReviewCams, main : ReviewCams]
Switches == {"reviewed", "motion"}

GeneralOf(f) == [labels |-> f.labels, zones |-> f.zones, showAll |-> f.showAll]
NoGeneral == [labels |-> All, zones |-> All, showAll |-> FALSE]

FiltersTypeOK ==
  /\ on \in Places /\ reviewsThere \in BOOLEAN
  /\ inForce.cameras \in {All} \cup SUBSET ReviewCams /\ inForce.day \in FilterDays /\ inForce.showAll \in BOOLEAN
  /\ \A p \in Parts : /\ inForce[p] \in {All} \cup SUBSET Offered
                      /\ {general.draft[p], drawer.draft[p]} \subseteq {All, Gone} \cup SUBSET Offered
  /\ camButton.open \in BOOLEAN /\ camButton.cameras \in {All} \cup SUBSET ReviewCams
  /\ drawer.mode \in {"none", "select", "export", "calendar", "filter"}
  /\ switches \in [actual : SUBSET Switches, shown : SUBSET Switches, pending : SUBSET Switches]
  /\ filterActs \in 0..MaxFilterActs

\* The link that opened the page may hold cameras.
FirstFilters ==
  {[cameras |-> cams, labels |-> All, zones |-> All, showAll |-> FALSE, day |-> "last24"] :
     cams \in {All} \cup (SUBSET ReviewCams \ {{}})}

FiltersInit ==
  /\ on \in {p \in Places : p.main = p.start} /\ reviewsThere = TRUE
  /\ inForce \in FirstFilters
  /\ camButton = [open |-> FALSE, cameras |-> inForce.cameras]
  /\ general = [open |-> FALSE, draft |-> NoGeneral]
  /\ drawer = [mode |-> "none", draft |-> inForce]
  /\ switches = [actual |-> {}, shown |-> {}, pending |-> {}] /\ filterActs = 0

There == reviewsThere \/ ~on.recording
FilterAct == There /\ filterActs < MaxFilterActs /\ filterActs' = filterActs + 1

-----------------------------------------------------------------------------
(* The filter in force *)

\* The recording page's toolbar keeps the camera that is played among those of the filter.
Adjusted(f) == IF on.recording /\ f.cameras # All THEN [f EXCEPT !.cameras = @ \cup {on.main}] ELSE f

\* A part that changes gives the control that edits it a new draft; the drawer took its
\* draft when it was made.
Follows_Not(f, cam, gen) == camButton' = cam /\ general' = gen
Follows(f, cam, gen) ==
  /\ camButton' = IF f.cameras # inForce.cameras \/ (on.recording /\ ~on.phone) THEN [cam EXCEPT !.cameras = f.cameras] ELSE cam
  /\ general' = IF GeneralOf(f) # GeneralOf(inForce) THEN [gen EXCEPT !.draft = GeneralOf(f)] ELSE gen

Key(f) == [cameras |-> f.cameras, labels |-> f.labels, zones |-> f.zones, day |-> f.day]

\* onUpdateFilter of the page.
Becomes(f, cam, gen) ==
  /\ inForce' = f /\ Follows(f, cam, gen)
  /\ reviewsThere' \in IF Key(f) = Key(inForce) THEN {reviewsThere} ELSE BOOLEAN

\* onUpdateFilter of ReviewFilterGroup.
FromToolbar(f, cam, gen) == Becomes(Adjusted(f), cam, gen)

MadeAgain ==
  /\ camButton' = [open |-> FALSE, cameras |-> inForce.cameras]
  /\ general' = [open |-> FALSE, draft |-> GeneralOf(inForce)] /\ drawer' = [mode |-> "none", draft |-> inForce]

\* The recording page is made again, with the camera it was first opened for.
ReviewsArrive ==
  /\ ~reviewsThere /\ reviewsThere' = TRUE
  /\ IF on.recording THEN on' = [on EXCEPT !.main = on.start] /\ MadeAgain ELSE UNCHANGED <<on, camButton, general, drawer>>
  /\ UNCHANGED <<inForce, switches, filterActs>>

\* Reviews are selected on the review page: their actions take the place of the filters.
SelectReviews ==
  /\ FilterAct /\ ~on.recording /\ MadeAgain
  /\ switches' = [switches EXCEPT !.pending = {}, !.shown = switches.actual]
  /\ UNCHANGED <<on, inForce, reviewsThere>>

\* The labels and zones that the reviews of the filter may carry: what a dialog lists.
ListedReviews(p) ==
  IF ~reviewsThere THEN {} ELSE UNION {TrackedBy[c][p] : c \in IF inForce.cameras = All THEN ReviewCams ELSE inForce.cameras}

-----------------------------------------------------------------------------
(* The cameras' list; the recording page has it on a desktop only *)

HasCamButton == ~(on.phone /\ on.recording)
Chosen(cams) == IF cams = All THEN {} ELSE cams

\* Closed without applying, the list is what is in force again.
OpenCameras(open) ==
  /\ FilterAct /\ HasCamButton /\ camButton.open # open
  /\ camButton' = [open |-> open, cameras |-> IF open THEN camButton.cameras ELSE inForce.cameras]
  /\ UNCHANGED <<on, inForce, reviewsThere, general, drawer, switches>>

EditCameras(cams) ==
  /\ FilterAct /\ camButton.open /\ camButton' = [camButton EXCEPT !.cameras = cams]
  /\ UNCHANGED <<on, inForce, reviewsThere, general, drawer, switches>>

AllCameras == EditCameras(All)
CameraGroup(cams) == EditCameras(cams)

\* From all cameras the list starts with the one that is played, if there is one.
CheckCamera(c) ==
  /\ c \notin Chosen(camButton.cameras)
  /\ EditCameras(Chosen(camButton.cameras) \cup {c} \cup
                 (IF on.recording /\ camButton.cameras = All THEN {on.main} ELSE {}))

\* The last camera cannot be taken away, nor the one that is played.
UncheckCamera(c) ==
  /\ c \in Chosen(camButton.cameras) /\ Cardinality(camButton.cameras) > 1 /\ ~(on.recording /\ c = on.main)
  /\ EditCameras(camButton.cameras \ {c})

ApplyCameras ==
  /\ FilterAct /\ camButton.open /\ camButton.cameras # {}
  /\ FromToolbar([inForce EXCEPT !.cameras = camButton.cameras], [camButton EXCEPT !.open = FALSE], general)
  /\ UNCHANGED <<on, drawer, switches>>

ResetCameras ==
  /\ FilterAct /\ camButton.open
  /\ FromToolbar([inForce EXCEPT !.cameras = All], [camButton EXCEPT !.cameras = All], general)
  /\ UNCHANGED <<on, drawer, switches>>

\* The recording page offers the cameras of the filter to play.
SelectMain(c) ==
  /\ FilterAct /\ on.recording /\ c # on.main /\ c \in (IF inForce.cameras = All THEN ReviewCams ELSE inForce.cameras)
  /\ on' = [on EXCEPT !.main = c] /\ UNCHANGED <<inForce, reviewsThere, camButton, general, drawer, switches>>

CamerasNext ==
  \/ \E open \in BOOLEAN : OpenCameras(open)
  \/ AllCameras \/ (\E g \in CamGroups : CameraGroup(g)) \/ (\E c \in ReviewCams : CheckCamera(c) \/ UncheckCamera(c))
  \/ ApplyCameras \/ ResetCameras \/ (\E c \in ReviewCams : SelectMain(c))

-----------------------------------------------------------------------------
(* The calendar *)

SelectDay(d) ==
  /\ FilterAct /\ ~on.phone /\ d # inForce.day
  /\ FromToolbar([inForce EXCEPT !.day = d], camButton, general)
  /\ UNCHANGED <<on, drawer, switches>>

DrawerDay(d) ==
  /\ FilterAct /\ on.phone /\ drawer.mode = "calendar" /\ d # inForce.day
  /\ Becomes([inForce EXCEPT !.day = d], camButton, general)
  /\ UNCHANGED <<on, drawer, switches>>

-----------------------------------------------------------------------------
(* GeneralFilterContent: what an edit makes of a draft *)

\* The switch of all takes the key away and cannot be turned off.
WithAll(draft, p) == IF draft[p] \in {All, Gone} THEN {} ELSE {[draft EXCEPT ![p] = Gone]}

Checked(draft, p, i) ==
  IF draft[p] \in {All, Gone} THEN {[draft EXCEPT ![p] = {i}]}
  ELSE IF i \in draft[p] THEN {} ELSE {[draft EXCEPT ![p] = @ \cup {i}]}

\* The last item cannot be taken away.
Unchecked(draft, p, i) ==
  IF draft[p] \in {All, Gone} \/ i \notin draft[p] \/ Cardinality(draft[p]) = 1 THEN {}
  ELSE {[draft EXCEPT ![p] = @ \ {i}]}

\* The other severity is shown too, or not; only the review page has the switch.
WithShowAll(draft) == IF on.recording THEN {} ELSE {[draft EXCEPT !.showAll = ~@]}

Edited(draft) ==
  WithShowAll(draft) \cup
  UNION {WithAll(draft, p) \cup UNION {Checked(draft, p, i) \cup Unchecked(draft, p, i) : i \in ListedReviews(p)} : p \in Parts}

-----------------------------------------------------------------------------
(* The dialog of a desktop *)

OpenGeneral(open) ==
  /\ FilterAct /\ ~on.phone /\ general.open # open
  /\ general' = [open |-> open, draft |-> IF open THEN general.draft ELSE GeneralOf(inForce)]
  /\ UNCHANGED <<on, inForce, reviewsThere, camButton, drawer, switches>>

EditGeneral ==
  /\ FilterAct /\ general.open /\ \E d \in Edited(general.draft) : general' = [general EXCEPT !.draft = d]
  /\ UNCHANGED <<on, inForce, reviewsThere, camButton, drawer, switches>>

\* The draft is spread over the filter: a key it does not have keeps its value.
Spread(f, draft) ==
  [f EXCEPT !.labels = IF draft.labels = Gone THEN @ ELSE draft.labels,
            !.zones = IF draft.zones = Gone THEN @ ELSE draft.zones, !.showAll = draft.showAll]

ApplyGeneral ==
  /\ FilterAct /\ general.open
  /\ FromToolbar(Spread(inForce, general.draft), camButton, [general EXCEPT !.open = FALSE])
  /\ UNCHANGED <<on, drawer, switches>>

ResetGeneral ==
  /\ FilterAct /\ general.open
  /\ FromToolbar(Spread(inForce, NoGeneral), camButton, [general EXCEPT !.draft = NoGeneral])
  /\ UNCHANGED <<on, drawer, switches>>

GeneralNext == (\E open \in BOOLEAN : OpenGeneral(open)) \/ EditGeneral \/ ApplyGeneral \/ ResetGeneral

-----------------------------------------------------------------------------
(* The drawer of a phone *)

DrawerMode(mode) ==
  /\ FilterAct /\ on.phone
  /\ mode \in CASE drawer.mode = "none" -> {"select"}
                [] drawer.mode = "select" -> {"none", "calendar", "filter"} \cup (IF on.recording THEN {"export"} ELSE {})
                [] OTHER -> {"none", "select"}
  /\ drawer' = [drawer EXCEPT !.mode = mode]
  /\ UNCHANGED <<on, inForce, reviewsThere, camButton, general, switches>>

EditDrawer ==
  /\ FilterAct /\ drawer.mode = "filter" /\ \E d \in Edited(drawer.draft) : drawer' = [drawer EXCEPT !.draft = d]
  /\ UNCHANGED <<on, inForce, reviewsThere, camButton, general, switches>>

Whole(draft) == [draft EXCEPT !.labels = IF @ = Gone THEN All ELSE @, !.zones = IF @ = Gone THEN All ELSE @]

\* The draft, cameras and day included, becomes the filter.
ApplyDrawer ==
  /\ FilterAct /\ drawer.mode = "filter"
  /\ Becomes(Whole(drawer.draft), camButton, general) /\ drawer' = [drawer EXCEPT !.mode = "select"]
  /\ UNCHANGED <<on, switches>>

\* An empty filter: the cameras and the day are reset with it.
ResetDrawer ==
  /\ FilterAct /\ drawer.mode = "filter"
  /\ LET none == [inForce EXCEPT !.cameras = All, !.labels = All, !.zones = All, !.showAll = FALSE, !.day = "last24"]
     IN Becomes(none, camButton, general) /\ drawer' = [drawer EXCEPT !.draft = none]
  /\ UNCHANGED <<on, switches>>

DrawerNext ==
  (\E mode \in {"none", "select", "export", "calendar", "filter"} : DrawerMode(mode)) \/ EditDrawer \/ ApplyDrawer \/ ResetDrawer

-----------------------------------------------------------------------------
(* The switches of the review page are shown at once and set 20 ms later *)

ToggleReviewed(s) ==
  /\ FilterAct /\ ~on.recording
  /\ switches' = [switches EXCEPT !.shown = IF s \in @ THEN @ \ {s} ELSE @ \cup {s}, !.pending = @ \cup {s}]
  /\ UNCHANGED <<on, inForce, reviewsThere, camButton, general, drawer>>

ToggleSet(s) ==
  /\ s \in switches.pending
  /\ switches' = [switches EXCEPT !.pending = @ \ {s},
                                  !.actual = IF s \in switches.shown THEN @ \cup {s} ELSE @ \ {s}]
  /\ UNCHANGED <<on, inForce, reviewsThere, camButton, general, drawer, filterActs>>

FiltersNext ==
  \/ ReviewsArrive \/ SelectReviews \/ CamerasNext \/ GeneralNext \/ DrawerNext
  \/ \E d \in FilterDays : SelectDay(d) \/ DrawerDay(d)
  \/ \E s \in Switches : ToggleReviewed(s) \/ ToggleSet(s)

FiltersSpec == FiltersInit /\ [][FiltersNext]_filtersVars

-----------------------------------------------------------------------------
(* Properties *)

\* The list of cameras, opened anew, starts from the cameras in force, whatever control of
\* the page changed the filter meanwhile (CamerasFilterButton.tsx:57, 116).
FreshListIsInForce == ~camButton.open => camButton.cameras = inForce.cameras
=============================================================================
