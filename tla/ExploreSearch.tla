---------------------------- MODULE ExploreSearch ----------------------------
(***************************************************************************)
(* The explore page: a filter kept in the address of the page, a text      *)
(* search that is copied into it, and the results that are fetched for it  *)
(* page by page.  The filter is written by the tags of the input, the      *)
(* saved searches, the buttons, the dialog and the settings; the results   *)
(* can be selected, deleted, shown in detail or searched for similar ones. *)
(***************************************************************************)
EXTENDS Integers, Sequences, FiniteSets

CONSTANTS
  ObjectCount,      \* tracked objects, numbered
  PageLimit,        \* results of a page
  MaxExploreActs    \* bound: things the user does

ASSUME ExploreAssumption == {ObjectCount, PageLimit, MaxExploreActs} \subseteq Nat

VARIABLES
  objectsStored,      \* the objects the server has
  found,       \* what was fetched for the filter: objects and pages, or NotFetched
  filter,      \* searchFilter, the address
  search,      \* the text of the input as it was last entered ("": none)
  saved,       \* the one saved search, or NoSearch
  draft,       \* currentFilter of the open filter dialog, or NoDraft
  picked,      \* selectedObjects
  openObject,      \* searchDetail (0: undefined)
  settings,    \* defaultView and search sources
  deleting,    \* requests to delete
  pickedFor,   \* ghost: the filter that the selection was made for
  exploreActs

exploreVars ==
  <<objectsStored, found, filter, search, saved, draft, picked, openObject, settings, deleting, pickedFor, exploreActs>>

Objects == 1..ObjectCount
ObjectLabel(o) == IF o = 1 THEN "person" ELSE "car"
StartTime(o) == (o + 1) \div 2
Labels == {"person", "car"}
Zones == {"yard", "drive"}
SubLabels == {"ann"}
Plates == {"P1"}
Days == 1..2
Speeds == {1, 2}            \* the least and the greatest of both ranges
Unset == 0
Choices == {"unset", "yes", "no"}
Ranges == {"score", "speed"}
Texts == {"dog", "cat"}
NotFetched == [none |-> "not fetched"]
NoSearch == [none |-> "no search"]
NoDraft == [none |-> "no draft"]

\* An empty list means all and is not kept in the address.
EmptyFilter ==
  [labels |-> {}, zones |-> {}, subLabels |-> {}, plates |-> {}, after |-> Unset, before |-> Unset,
   min |-> [r \in Ranges |-> Unset], max |-> [r \in Ranges |-> Unset],
   snapshot |-> "unset", clip |-> "unset", submitted |-> "unset", time |-> FALSE,
   searchType |-> {}, event |-> 0, query |-> "", sort |-> ""]
Filters ==
  [labels : SUBSET Labels, zones : SUBSET Zones, subLabels : SUBSET SubLabels, plates : SUBSET Plates, after : {Unset} \cup Days, before : {Unset} \cup Days,
   min : [Ranges -> {Unset} \cup Speeds], max : [Ranges -> {Unset} \cup Speeds],
   snapshot : Choices, clip : Choices, submitted : Choices, time : BOOLEAN,
   searchType : SUBSET {"thumbnail", "description", "similarity"}, event : {0} \cup Objects,
   query : {""} \cup Texts, sort : {"", "date_asc", "score_desc", "speed_desc", "relevance"}]

ExploreTypeOK ==
  /\ objectsStored \subseteq Objects /\ filter \in Filters /\ search \in {""} \cup Texts
  /\ found # NotFetched => found.objects \in Seq(Objects) /\ found.pages \in Nat /\ found.more \in BOOLEAN
  /\ saved # NoSearch => saved \in [search : {""} \cup Texts, filter : Filters]
  /\ draft # NoDraft => draft \in Filters
  /\ picked \subseteq Objects /\ openObject \in {0} \cup Objects /\ deleting \subseteq [ids : SUBSET Objects, group : BOOLEAN]
  /\ settings \in [view : {"summary", "grid"}, sources : SUBSET {"thumbnail", "description"}]
  /\ exploreActs \in 0..MaxExploreActs

ExploreInit ==
  /\ objectsStored = Objects /\ found = NotFetched /\ filter = EmptyFilter /\ search = "" /\ saved = NoSearch
  /\ draft = NoDraft /\ picked = {} /\ openObject = 0 /\ deleting = {} /\ pickedFor = EmptyFilter
  /\ settings = [view |-> "summary", sources |-> {"thumbnail"}] /\ exploreActs = 0

ExploreAct == exploreActs < MaxExploreActs /\ exploreActs' = exploreActs + 1

-----------------------------------------------------------------------------
(* The results *)

IsSimilarity(f) == f.searchType = {"similarity"}
ShowsSummary == filter = EmptyFilter /\ settings.view = "summary"

\* The server's answer to one page: those that match, before the last of the page before.
Matches(o, f) == f.labels = {} \/ ObjectLabel(o) \in f.labels
Page(f, last) ==
  LET ascending == f.sort = "date_asc"
      rest == {o \in objectsStored : Matches(o, f) /\ (last = 0 \/ IF ascending THEN StartTime(o) > StartTime(last)
                                                                         ELSE StartTime(o) < StartTime(last))}
      rank(o) == Cardinality({p \in rest : IF ascending THEN p <= o ELSE p >= o})
  IN [i \in 1..(IF Cardinality(rest) < PageLimit THEN Cardinality(rest) ELSE PageLimit) |->
        CHOOSE o \in rest : rank(o) = i]

\* getKey: no page follows an empty one; data of the pages follow each other.
FirstPages(f, n) ==
  LET upTo[k \in 0..n] ==
        IF k = 0 THEN <<>>
        ELSE IF k > 1 /\ upTo[k - 1] = <<>> THEN <<>>
        ELSE upTo[k - 1] \o Page(f, IF k = 1 THEN 0 ELSE upTo[k - 1][Len(upTo[k - 1])])
  IN upTo[n]
Fetch(n) ==
  LET all == FirstPages(filter, n)
      before == IF n > 1 THEN FirstPages(filter, n - 1) ELSE <<>>
  IN [objects |-> all, pages |-> n, more |-> Len(all) - Len(before) >= PageLimit]

Results == IF found = NotFetched THEN {} ELSE {found.objects[i] : i \in 1..Len(found.objects)}

\* The summary has results of its own, the grid those of the filter.
ResultsAnswered ==
  /\ found = NotFetched /\ ~ShowsSummary /\ found' = Fetch(1)
  /\ UNCHANGED <<objectsStored, filter, search, saved, draft, picked, openObject, settings, deleting, pickedFor, exploreActs>>

\* Focus, an update of a tracked object, or a deletion (mutate).
ResultsRevalidated ==
  /\ found # NotFetched /\ found' = Fetch(found.pages)
  /\ UNCHANGED <<objectsStored, filter, search, saved, draft, picked, openObject, settings, deleting, pickedFor, exploreActs>>

\* The observer below the grid; 100 results are enough of a search.
LoadMore ==
  /\ found # NotFetched /\ found.more /\ found.objects # <<>> /\ found' = Fetch(found.pages + 1)
  /\ UNCHANGED <<objectsStored, filter, search, saved, draft, picked, openObject, settings, deleting, pickedFor, exploreActs>>

-----------------------------------------------------------------------------
(* The filter.  A change of it makes another query and clears the selection. *)

\* The effect on search: it is copied into the filter, and ends a similarity search.
SearchEffect(f, text) ==
  IF text = search \/ (f.query = "" /\ text = "") THEN f
  ELSE [f EXCEPT !.query = text,
                 !.searchType = IF IsSimilarity(f) /\ text # "" THEN {} ELSE @,
                 !.event = IF IsSimilarity(f) /\ text # "" THEN 0 ELSE @]

\* The query of the address is copied back, unless it is a similarity search.
SearchFrom(f, text) == IF f.query # "" /\ ~IsSimilarity(f) THEN f.query ELSE text

Selection_Kept(f) == UNCHANGED <<picked, pickedFor>>
Selection(f) ==
  IF f = filter THEN UNCHANGED <<picked, pickedFor>> ELSE picked' = {} /\ pickedFor' = EmptyFilter

\* The handlers set a filter and a text, and the effects follow.
SetBoth(f, text) ==
  LET set == SearchFrom(f, text)
      next == SearchEffect(f, set)
  IN /\ filter' = next /\ search' = SearchFrom(next, set)
     /\ Selection(next)
     /\ found' = IF next = filter THEN found ELSE NotFetched
SetFilter(f) == SetBoth(f, search)
SetSearch(text) ==
  LET next == SearchEffect(filter, text)
  IN /\ filter' = next /\ search' = text /\ Selection(next)
     /\ found' = IF next = filter THEN found ELSE NotFetched

Page404 ==
  /\ found = NotFetched /\ ~ShowsSummary /\ IsSimilarity(filter) /\ filter.event \notin objectsStored
  /\ SetFilter(EmptyFilter) /\ draft' = IF draft = NoDraft THEN draft ELSE EmptyFilter
  /\ UNCHANGED <<objectsStored, saved, openObject, settings, deleting, exploreActs>>

-----------------------------------------------------------------------------
(* The input with tags *)

\* createFilter: a conflict with the other end of the range creates nothing.
Created(f) ==
  {[f EXCEPT !.labels = @ \cup {l}] : l \in Labels} \cup {[f EXCEPT !.zones = @ \cup {z}] : z \in Zones}
  \cup {[f EXCEPT !.subLabels = SubLabels], [f EXCEPT !.plates = Plates]}
  \cup {[f EXCEPT !.before = d] : d \in {d \in Days : f.after = Unset \/ d > f.after}}
  \cup {[f EXCEPT !.after = d] : d \in {d \in Days : f.before = Unset \/ d < f.before}}
  \cup {[f EXCEPT !.min[r] = s] : r \in Ranges, s \in Speeds} \cup {[f EXCEPT !.max[r] = s] : r \in Ranges, s \in Speeds}
  \cup {[f EXCEPT !.snapshot = c] : c \in {"yes", "no"}} \cup {[f EXCEPT !.clip = c] : c \in {"yes", "no"}}
  \cup (IF f.snapshot = "yes" THEN {[f EXCEPT !.submitted = c] : c \in {"yes", "no"}} ELSE {})
  \cup {[f EXCEPT !.time = TRUE]} \cup {[f EXCEPT !.searchType = @ \cup {t}] : t \in {"thumbnail", "description"}}
RangeConflict(f) == \E r \in Ranges : f.min[r] # Unset /\ f.max[r] # Unset /\ f.min[r] > f.max[r]

CreateTag ==
  /\ ExploreAct
  /\ \E f \in Created(filter) : (~RangeConflict(f) \/ (f.min = filter.min /\ f.max = filter.max)) /\ SetFilter(f)
  /\ UNCHANGED <<objectsStored, saved, draft, openObject, settings, deleting>>

\* The tags that are shown with a button: neither a similarity nor its object.
RemovedTag(f) ==
  {[f EXCEPT !.labels = @ \ {l}] : l \in f.labels} \cup {[f EXCEPT !.zones = @ \ {z}] : z \in f.zones}
  \cup {[f EXCEPT !.before = Unset], [f EXCEPT !.after = Unset], [f EXCEPT !.time = FALSE], [f EXCEPT !.sort = ""],
        [f EXCEPT !.subLabels = {}], [f EXCEPT !.plates = {}]}
  \cup {[f EXCEPT !.min[r] = Unset] : r \in Ranges} \cup {[f EXCEPT !.max[r] = Unset] : r \in Ranges}
  \cup {[f EXCEPT !.snapshot = "unset", !.submitted = "unset"], [f EXCEPT !.clip = "unset"], [f EXCEPT !.submitted = "unset"]}
  \cup (IF "similarity" \in f.searchType THEN {}
        ELSE {[f EXCEPT !.event = 0]} \cup {[f EXCEPT !.searchType = @ \ {t}] : t \in f.searchType})

RemoveTag ==
  /\ ExploreAct /\ \E f \in RemovedTag(filter) \ {filter} : SetFilter(f)
  /\ UNCHANGED <<objectsStored, saved, draft, openObject, settings, deleting>>

HandleClearInput ==
  /\ ExploreAct /\ (search # "" \/ filter # EmptyFilter) /\ SetBoth(EmptyFilter, "")
  /\ UNCHANGED <<objectsStored, saved, draft, openObject, settings, deleting>>
HandleClearSimilarity ==
  /\ ExploreAct /\ "similarity" \in filter.searchType
  /\ SetFilter([filter EXCEPT !.event = 0, !.searchType = {}])
  /\ UNCHANGED <<objectsStored, saved, draft, openObject, settings, deleting>>

\* Enter, or the first entry of the list.
HandleSearch(text) ==
  /\ ExploreAct /\ SetSearch(text)
  /\ UNCHANGED <<objectsStored, saved, draft, openObject, settings, deleting>>

SaveSearch ==
  /\ ExploreAct /\ (search # "" \/ filter # EmptyFilter) /\ saved' = [search |-> search, filter |-> filter]
  /\ UNCHANGED <<objectsStored, found, filter, search, draft, picked, openObject, settings, deleting, pickedFor>>
LoadSavedSearch ==
  /\ ExploreAct /\ saved # NoSearch /\ SetBoth(saved.filter, saved.search)
  /\ UNCHANGED <<objectsStored, saved, draft, openObject, settings, deleting>>
DeleteSearch ==
  /\ ExploreAct /\ saved # NoSearch /\ saved' = NoSearch
  /\ UNCHANGED <<objectsStored, found, filter, search, draft, picked, openObject, settings, deleting, pickedFor>>

-----------------------------------------------------------------------------
(* The buttons, shown instead of the group of actions while nothing is selected *)

AvailableSortTypes ==
  {"", "date_asc"} \cup (IF \E r \in Ranges : r = "score" /\ {filter.min[r], filter.max[r]} # {Unset} THEN {"score_desc"} ELSE {})
  \cup (IF {filter.min["speed"], filter.max["speed"]} # {Unset} THEN {"speed_desc"} ELSE {})
  \cup (IF filter.event # 0 \/ filter.query # "" THEN {"relevance"} ELSE {})

\* Labels, dates and order; a day's end is the beginning of the next.
FilterButtons ==
  /\ ExploreAct /\ picked = {}
  /\ \/ \E l \in SUBSET Labels : SetFilter([filter EXCEPT !.labels = l])
     \/ \E from \in {1}, to \in {1} : SetFilter([filter EXCEPT !.after = from, !.before = to + 1])
     \/ SetFilter([filter EXCEPT !.after = Unset, !.before = Unset])
  /\ UNCHANGED <<objectsStored, saved, draft, openObject, settings, deleting>>
SortButton ==
  /\ ExploreAct /\ picked = {} /\ filter # EmptyFilter
  /\ \E s \in AvailableSortTypes : SetFilter([filter EXCEPT !.sort = s])
  /\ UNCHANGED <<objectsStored, saved, draft, openObject, settings, deleting>>

OpenFilterDialog ==
  /\ ExploreAct /\ picked = {} /\ draft = NoDraft /\ draft' = filter
  /\ UNCHANGED <<objectsStored, found, filter, search, saved, picked, openObject, settings, deleting, pickedFor>>

\* A list cannot be emptied switch by switch.  The least speed that is typed makes the
\* greatest one the least there is, unless it is set.
Switched(s, all) == {s \cup {x} : x \in all} \cup (IF Cardinality(s) > 1 THEN {s \ {x} : x \in s} ELSE {}) \cup {{}}
OrElse(value, default) == IF value = Unset THEN default ELSE value
ZoneEdits(d) == {[d EXCEPT !.zones = z] : z \in Switched(d.zones, Zones)}
SubLabelEdits(d) == {[d EXCEPT !.subLabels = l] : l \in Switched(d.subLabels, SubLabels)}
PlateEdits(d) == {[d EXCEPT !.plates = IF p \in @ THEN @ \ {p} ELSE @ \cup {p}] : p \in Plates}
TimeEdits(d) == {[d EXCEPT !.time = t] : t \in BOOLEAN}   \* the whole day is no range
RangeEdits(d) ==
  {[d EXCEPT !.min[r] = s, !.max[r] = OrElse(d.max[r], IF r = "speed" THEN 1 ELSE 2)] : r \in Ranges, s \in Speeds}
  \cup {[d EXCEPT !.max[r] = s, !.min[r] = OrElse(d.min[r], 1)] : r \in Ranges, s \in Speeds}
FeatureEdits(d) ==
  {[d EXCEPT !.snapshot = "yes"], [d EXCEPT !.snapshot = "unset", !.submitted = "unset"]}
  \cup (IF d.snapshot = "unset" THEN {} ELSE {[d EXCEPT !.snapshot = "no", !.submitted = "unset"]})
  \cup (IF d.snapshot = "yes" THEN {[d EXCEPT !.submitted = "no"], [d EXCEPT !.submitted = "unset"]} ELSE {})
  \cup (IF d.submitted # "unset" THEN {[d EXCEPT !.submitted = c] : c \in Choices} ELSE {})
  \cup {[d EXCEPT !.clip = "yes"], [d EXCEPT !.clip = "unset"]}
  \cup (IF d.clip = "unset" THEN {} ELSE {[d EXCEPT !.clip = "no"]})

\* Note what the reset keeps: submitted, besides what the dialog does not show.
Reset(d) ==
  [d EXCEPT !.time = FALSE, !.zones = {}, !.subLabels = {}, !.plates = {}, !.searchType = {}, !.min = EmptyFilter.min, !.max = EmptyFilter.max,
            !.snapshot = "unset", !.clip = "unset"]

EditDraft ==
  /\ ExploreAct /\ draft # NoDraft
  /\ draft' \in ZoneEdits(draft) \cup SubLabelEdits(draft) \cup PlateEdits(draft) \cup TimeEdits(draft)
                \cup RangeEdits(draft) \cup FeatureEdits(draft) \cup {Reset(draft)}
  /\ UNCHANGED <<objectsStored, found, filter, search, saved, picked, openObject, settings, deleting, pickedFor>>
CloseDraft ==
  /\ draft # NoDraft /\ draft' = NoDraft
  /\ \/ SetFilter(draft)
     \/ UNCHANGED <<found, filter, search, picked, pickedFor>>
  /\ UNCHANGED <<objectsStored, saved, openObject, settings, deleting, exploreActs>>

\* The view without a filter, and what is searched; the switches do not know the filter.
ExploreSettings ==
  /\ ExploreAct /\ picked = {}
  /\ \/ /\ settings' = [settings EXCEPT !.view = IF @ = "grid" THEN "summary" ELSE "grid"]
        /\ found' = IF filter = EmptyFilter THEN NotFetched ELSE found
        /\ UNCHANGED <<filter, search, picked, pickedFor>>
     \/ \E sources \in Switched(settings.sources, {"thumbnail", "description"}) \ {{}, settings.sources} :
          settings' = [settings EXCEPT !.sources = sources] /\ SetFilter([filter EXCEPT !.searchType = sources])
  /\ UNCHANGED <<objectsStored, saved, draft, openObject, deleting>>

-----------------------------------------------------------------------------
(* The results' own controls *)

\* The summary shows the newest of each label.
ShownObjects == IF ShowsSummary THEN objectsStored ELSE Results

FindSimilar(o) ==
  /\ ExploreAct /\ o \in ShownObjects \cup {openObject} /\ SetFilter([filter EXCEPT !.searchType = {"similarity"}, !.event = o])
  /\ UNCHANGED <<objectsStored, saved, draft, openObject, settings, deleting>>

ExploreLabel(l) ==
  /\ ExploreAct /\ ShowsSummary /\ SetFilter([EmptyFilter EXCEPT !.labels = {l}])
  /\ UNCHANGED <<objectsStored, saved, draft, openObject, settings, deleting>>

Pick(ids) ==
  /\ picked' = ids /\ pickedFor' = IF ids = {} THEN EmptyFilter ELSE IF picked = {} THEN filter ELSE pickedFor
  /\ UNCHANGED <<objectsStored, found, filter, search, saved, draft, settings, deleting>>

\* A click shows the detail; with ctrl, or once something is selected, it selects.
OnSelectSearch(o, ctrl) ==
  /\ ExploreAct /\ o \in Results
  /\ IF ctrl \/ picked # {}
     THEN Pick(IF o \in picked THEN picked \ {o} ELSE picked \cup {o}) /\ UNCHANGED openObject
     ELSE Pick(picked) /\ openObject' = o

OnSelectAll ==
  /\ ExploreAct /\ Results # {}
  /\ Pick(IF Cardinality(picked) < Cardinality(Results) THEN Results ELSE {}) /\ UNCHANGED openObject

\* The arrows go around, from the detail's place among the results if it has one.
ArrowKeys ==
  /\ ExploreAct /\ Results # {}
  /\ LET n == Len(found.objects)
         at == {i \in 1..n : found.objects[i] = openObject}
         i == IF at = {} THEN 0 ELSE CHOOSE j \in at : TRUE
     IN \/ openObject' = found.objects[IF i <= 1 THEN n ELSE i - 1]
        \/ openObject' = found.objects[(i % n) + 1]
  /\ UNCHANGED <<objectsStored, found, filter, search, saved, draft, picked, settings, deleting, pickedFor>>

CloseObject ==
  /\ openObject # 0 /\ openObject' = 0
  /\ UNCHANGED <<objectsStored, found, filter, search, saved, draft, picked, settings, deleting, pickedFor, exploreActs>>

ClearSelected == ExploreAct /\ picked # {} /\ Pick({}) /\ UNCHANGED openObject

\* Of the selection, or one from its menu.
OnDelete ==
  /\ ExploreAct
  /\ \/ picked # {} /\ deleting' = deleting \cup {[ids |-> picked, group |-> TRUE]}
     \/ \E o \in ShownObjects : deleting' = deleting \cup {[ids |-> {o}, group |-> FALSE]}
  /\ UNCHANGED <<objectsStored, found, filter, search, saved, draft, picked, openObject, settings, pickedFor>>

DeleteAnswered(d, ok) ==
  /\ d \in deleting /\ deleting' = deleting \ {d}
  /\ objectsStored' = IF ok THEN objectsStored \ d.ids ELSE objectsStored
  /\ IF ok /\ d.group THEN picked' = {} /\ pickedFor' = EmptyFilter ELSE UNCHANGED <<picked, pickedFor>>
  /\ UNCHANGED <<found, filter, search, saved, draft, openObject, settings, exploreActs>>

ExploreNext ==
  \/ ResultsAnswered \/ ResultsRevalidated \/ LoadMore \/ Page404
  \/ CreateTag \/ RemoveTag \/ HandleClearInput \/ HandleClearSimilarity
  \/ \E text \in Texts : HandleSearch(text)
  \/ SaveSearch \/ LoadSavedSearch \/ DeleteSearch
  \/ FilterButtons \/ SortButton \/ OpenFilterDialog \/ EditDraft \/ CloseDraft \/ ExploreSettings
  \/ \E o \in Objects : FindSimilar(o) \/ \E ctrl \in BOOLEAN : OnSelectSearch(o, ctrl)
  \/ \E l \in Labels : ExploreLabel(l)
  \/ OnSelectAll \/ ArrowKeys \/ CloseObject \/ ClearSelected \/ OnDelete
  \/ \E d \in deleting, ok \in BOOLEAN : DeleteAnswered(d, ok)

ExploreSpec == ExploreInit /\ [][ExploreNext]_exploreVars

-----------------------------------------------------------------------------
(* Properties *)

\* What is selected was selected for the filter that is shown, whichever of the many ways
\* changed it: a deletion never takes objects of an earlier search with it.
SelectionFollowsSearch == picked # {} => pickedFor = filter
=============================================================================
