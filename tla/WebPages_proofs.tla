---------------------------- MODULE WebPages_proofs ----------------------------
(***************************************************************************)
(* Theorems about the pages of the web interface.  A behaviour of the      *)
(* pages together is one of each page, so that what is proved of a page    *)
(* alone holds of the whole; then what single pages promise, for any       *)
(* identifiers, cameras, names, images and numbers of actions:             *)
(*                                                                         *)
(* EndInv: the event in the ref, and one not created yet, was not ended.   *)
(* PeerInv: a prompt that is outstanding implies that one was shown.       *)
(* DetailInv: what the page copied of an object is what the list has, and  *)
(* the list what was answered last or what the server has.                 *)
(* FormInv: the form that is shown remembers the camera it was filled      *)
(* for; every way to another camera or tab fills it anew.                  *)
(* LibraryInv: what the page knows of a face, and what is picked on it, are*)
(* among the images that face ever had, and no selection outlives its page.*)
(***************************************************************************)
EXTENDS WebPages, ReviewPages_proofs, Dashboard_proofs, TLAPS

-----------------------------------------------------------------------------
(* The composition *)

\* Whatever page is visited, what happens is a step of any given page or nothing to it: the
\* router unmounts the page that is left (App.tsx), so no page disturbs another's state.
LEMMA StepOfPages ==
  ASSUME [PagesNext]_pageVars
  PROVE  /\ [ReviewNext]_reviewVars /\ [ExploreNext]_exploreVars /\ [LiveViewNext]_liveViewVars
         /\ [FallbackNext]_fallbackVars /\ [SettingsNext]_settingsVars /\ [FaceNext]_faceVars
         /\ [PreviewNext]_pvVars /\ [PlaybackNext]_playVars /\ [FiltersNext]_filtersVars
         /\ [ExportNext]_exportVars /\ [DetailNext]_detailVars /\ [GroupsNext]_groupVars
         /\ [SoundNext]_soundVars /\ [LogsNext]_logVars
<1>1. CASE UNCHANGED pageVars
  BY <1>1 DEF pageVars
<1>2. CASE PagesNext
  <2>1. OthersStay BY <1>2 DEF PagesNext
  <2>2. ReviewNext \/ UNCHANGED reviewVars
    BY <1>2, <2>1 DEF PagesNext, OthersStay, Stays
  <2>3. ExploreNext \/ UNCHANGED exploreVars
    BY <1>2, <2>1 DEF PagesNext, OthersStay, Stays
  <2>4. LiveViewNext \/ UNCHANGED liveViewVars
    BY <1>2, <2>1 DEF PagesNext, OthersStay, Stays
  <2>5. FallbackNext \/ UNCHANGED fallbackVars
    BY <1>2, <2>1 DEF PagesNext, OthersStay, Stays
  <2>6. SettingsNext \/ UNCHANGED settingsVars
    BY <1>2, <2>1 DEF PagesNext, OthersStay, Stays
  <2>7. FaceNext \/ UNCHANGED faceVars
    BY <1>2, <2>1 DEF PagesNext, OthersStay, Stays
  <2>8. PreviewNext \/ UNCHANGED pvVars
    BY <1>2, <2>1 DEF PagesNext, OthersStay, Stays
  <2>9. PlaybackNext \/ UNCHANGED playVars
    BY <1>2, <2>1 DEF PagesNext, OthersStay, Stays
  <2>10. FiltersNext \/ UNCHANGED filtersVars
    BY <1>2, <2>1 DEF PagesNext, OthersStay, Stays
  <2>11. ExportNext \/ UNCHANGED exportVars
    BY <1>2, <2>1 DEF PagesNext, OthersStay, Stays
  <2>12. DetailNext \/ UNCHANGED detailVars
    BY <1>2, <2>1 DEF PagesNext, OthersStay, Stays
  <2>13. GroupsNext \/ UNCHANGED groupVars
    BY <1>2, <2>1 DEF PagesNext, OthersStay, Stays
  <2>14. SoundNext \/ UNCHANGED soundVars
    BY <1>2, <2>1 DEF PagesNext, OthersStay, Stays
  <2>15. LogsNext \/ UNCHANGED logVars
    BY <1>2, <2>1 DEF PagesNext, OthersStay, Stays
  <2> QED BY <2>2, <2>3, <2>4, <2>5, <2>6, <2>7, <2>8, <2>9, <2>10, <2>11, <2>12, <2>13, <2>14, <2>15
<1> QED BY <1>1, <1>2

\* The pages implement each of the pages.
LEMMA PagesImplement ==
  PagesSpec => /\ ReviewSpec /\ ExploreSpec /\ LiveViewSpec /\ FallbackSpec /\ SettingsSpec /\ FaceSpec
               /\ PreviewSpec /\ PlaybackSpec /\ FiltersSpec /\ ExportSpec /\ DetailSpec /\ GroupsSpec
               /\ SoundSpec /\ LogsSpec
<1>1. PagesInit => /\ ReviewInit /\ ExploreInit /\ LiveViewInit /\ FallbackInit /\ SettingsInit
                   /\ FaceInit /\ PreviewInit /\ PlaybackInit /\ FiltersInit /\ ExportInit
                   /\ DetailInit /\ GroupsInit /\ SoundInit /\ LogsInit
  BY DEF PagesInit
<1>2. [PagesNext]_pageVars =>
         /\ [ReviewNext]_reviewVars /\ [ExploreNext]_exploreVars /\ [LiveViewNext]_liveViewVars
         /\ [FallbackNext]_fallbackVars /\ [SettingsNext]_settingsVars /\ [FaceNext]_faceVars
         /\ [PreviewNext]_pvVars /\ [PlaybackNext]_playVars /\ [FiltersNext]_filtersVars
         /\ [ExportNext]_exportVars /\ [DetailNext]_detailVars /\ [GroupsNext]_groupVars
         /\ [SoundNext]_soundVars /\ [LogsNext]_logVars
  BY StepOfPages
<1> QED
  BY <1>1, <1>2, PTL
     DEF PagesSpec, ReviewSpec, ExploreSpec, LiveViewSpec, FallbackSpec, SettingsSpec, FaceSpec,
         PreviewSpec, PlaybackSpec, FiltersSpec, ExportSpec, DetailSpec, GroupsSpec, SoundSpec,
         LogsSpec

-----------------------------------------------------------------------------
(* Manual events *)

\* The event in the ref, and one that was not created yet, was not ended.
EndInv ==
  /\ recordingEventId \in 0..MaxManual
  /\ manual \in [1..MaxManual -> {"none", "open", "ended"}]
  /\ eventEnds \in [1..MaxManual -> Nat]
  /\ \A i \in 1..MaxManual :
       /\ eventEnds[i] <= 1
       /\ manual[i] = "none" \/ i = recordingEventId => eventEnds[i] = 0
  /\ recordingEventId # 0 => manual[recordingEventId] # "none"

LEMMA EndEventKeeps == ASSUME EndInv, EndEvent PROVE EndInv'
<1>1. CASE recordingEventId = 0
  BY <1>1 DEF EndEvent, EndInv, viewManual
<1>2. CASE recordingEventId # 0
  <2>1. /\ manual' = [manual EXCEPT ![recordingEventId] = "ended"]
        /\ eventEnds' = [eventEnds EXCEPT ![recordingEventId] = @ + 1]
        /\ recordingEventId' = 0 /\ recordingEventId \in 1..MaxManual
    BY <1>2, LiveViewAssumption DEF EndEvent, EndInv
  <2>2. /\ eventEnds[recordingEventId] = 0 /\ manual'[recordingEventId] = "ended"
        /\ eventEnds'[recordingEventId] = 1
    BY <2>1 DEF EndInv
  <2>3. \A i \in 1..MaxManual \ {recordingEventId} : eventEnds'[i] = eventEnds[i] /\ manual'[i] = manual[i]
    BY <2>1 DEF EndInv
  <2>4. /\ recordingEventId' \in 0..MaxManual
        /\ manual' \in [1..MaxManual -> {"none", "open", "ended"}]
        /\ eventEnds' \in [1..MaxManual -> Nat]
    BY <2>1, LiveViewAssumption DEF EndInv
  <2>5. ASSUME NEW i \in 1..MaxManual
        PROVE  /\ eventEnds'[i] <= 1
               /\ manual'[i] = "none" \/ i = recordingEventId' => eventEnds'[i] = 0
    <3>1. CASE i = recordingEventId BY <3>1, <2>1, <2>2
    <3>2. CASE i # recordingEventId BY <3>2, <2>1, <2>3 DEF EndInv
    <3> QED BY <3>1, <3>2
  <2> QED BY <2>1, <2>4, <2>5 DEF EndInv
<1> QED BY <1>1, <1>2

LEMMA SameKeepsEnds ==
  ASSUME EndInv, UNCHANGED <<manual, eventEnds, recordingEventId>> PROVE EndInv'
BY DEF EndInv

LEMMA EndsKept == ASSUME EndInv, [LiveViewNext]_liveViewVars PROVE EndInv'
<1>1. CASE UNCHANGED liveViewVars
  BY <1>1, SameKeepsEnds DEF liveViewVars
<1>2. CASE HandleEventButtonClick
  BY <1>2, EndEventKeeps, SameKeepsEnds DEF HandleEventButtonClick, CreateEvent
<1>3. CASE CreateAnswered
  <2>1. CASE \E i \in 1..MaxManual : /\ manual[i] = "none" /\ manual' = [manual EXCEPT ![i] = "open"]
                                     /\ recordingEventId' = i
    BY <1>3, <2>1 DEF CreateAnswered, EndInv
  <2>2. CASE UNCHANGED <<manual, recordingEventId>>
    BY <1>3, <2>2, SameKeepsEnds DEF CreateAnswered
  <2> QED BY <1>3, <2>1, <2>2 DEF CreateAnswered
<1>4. CASE UnmountView
  BY <1>4, EndEventKeeps DEF UnmountView
<1>5. CASE \/ \E f \in Features : Toggle(f) \/ StateMessage(f)
           \/ ToggleMicButton \/ SoundKeys \/ ToggleAudioButton \/ TogglePip
           \/ ModeFallsBack \/ ResetLowBandwidth \/ MenuSettings \/ ToggleFullscreen
           \/ PtzPress \/ PtzRelease \/ PtzKey \/ ToggleClickOverlay
  <2>1. UNCHANGED viewManual
    BY <1>5 DEF Toggle, StateMessage, ToggleMicButton, SoundKeys, ToggleAudioButton, TogglePip,
                ModeFallsBack, ResetLowBandwidth, MenuSettings, ToggleFullscreen, PtzPress,
                PtzRelease, PtzKey, ToggleClickOverlay
  <2> QED BY <2>1, SameKeepsEnds DEF viewManual
<1> QED
  BY <1>1, <1>2, <1>3, <1>4, <1>5 DEF LiveViewNext

\* The page asks for the end of a manual event once, for any number of events, presets and
\* actions: the ref is cleared by the request and set only by the answer to a later creation
\* (LiveCameraView.tsx, createEvent and endEvent).
THEOREM ManualEventEndsOnce == PagesSpec => []EndedOnce
<1>1. LiveViewInit => EndInv
  BY LiveViewAssumption DEF LiveViewInit, EndInv
<1>2. EndInv /\ [LiveViewNext]_liveViewVars => EndInv'
  BY EndsKept
<1>3. EndInv => EndedOnce
  BY DEF EndInv, EndedOnce
<1>4. LiveViewSpec => []EndedOnce
  BY <1>1, <1>2, <1>3, PTL DEF LiveViewSpec
<1> QED
  BY <1>4, PagesImplement

-----------------------------------------------------------------------------
(* The selection of the explore page *)

\* A filter that is set takes the selection with it, unless it is the same.
LEMMA SetKeepsSelection ==
  ASSUME SelectionFollowsSearch,
         \/ \E f, text : SetBoth(f, text)
         \/ \E f : SetFilter(f)
         \/ \E text : SetSearch(text)
         \/ UNCHANGED <<filter, picked, pickedFor>>
  PROVE  SelectionFollowsSearch'
BY DEF SelectionFollowsSearch, SetBoth, SetFilter, SetSearch, Selection

LEMMA PickKeepsSelection ==
  ASSUME SelectionFollowsSearch, \E ids : Pick(ids)
  PROVE  SelectionFollowsSearch'
BY DEF SelectionFollowsSearch, Pick

LEMMA SelectionKept ==
  ASSUME SelectionFollowsSearch, [ExploreNext]_exploreVars
  PROVE  SelectionFollowsSearch'
<1>1. CASE UNCHANGED exploreVars
  BY <1>1, SetKeepsSelection DEF exploreVars
<1>2. CASE ResultsAnswered \/ ResultsRevalidated \/ LoadMore \/ SaveSearch \/ DeleteSearch
           \/ OpenFilterDialog \/ EditDraft \/ ArrowKeys \/ CloseObject \/ OnDelete
  <2>1. UNCHANGED <<filter, picked, pickedFor>>
    BY <1>2 DEF ResultsAnswered, ResultsRevalidated, LoadMore, SaveSearch, DeleteSearch,
                OpenFilterDialog, EditDraft, ArrowKeys, CloseObject, OnDelete
  <2> QED BY <2>1, SetKeepsSelection
<1>3. CASE Page404 \/ HandleClearInput \/ HandleClearSimilarity \/ LoadSavedSearch
           \/ (\E text \in Texts : HandleSearch(text)) \/ (\E l \in Labels : ExploreLabel(l))
           \/ \E o \in Objects : FindSimilar(o)
  BY <1>3, SetKeepsSelection
     DEF Page404, HandleClearInput, HandleClearSimilarity, LoadSavedSearch, HandleSearch,
         ExploreLabel, FindSimilar
<1>4. CASE CreateTag \/ RemoveTag
  BY <1>4, SetKeepsSelection DEF CreateTag, RemoveTag
<1>5. CASE FilterButtons \/ SortButton \/ CloseDraft \/ ExploreSettings
  BY <1>5, SetKeepsSelection DEF FilterButtons, SortButton, CloseDraft, ExploreSettings
<1>6. CASE \/ \E o \in Objects, ctrl \in BOOLEAN : OnSelectSearch(o, ctrl)
           \/ OnSelectAll \/ ClearSelected
  BY <1>6, PickKeepsSelection DEF OnSelectSearch, OnSelectAll, ClearSelected
<1>7. CASE \E d \in deleting, ok \in BOOLEAN : DeleteAnswered(d, ok)
  BY <1>7 DEF DeleteAnswered, SelectionFollowsSearch
<1> QED
  BY <1>1, <1>2, <1>3, <1>4, <1>5, <1>6, <1>7 DEF ExploreNext

\* What is selected was selected for the filter that is shown, whichever of the editors of
\* the filter changed it, for any objects and actions (SearchView.tsx).
THEOREM SelectionIsOfTheSearch == PagesSpec => []SelectionFollowsSearch
<1>1. ExploreInit => SelectionFollowsSearch
  BY DEF ExploreInit, SelectionFollowsSearch
<1>2. SelectionFollowsSearch /\ [ExploreNext]_exploreVars => SelectionFollowsSearch'
  BY SelectionKept
<1>3. ExploreSpec => []SelectionFollowsSearch
  BY <1>1, <1>2, PTL DEF ExploreSpec
<1> QED
  BY <1>3, PagesImplement

-----------------------------------------------------------------------------
(* The WebRTC player: without the prompt for the microphone its effect      *)
(* makes and closes connections in pairs.                                   *)

\* While nothing was prompted, no connection waits for an answer, and the one that is open is
\* the one in pcRef.
PeerInv ==
  /\ peersMade \in Nat /\ pcRef \in Nat /\ prompts \in Nat
  /\ rtcWanted \in BOOLEAN /\ mic \in BOOLEAN
  /\ prompts > 0 => prompted
  /\ NoPeerLeftBehind

\* The effect and its cleanup, for a player that is there and wanted, or not.
LEMMA EffectKeepsPeers ==
  ASSUME PeerInv, NEW up \in BOOLEAN, NEW withMic \in BOOLEAN, ConnectEffect(up, withMic),
         up => rtcMounted' /\ rtcWanted', rtcWanted' \in BOOLEAN, mic' \in BOOLEAN
  PROVE  PeerInv'
<1>1. CASE ~up
  <2>1. peers' = CloseRef /\ pcRef' = 0 /\ UNCHANGED <<peersMade, prompts, prompted>>
    BY <1>1 DEF ConnectEffect
  <2>2. ~prompted => CloseRef = {}
    BY DEF CloseRef, PeerInv, NoPeerLeftBehind
  <2> QED BY <2>1, <2>2 DEF PeerInv, NoPeerLeftBehind
<1>2. CASE up /\ withMic
  <2>1. pcRef' = 0 /\ peersMade' = peersMade /\ prompts' = prompts + 1 /\ prompted' = TRUE
    BY <1>2 DEF ConnectEffect
  <2> QED BY <2>1 DEF PeerInv, NoPeerLeftBehind
<1>3. CASE up /\ ~withMic
  <2>1. /\ peers' = CloseRef \cup {peersMade + 1} /\ pcRef' = peersMade + 1 /\ peersMade' = peersMade + 1
        /\ UNCHANGED <<prompts, prompted>>
    BY <1>3 DEF ConnectEffect, Connected
  <2>2. ~prompted => CloseRef = {}
    BY DEF CloseRef, PeerInv, NoPeerLeftBehind
  <2> QED BY <1>3, <2>1, <2>2 DEF PeerInv, NoPeerLeftBehind
<1> QED BY <1>1, <1>2, <1>3

LEMMA SameKeepsPeers ==
  ASSUME PeerInv, UNCHANGED <<rtcMounted, rtcWanted, mic, peers, pcRef, peersMade, prompts, prompted>>
  PROVE  PeerInv'
BY DEF PeerInv, NoPeerLeftBehind

LEMMA PeersKept ==
  ASSUME PeerInv, [FallbackNext]_fallbackVars
  PROVE  PeerInv'
<1>1. CASE UNCHANGED fallbackVars
  BY <1>1, SameKeepsPeers DEF fallbackVars
<1>2. CASE RtcMount
  BY <1>2, EffectKeepsPeers DEF RtcMount
<1>3. CASE RtcUnmount
  BY <1>3, EffectKeepsPeers DEF RtcUnmount, PeerInv
<1>4. CASE RtcProps
  <2>1. rtcWanted' \in BOOLEAN /\ mic' \in BOOLEAN /\ rtcMounted'
    BY <1>4 DEF RtcProps, PeerInv
  <2>2. ConnectEffect(rtcWanted', mic')
    BY <1>4 DEF RtcProps
  <2> QED BY <2>1, <2>2, EffectKeepsPeers
<1>5. CASE PromptAnswered
  <2>1. prompts > 0 /\ prompts' = prompts - 1 /\ prompted' = prompted
    BY <1>5 DEF PromptAnswered
  <2>2. peersMade' = peersMade + 1 /\ pcRef' = peersMade + 1
    BY <1>5 DEF PromptAnswered, Connected
  <2>3. UNCHANGED <<rtcWanted, mic>>
    BY <1>5 DEF PromptAnswered
  <2> QED BY <2>1, <2>2, <2>3 DEF PeerInv, NoPeerLeftBehind
<1>6. CASE RtcLoadedData \/ RtcLoadTimeout \/ RtcProgress \/ RtcStalled
  BY <1>6, SameKeepsPeers DEF RtcLoadedData, RtcLoadTimeout, RtcProgress, RtcStalled
<1>7. CASE JsMount \/ JsProps \/ JsUnmount \/ InitPlayer \/ OnVideoDecode
  BY <1>7, SameKeepsPeers DEF JsMount, JsProps, JsUnmount, InitPlayer, OnVideoDecode, rtcVars
<1> QED
  BY <1>1, <1>2, <1>3, <1>4, <1>5, <1>6, <1>7 DEF FallbackNext

\* A player that never asks for the microphone leaves no connection behind, however often its
\* props change and it is mounted again (WebRTCPlayer.tsx:119).
THEOREM PeersAreClosed == FallbackSpec => []NoPeerLeftBehind
<1>1. FallbackInit => PeerInv
  <2>1. SUFFICES ASSUME FallbackInit PROVE PeerInv
    OBVIOUS
  <2>2. NoPeerLeftBehind
    BY <2>1 DEF FallbackInit, NoPeerLeftBehind
  <2>3. peersMade = 0 /\ pcRef = 0 /\ prompts = 0 /\ rtcWanted \in BOOLEAN /\ mic \in BOOLEAN
    BY <2>1 DEF FallbackInit
  <2> QED BY <2>2, <2>3 DEF PeerInv
<1>2. PeerInv /\ [FallbackNext]_fallbackVars => PeerInv'
  BY PeersKept
<1>3. PeerInv => NoPeerLeftBehind
  BY DEF PeerInv
<1> QED
  BY <1>1, <1>2, <1>3, PTL DEF FallbackSpec

-----------------------------------------------------------------------------
(* The edits of an object *)

RowKeys == {"label", "plate", "desc", "plus"}
EditKeys == DetailIds \X Fields
IsRows(table) == DOMAIN table = DetailIds /\ \A o \in DetailIds : DOMAIN table[o] = RowKeys
IsObject(d) == DOMAIN d = {"id", "own", "row"} /\ d.id \in DetailIds /\ DOMAIN d.row = RowKeys
IsEdit(e) ==
  /\ DOMAIN e = {"n", "field", "text", "of", "born", "served"}
  /\ IsObject(e.of) /\ e.field \in Fields \cup {"regenerate", "plus"} /\ (e.field = "desc" => e.born > 0)

\* The field, the text dialog and the edits are of an object that is shown.
DetailShapes ==
  /\ IsRows(storedRows) /\ IsRows(listed) /\ (refetch = NoRows \/ IsRows(refetch))
  /\ DOMAIN lastEdit = EditKeys /\ detailActs \in Nat
  /\ detail = NoDetail \/ IsObject(detail)
  /\ \A e \in edits : IsEdit(e)
  /\ DOMAIN field = {"text", "from", "born"} /\ field.born \in Nat
  /\ field # NoField => field.born > 0 /\ detail # NoDetail
  /\ entry \in {"", "label", "plate"} /\ (entry # "" => detail # NoDetail)

\* The copy agrees with its row about the fields.
CopyInv == detail # NoDetail => \A f \in Fields : detail.row[f] = listed[detail.id][f]

\* A row, and what a refetch brings, are news of nothing that was answered since.
RowsInv ==
  \A o \in DetailIds, f \in Fields :
    ~Unanswered(o, f) /\ ~Described(o, f) =>
       /\ listed[o][f] \in {lastEdit[<<o, f>>], storedRows[o][f]}
       /\ refetch # NoRows => refetch[o][f] = storedRows[o][f]

DetailInv == DetailShapes /\ CopyInv /\ RowsInv

LEMMA ObjectIsNotNone == ASSUME NEW d, IsObject(d) PROVE d # NoDetail
<1>1. NoDetail.id = "" BY DEF NoDetail
<1> QED BY <1>1, SearchDetailAssumption DEF IsObject

\* The copy is made to follow the rows.
LEMMA FollowedIs ==
  ASSUME NEW table, IsRows(table), NEW d, d = NoDetail \/ IsObject(d), NEW r, r = Followed(d, table)
  PROVE  /\ d = NoDetail => r = NoDetail
         /\ d # NoDetail => IsObject(r) /\ r.id = d.id /\ r.row = table[r.id]
<1>1. CASE d = NoDetail BY <1>1 DEF Followed
<1>2. CASE d # NoDetail /\ table[d.id] # d.row
  <2>1. r = [id |-> d.id, own |-> FALSE, row |-> table[d.id]] BY <1>2 DEF Followed
  <2> QED BY <1>2, <2>1 DEF IsObject, IsRows
<1>3. CASE d # NoDetail /\ table[d.id] = d.row BY <1>3 DEF Followed, IsObject
<1> QED BY <1>1, <1>2, <1>3

LEMMA Acts == ASSUME DetailShapes PROVE detailActs \in Nat /\ detailActs + 1 \in Nat /\ detailActs + 1 > 0
<1>1. detailActs \in Nat BY Zenon DEF DetailShapes
<1> QED BY <1>1

LEMMA NewField ==
  ASSUME NEW text, NEW from, NEW n \in Nat, NEW r, r = [text |-> text, from |-> from, born |-> n]
  PROVE  DOMAIN r = {"text", "from", "born"} /\ r.born = n
OBVIOUS

LEMMA FieldIs ==
  ASSUME DetailShapes, NEW f, NEW d, NEW page, NEW r, r = FieldNow(f, d, page),
         f = NoField \/ (DOMAIN f = {"text", "from", "born"} /\ f.born \in Nat /\ f.born > 0)
  PROVE  /\ DOMAIN r = {"text", "from", "born"} /\ r.born \in Nat
         /\ r # NoField => r.born > 0 /\ d # NoDetail
<1> USE DEF NoField
<1>1. CASE d = NoDetail \/ page # "details" BY <1>1 DEF FieldNow
<1>2. CASE ~(d = NoDetail \/ page # "details") /\ f = NoField
  <2>1. PICK n \in Nat : n = detailActs + 1 /\ n > 0
    BY Acts
  <2>2. PICK text, from : r = [text |-> text, from |-> from, born |-> n]
    BY <1>2, <2>1 DEF FieldNow
  <2>3. DOMAIN r = {"text", "from", "born"} /\ r.born = n BY <2>2, NewField
  <2> QED BY <1>2, <2>1, <2>3
<1>3. CASE ~(d = NoDetail \/ page # "details") /\ f # NoField
  <2>1. r = [f EXCEPT !.text = d.row.desc, !.from = d.id] \/ r = f BY <1>3 DEF FieldNow
  <2> QED BY <1>3, <2>1
<1> QED BY <1>1, <1>2, <1>3

\* Whatever changes, the renders settle with the copy that the rows imply.
LEMMA SettleKeeps ==
  ASSUME DetailShapes, NEW d, NEW dl, NEW l, NEW table, Settle(d, dl, field, l, table),
         IsRows(table), d = NoDetail \/ IsObject(d)
  PROVE  /\ detail' = NoDetail \/ IsObject(detail')
         /\ detail' # NoDetail => detail'.row = table[detail'.id]
         /\ DOMAIN field' = {"text", "from", "born"} /\ field'.born \in Nat
         /\ field' # NoField => field'.born > 0 /\ detail' # NoDetail
         /\ entry' \in {"", "label", "plate"} /\ (entry' # "" => detail' # NoDetail)
<1>1. /\ detail' = Followed(d, table)
      /\ field' = FieldNow(field, detail', detailDialog'.page)
      /\ entry' = IF detail' = NoDetail \/ detailDialog'.page # "details" THEN "" ELSE entry
  BY DEF Settle
<1>2. /\ detail' = NoDetail \/ IsObject(detail')
      /\ detail' # NoDetail => detail'.row = table[detail'.id]
  BY <1>1, FollowedIs
<1>3. /\ DOMAIN field' = {"text", "from", "born"} /\ field'.born \in Nat
      /\ field' # NoField => field'.born > 0 /\ detail' # NoDetail
  <2>1. field = NoField \/ (DOMAIN field = {"text", "from", "born"} /\ field.born \in Nat /\ field.born > 0)
    BY DEF DetailShapes
  <2> QED BY <1>1, <2>1, FieldIs
<1> QED BY <1>1, <1>2, <1>3 DEF DetailShapes

\* What leaves rows and edits alone keeps the copy, if it settles.
LEMMA ShowKeeps ==
  ASSUME DetailInv, NEW d, NEW dl, Show(d, dl), d = NoDetail \/ IsObject(d),
         UNCHANGED <<rowVars, editVars>>, detailActs' \in Nat
  PROVE  DetailInv'
<1>1. DetailShapes /\ Settle(d, dl, field, life, listed) /\ IsRows(listed)
  BY DEF DetailInv, DetailShapes, Show
<1>2. /\ detail' = NoDetail \/ IsObject(detail')
      /\ detail' # NoDetail => detail'.row = listed[detail'.id]
      /\ DOMAIN field' = {"text", "from", "born"} /\ field'.born \in Nat
      /\ field' # NoField => field'.born > 0 /\ detail' # NoDetail
      /\ entry' \in {"", "label", "plate"} /\ (entry' # "" => detail' # NoDetail)
  BY <1>1, SettleKeeps
<1>3. UNCHANGED <<storedRows, listed, refetch, edits, sentEdits, lastEdit>>
  BY DEF rowVars, editVars
<1>4. DetailShapes' BY <1>1, <1>2, <1>3 DEF DetailShapes
<1>5. CopyInv' BY <1>2, <1>3 DEF CopyInv
<1>6. RowsInv' BY <1>3 DEF DetailInv, RowsInv, Unanswered, Described
<1> QED BY <1>4, <1>5, <1>6 DEF DetailInv

\* And so does what leaves the copy alone too.
LEMMA SameDetailKeeps ==
  ASSUME DetailInv, UNCHANGED <<rowVars, editVars, detail>>, detailActs' \in Nat,
         field' = field \/ \E w : field' = [field EXCEPT !.text = w] /\ field # NoField,
         entry' \in {"", "label", "plate"}, entry' # "" => entry # "" \/ detail # NoDetail
  PROVE  DetailInv'
<1>1. UNCHANGED <<storedRows, listed, refetch, edits, sentEdits, lastEdit>>
  BY DEF rowVars, editVars
<1>2. /\ DOMAIN field' = {"text", "from", "born"} /\ field'.born = field.born
      /\ field' # NoField => field # NoField
  BY DEF DetailInv, DetailShapes
<1>3. DetailShapes' BY <1>1, <1>2 DEF DetailInv, DetailShapes
<1>4. CopyInv' BY <1>1 DEF DetailInv, CopyInv
<1>5. RowsInv' BY <1>1 DEF DetailInv, RowsInv, Unanswered, Described
<1> QED BY <1>3, <1>4, <1>5 DEF DetailInv

LEMMA TurnKeeps ==
  ASSUME DetailInv,
         \/ \E o \in DetailIds : ArrowKey(o) \/ \E keep \in BOOLEAN : OpenObject(o, keep)
         \/ CloseDetail \/ CloseElapsed \/ TabElapsed \/ \E tab \in DetailTabs : ChooseTab(tab)
  PROVE  DetailInv'
<1>0. DetailShapes /\ detailActs \in Nat /\ detailActs + 1 \in Nat BY Acts DEF DetailInv
<1>1. ASSUME NEW o \in DetailIds PROVE IsObject(RowOf(o))
  BY <1>0 DEF RowOf, IsObject, DetailShapes, IsRows
<1>2. ASSUME NEW o \in DetailIds, ArrowKey(o) \/ \E keep \in BOOLEAN : OpenObject(o, keep) PROVE DetailInv'
  <2>1. PICK dl : Show(RowOf(o), dl) /\ UNCHANGED <<rowVars, editVars>> /\ detailActs' \in Nat
    <3>1. detailActs + 1 \in Nat BY <1>0 DEF DetailShapes
    <3>2. CASE ArrowKey(o) BY <3>1, <3>2 DEF ArrowKey, DetailAct
    <3>3. ASSUME NEW keep \in BOOLEAN, OpenObject(o, keep)
          PROVE  \E dl : Show(RowOf(o), dl) /\ UNCHANGED <<rowVars, editVars>> /\ detailActs' \in Nat
      BY <3>1, <3>3 DEF OpenObject, DetailAct
    <3> QED BY <1>2, <3>2, <3>3
  <2> QED BY <1>1, <2>1, ShowKeeps
<1>3. CASE CloseDetail
  <2>1. UNCHANGED <<rowVars, editVars, detail, field, entry>> /\ detailActs' \in Nat
    BY <1>0, <1>3 DEF CloseDetail, DetailAct
  <2> QED BY <1>0, <2>1, SameDetailKeeps DEF DetailShapes
<1>4. CASE CloseElapsed
  <2>1. PICK dl : Show(NoDetail, dl) /\ UNCHANGED <<rowVars, editVars>> /\ detailActs' \in Nat
    BY <1>0, <1>4 DEF CloseElapsed
  <2> QED BY <2>1, ShowKeeps
<1>5. CASE TabElapsed \/ \E tab \in DetailTabs : ChooseTab(tab)
  <2>1. PICK dl : Show(detail, dl) /\ UNCHANGED <<rowVars, editVars>> /\ detailActs' \in Nat
    <3>1. CASE TabElapsed BY <1>0, <3>1 DEF TabElapsed
    <3>2. CASE \E tab \in DetailTabs : ChooseTab(tab) BY <1>0, <3>2 DEF ChooseTab, DetailAct
    <3> QED BY <1>5, <3>1, <3>2
  <2> QED BY <1>0, <2>1, ShowKeeps DEF DetailShapes
<1> QED BY <1>2, <1>3, <1>4, <1>5

LEMMA FieldsKeep ==
  ASSUME DetailInv,
         \/ \E w \in Words : TypeDescription(w)
         \/ CancelEntry \/ \E f \in {"label", "plate"} : OpenEntry(f)
         \/ StepsArrive \/ NextStep \/ PreviousStep \/ PlainPoint
         \/ \E i \in 0..3 : ChooseStep(i)
         \/ \E v \in 0..1 : ApplyOffset(v) \/ SaveOffset(v)
         \/ UNCHANGED detailVars
  PROVE  DetailInv'
<1>0. DetailShapes /\ detailActs \in Nat /\ detailActs + 1 \in Nat BY Acts DEF DetailInv
<1>1. CASE \E w \in Words : TypeDescription(w)
  <2>1. /\ UNCHANGED <<rowVars, editVars, detail, entry>> /\ detailActs' \in Nat
        /\ \E w : field' = [field EXCEPT !.text = w] /\ field # NoField
    BY <1>0, <1>1 DEF TypeDescription, OnDetails, DetailAct
  <2> QED BY <1>0, <2>1, SameDetailKeeps DEF DetailShapes
<1>2. CASE CancelEntry \/ \E f \in {"label", "plate"} : OpenEntry(f)
  <2>1. /\ UNCHANGED <<rowVars, editVars, detail, field>> /\ detailActs' \in Nat
        /\ entry' \in {"", "label", "plate"} /\ (entry' # "" => field # NoField)
    BY <1>0, <1>2 DEF CancelEntry, OpenEntry, OnDetails, DetailAct
  <2> QED BY <1>0, <2>1, SameDetailKeeps DEF DetailShapes
<1>3. CASE \/ StepsArrive \/ NextStep \/ PreviousStep \/ PlainPoint
           \/ \E i \in 0..3 : ChooseStep(i)
           \/ \E v \in 0..1 : ApplyOffset(v) \/ SaveOffset(v)
           \/ UNCHANGED detailVars
  <2>1. UNCHANGED <<rowVars, editVars, detail, field, entry>> /\ detailActs' \in Nat
    BY <1>0, <1>3 DEF StepsArrive, NextStep, PreviousStep, PlainPoint, ChooseStep, ApplyOffset, SaveOffset,
       GoToStep, LifeAct, DetailAct, detailVars, shownVars
  <2> QED BY <1>0, <2>1, SameDetailKeeps DEF DetailShapes
<1> QED BY <1>1, <1>2, <1>3

\* A request that is made: it is of the object that is shown.
LEMMA AskKeeps ==
  ASSUME DetailInv, SaveDescription \/ RegenerateDescription \/ \E w \in Words : SaveEntry(w)
  PROVE  DetailInv'
<1>0. DetailShapes /\ detailActs \in Nat /\ detailActs + 1 \in Nat BY Acts DEF DetailInv
<1>1. PICK f, w :
        f \in Fields \cup {"regenerate"} /\ AskEdit(f, w) /\ UNCHANGED entry /\ detailActs' \in Nat /\ detail # NoDetail
        /\ (f = "desc" => field.born > 0)
  <2>1. CASE SaveDescription
    <3>1. AskEdit("desc", field.text) /\ UNCHANGED entry /\ detailActs' \in Nat /\ field # NoField
      BY <1>0, <2>1 DEF SaveDescription, OnDetails, DetailAct
    <3> QED BY <1>0, <3>1 DEF DetailShapes, Fields
  <2>2. CASE RegenerateDescription
    <3>1. AskEdit("regenerate", "ai") /\ UNCHANGED entry /\ detailActs' \in Nat /\ field # NoField
      BY <1>0, <2>2 DEF RegenerateDescription, OnDetails, DetailAct
    <3> QED BY <1>0, <3>1 DEF DetailShapes
  <2>3. ASSUME NEW w \in Words, SaveEntry(w)
        PROVE  \E f, x :
                 f \in Fields \cup {"regenerate"} /\ AskEdit(f, x) /\ UNCHANGED entry /\ detailActs' \in Nat /\ detail # NoDetail
                 /\ (f = "desc" => field.born > 0)
    <3>1. AskEdit(entry, w) /\ UNCHANGED entry /\ detailActs' \in Nat /\ entry # ""
      BY <1>0, <2>3 DEF SaveEntry, DetailAct
    <3>2. entry \in Fields /\ entry # "desc" /\ detail # NoDetail
      BY <1>0, <3>1 DEF DetailShapes, Fields
    <3> QED BY <3>1, <3>2
  <2> QED BY <2>1, <2>2, <2>3
<1>2. /\ edits' = edits \cup {[n |-> sentEdits + 1, field |-> f, text |-> w, of |-> detail,
                               born |-> field.born, served |-> FALSE]}
      /\ UNCHANGED <<storedRows, listed, refetch, lastEdit, detail, field, entry>>
  BY <1>1 DEF AskEdit, rowVars
<1>3. IsEdit([n |-> sentEdits + 1, field |-> f, text |-> w, of |-> detail,
              born |-> field.born, served |-> FALSE])
  BY <1>0, <1>1 DEF IsEdit, DetailShapes
<1>4. DetailShapes' BY <1>0, <1>1, <1>2, <1>3 DEF DetailShapes
<1>5. CopyInv' BY <1>2 DEF DetailInv, CopyInv
<1>6. RowsInv' BY <1>2 DEF DetailInv, RowsInv, Unanswered, Described
<1> QED BY <1>4, <1>5, <1>6 DEF DetailInv

\* "Submitted" is none of the fields.
LEMMA SubmitKeeps == ASSUME DetailInv, SubmitToPlus PROVE DetailInv'
<1>0. DetailShapes /\ IsObject(detail) /\ detailActs \in Nat /\ detailActs + 1 \in Nat
  <2>1. DetailShapes /\ detail # NoDetail BY DEF DetailInv, SubmitToPlus
  <2> QED BY <2>1, Acts DEF DetailShapes
<1> DEFINE new == [n |-> sentEdits + 1, field |-> "plus", text |-> "", of |-> detail, born |-> 0, served |-> FALSE]
<1>1. /\ edits' = edits \cup {new}
      /\ UNCHANGED <<storedRows, refetch, lastEdit, field, entry>> /\ detailActs' \in Nat
      /\ detail' = [detail EXCEPT !.row.plus = TRUE]
      /\ listed' = listed \/ listed' = [listed EXCEPT ![detail.id].plus = TRUE]
  BY <1>0 DEF SubmitToPlus, DetailAct
<1>2. IsEdit(new) /\ new.served = FALSE
  BY <1>0 DEF IsEdit
<1> HIDE DEF new
<1>3. /\ IsObject(detail') /\ detail'.id = detail.id
      /\ \A f \in Fields : detail'.row[f] = detail.row[f]
  BY <1>0, <1>1 DEF IsObject, RowKeys, Fields
<1>4. /\ IsRows(listed')
      /\ \A o \in DetailIds, f \in Fields : listed'[o][f] = listed[o][f]
  <2>1. CASE listed' = listed BY <1>0, <2>1 DEF DetailShapes
  <2>2. CASE listed' = [listed EXCEPT ![detail.id] = [@ EXCEPT !.plus = TRUE]]
    <3>1. DOMAIN listed' = DOMAIN listed /\ \A o \in DetailIds \ {detail.id} : listed'[o] = listed[o]
      BY <1>0, <2>2 DEF DetailShapes, IsRows
    <3>2. listed'[detail.id] = [listed[detail.id] EXCEPT !.plus = TRUE] /\ DOMAIN listed[detail.id] = RowKeys
      BY <1>0, <2>2 DEF DetailShapes, IsRows, IsObject
    <3>3. DOMAIN listed'[detail.id] = RowKeys /\ \A f \in Fields : listed'[detail.id][f] = listed[detail.id][f]
      BY <3>2 DEF RowKeys, Fields
    <3> QED BY <1>0, <3>1, <3>3 DEF DetailShapes, IsRows
  <2> QED BY <1>1, <2>1, <2>2
<1>5. detail' # NoDetail /\ detail # NoDetail
  BY <1>0, <1>3, ObjectIsNotNone
<1>6. DetailShapes' BY <1>0, <1>1, <1>2, <1>3, <1>4, <1>5 DEF DetailShapes
<1>7. CopyInv' BY <1>0, <1>3, <1>4, <1>5 DEF DetailInv, CopyInv, IsObject
<1>8. RowsInv'
  <2>1. \A o, f : Unanswered(o, f)' <=> Unanswered(o, f)
    BY <1>1, <1>2 DEF Unanswered
  <2>2. \A o, f : Described(o, f)' <=> Described(o, f)
    BY <1>1 DEF Described
  <2> QED BY <1>1, <1>4, <2>1, <2>2 DEF DetailInv, RowsInv
<1> QED BY <1>6, <1>7, <1>8 DEF DetailInv

\* The server writes one field of one row, and has an answer to give.
LEMMA ServeKeeps == ASSUME DetailInv, NEW e \in edits, Serve(e) PROVE DetailInv'
<1>0. DetailShapes /\ IsEdit(e) /\ ~e.served
  BY DEF DetailInv, DetailShapes, Serve
<1> DEFINE done == [e EXCEPT !.served = TRUE]
<1>1. /\ edits' = (edits \ {e}) \cup {done}
      /\ UNCHANGED <<listed, refetch, lastEdit, detail, field, entry, detailActs>>
  BY DEF Serve, shownVars
<1>2. IsEdit(done) /\ done.served = TRUE /\ done.of.id = e.of.id /\ done.field = e.field /\ e.of.id \in DetailIds
  BY <1>0 DEF IsEdit, IsObject
<1> HIDE DEF done
<1>3. IsRows(storedRows')
  BY <1>0 DEF Serve, DetailShapes, IsRows
<1>4. ASSUME NEW o \in DetailIds, NEW f \in Fields,
             storedRows'[o][f] # storedRows[o][f]
      PROVE  Unanswered(o, f)' \/ Described(o, f)'
  <2>1. CASE e.field \in Fields
    <3>0. o \in DOMAIN storedRows /\ f \in DOMAIN storedRows[o]
      BY <1>0 DEF DetailShapes, IsRows, RowKeys, Fields
    <3>1. storedRows' = [storedRows EXCEPT ![e.of.id] = [@ EXCEPT ![e.field] = e.text]]
      BY <2>1 DEF Serve, Fields
    <3>2. o = e.of.id /\ f = e.field
      BY <1>4, <3>0, <3>1
    <3> QED BY <1>1, <1>2, <3>2 DEF Unanswered
  <2>2. CASE e.field = "plus"
    <3>0. o \in DOMAIN storedRows /\ f \in DOMAIN storedRows[o] /\ f # "plus"
      BY <1>0 DEF DetailShapes, IsRows, RowKeys, Fields
    <3>1. storedRows' = [storedRows EXCEPT ![e.of.id] = [@ EXCEPT !["plus"] = TRUE]]
      BY <2>2 DEF Serve
    <3> QED BY <1>4, <3>0, <3>1
  <2>3. CASE e.field = "regenerate"
    <3>1. storedRows' = [storedRows EXCEPT ![e.of.id].desc = "ai"]
      BY <2>3 DEF Serve
    <3> QED BY <1>0, <1>2, <1>4, <3>1 DEF DetailShapes, IsRows, Fields, Described, RowKeys
  <2> QED BY <1>0, <2>1, <2>2, <2>3 DEF IsEdit
<1>5. ASSUME NEW o \in DetailIds, NEW f \in Fields, ~Unanswered(o, f)', ~Described(o, f)'
      PROVE  ~Unanswered(o, f) /\ ~Described(o, f)
  <2>1. ~Unanswered(o, f)
    BY <1>0, <1>1, <1>5 DEF Unanswered
  <2>2. storedRows'[o][f] = storedRows[o][f]
    BY <1>4, <1>5
  <2> QED BY <1>5, <2>1, <2>2 DEF Described
<1>6. DetailShapes' BY <1>0, <1>1, <1>2, <1>3 DEF DetailShapes
<1>7. CopyInv' BY <1>1 DEF DetailInv, CopyInv
<1>8. RowsInv'
  <2> SUFFICES ASSUME NEW o \in DetailIds, NEW f \in Fields, ~Unanswered(o, f)', ~Described(o, f)'
               PROVE  /\ listed'[o][f] \in {lastEdit'[<<o, f>>], storedRows'[o][f]}
                      /\ refetch' # NoRows => refetch'[o][f] = storedRows'[o][f]
    BY DEF RowsInv
  <2>1. storedRows'[o][f] = storedRows[o][f] /\ ~Unanswered(o, f) /\ ~Described(o, f)
    BY <1>4, <1>5
  <2> QED BY <1>1, <2>1 DEF DetailInv, RowsInv
<1> QED BY <1>6, <1>7, <1>8 DEF DetailInv

\* An answer is shown in the row, drops what was read before, and is the last one.
LEMMA AnswerKeeps == ASSUME DetailInv, NEW e \in edits, Answer(e) PROVE DetailInv'
<1>0. DetailShapes /\ IsEdit(e) /\ e.field \in Fields /\ e.of.id \in DetailIds
  BY DEF DetailInv, DetailShapes, Answer, IsEdit, IsObject
<1> DEFINE again == [id |-> e.of.id, own |-> TRUE, row |-> [e.of.row EXCEPT ![e.field] = e.text]]
<1>1. /\ edits' = edits \ {e} /\ listed' = [listed EXCEPT ![e.of.id][e.field] = e.text] /\ refetch' = NoRows
      /\ lastEdit' = [lastEdit EXCEPT ![<<e.of.id, e.field>>] = e.text]
      /\ UNCHANGED <<storedRows, detailActs>>
  BY DEF Answer, Updated
<1>2. /\ IsRows(listed') /\ listed'[e.of.id][e.field] = e.text
      /\ \A o \in DetailIds, f \in Fields : <<o, f>> # <<e.of.id, e.field>> => listed'[o][f] = listed[o][f]
  BY <1>0, <1>1 DEF DetailShapes, IsRows, RowKeys, Fields
<1>3. IsObject(again) /\ again # NoDetail
  BY <1>0, ObjectIsNotNone DEF IsEdit, IsObject
<1>4. /\ detail' = NoDetail \/ IsObject(detail')
      /\ detail' # NoDetail => detail'.row = listed'[detail'.id]
      /\ DOMAIN field' = {"text", "from", "born"} /\ field'.born \in Nat
      /\ field' # NoField => field'.born > 0 /\ detail' # NoDetail
      /\ entry' \in {"", "label", "plate"} /\ (entry' # "" => detail' # NoDetail)
  <2>1. CASE e.field = "desc"
    <3>1. Settle(detail, detailDialog, field, life, listed') BY <2>1 DEF Answer
    <3> QED BY <1>0, <1>2, <3>1, SettleKeeps DEF DetailShapes
  <2>2. CASE e.field # "desc"
    <3>1. /\ detail' = Followed(again, listed')
          /\ field' = FieldNow(field, detail', detailDialog'.page)
          /\ entry' = "" \/ entry' = entry
      BY <2>2 DEF Answer
    <3> HIDE DEF again
    <3>2. IsObject(detail') /\ detail'.row = listed'[detail'.id]
      BY <1>2, <1>3, <3>1, FollowedIs
    <3>3. detail' # NoDetail
      BY <3>2, ObjectIsNotNone
    <3>4. /\ DOMAIN field' = {"text", "from", "born"} /\ field'.born \in Nat
          /\ field' # NoField => field'.born > 0 /\ detail' # NoDetail
      <4>1. field = NoField \/ (DOMAIN field = {"text", "from", "born"} /\ field.born \in Nat /\ field.born > 0)
        BY <1>0 DEF DetailShapes
      <4> QED BY <1>0, <3>1, <4>1, FieldIs
    <3> QED BY <1>0, <3>1, <3>2, <3>3, <3>4 DEF DetailShapes
  <2> QED BY <2>1, <2>2
<1>5. DetailShapes'
  <2>1. DOMAIN lastEdit' = DOMAIN lastEdit
    BY <1>1
  <2> QED BY <1>0, <1>1, <1>2, <1>4, <2>1 DEF DetailShapes
<1>6. CopyInv' BY <1>4 DEF CopyInv
<1>7. RowsInv'
  <2> SUFFICES ASSUME NEW o \in DetailIds, NEW f \in Fields, ~Unanswered(o, f)', ~Described(o, f)'
               PROVE  listed'[o][f] \in {lastEdit'[<<o, f>>], storedRows'[o][f]}
    BY <1>1 DEF RowsInv
  <2>1. CASE o = e.of.id /\ f = e.field
    <3>1. lastEdit'[<<o, f>>] = e.text
      BY <1>0, <1>1, <2>1 DEF DetailShapes, EditKeys
    <3> QED BY <1>2, <2>1, <3>1
  <2>2. CASE ~(o = e.of.id /\ f = e.field)
    <3>1. <<o, f>> # <<e.of.id, e.field>> BY <2>2
    <3>2. lastEdit'[<<o, f>>] = lastEdit[<<o, f>>] /\ listed'[o][f] = listed[o][f]
      BY <1>0, <1>1, <1>2, <3>1 DEF DetailShapes, EditKeys
    <3>3. ~Unanswered(o, f) /\ ~Described(o, f)
      BY <1>1, <2>2 DEF Unanswered, Described
    <3> QED BY <1>1, <3>2, <3>3 DEF DetailInv, RowsInv
  <2> QED BY <2>1, <2>2
<1> QED BY <1>5, <1>6, <1>7 DEF DetailInv

LEMMA OtherAnswersKeep == ASSUME DetailInv, NEW e \in edits, AnswerOther(e) \/ Fail(e) PROVE DetailInv'
<1>0. DetailShapes /\ IsEdit(e)
  BY DEF DetailInv, DetailShapes
<1>1. /\ edits' = edits \ {e}
      /\ UNCHANGED <<storedRows, listed, refetch, lastEdit, detail, entry, detailActs>>
  BY DEF AnswerOther, Fail, rowVars, shownVars
<1>2. /\ DOMAIN field' = {"text", "from", "born"} /\ field'.born = field.born
      /\ field' # NoField => field # NoField
  <2>1. CASE field' = field BY <1>0, <2>1 DEF DetailShapes
  <2>2. CASE field' # field
    <3>1. /\ field' = [field EXCEPT !.text = e.of.row.desc, !.from = e.of.id]
          /\ e.field = "desc" /\ field.born = e.born
      BY <2>2 DEF AnswerOther, Fail, shownVars
    <3>2. field.born > 0
      BY <1>0, <3>1 DEF IsEdit
    <3>3. field # NoField
      <4>1. NoField.born = 0 BY DEF NoField
      <4> QED BY <3>2, <4>1
    <3> QED BY <1>0, <3>1, <3>3 DEF DetailShapes
  <2> QED BY <2>1, <2>2
<1>3. DetailShapes' BY <1>0, <1>1, <1>2 DEF DetailShapes
<1>4. CopyInv' BY <1>1 DEF DetailInv, CopyInv
<1>5. \A o \in DetailIds, f \in Fields : Unanswered(o, f)' <=> Unanswered(o, f)
  BY <1>0, <1>1 DEF AnswerOther, Fail, Unanswered
<1>6. RowsInv' BY <1>1, <1>5 DEF DetailInv, RowsInv, Described
<1> QED BY <1>3, <1>4, <1>6 DEF DetailInv

LEMMA ReadAgainKeeps == ASSUME DetailInv, Revalidate \/ RowsRevalidated PROVE DetailInv'
<1>0. DetailShapes /\ detailActs \in Nat /\ detailActs + 1 \in Nat BY Acts DEF DetailInv
<1>1. CASE Revalidate
  <2>1. /\ refetch' = storedRows
        /\ UNCHANGED <<storedRows, listed, edits, sentEdits, lastEdit, detail, field, entry, detailActs>>
    BY <1>1 DEF Revalidate, editVars, shownVars
  <2>2. DetailShapes' BY <1>0, <2>1 DEF DetailShapes
  <2>3. CopyInv' BY <2>1 DEF DetailInv, CopyInv
  <2>4. RowsInv' BY <2>1 DEF DetailInv, RowsInv, Unanswered, Described
  <2> QED BY <2>2, <2>3, <2>4 DEF DetailInv
<1>2. CASE RowsRevalidated
  <2>1. /\ refetch # NoRows /\ listed' = refetch /\ refetch' = NoRows
        /\ UNCHANGED <<storedRows, edits, sentEdits, lastEdit, detailActs>>
        /\ Settle(detail, detailDialog, field, life, refetch)
    BY <1>2 DEF RowsRevalidated, editVars
  <2>2. IsRows(refetch)
    BY <1>0, <2>1 DEF DetailShapes
  <2>3. /\ detail' = NoDetail \/ IsObject(detail')
        /\ detail' # NoDetail => detail'.row = refetch[detail'.id]
        /\ DOMAIN field' = {"text", "from", "born"} /\ field'.born \in Nat
        /\ field' # NoField => field'.born > 0 /\ detail' # NoDetail
        /\ entry' \in {"", "label", "plate"} /\ (entry' # "" => detail' # NoDetail)
    BY <1>0, <2>1, <2>2, SettleKeeps DEF DetailShapes
  <2>4. DetailShapes' BY <1>0, <2>1, <2>2, <2>3 DEF DetailShapes
  <2>5. CopyInv' BY <2>1, <2>3 DEF CopyInv
  <2>6. RowsInv' BY <2>1 DEF DetailInv, RowsInv, Unanswered, Described
  <2> QED BY <2>4, <2>5, <2>6 DEF DetailInv
<1> QED BY <1>1, <1>2

LEMMA NewRow ==
  ASSUME NEW row, row = [label |-> "", plate |-> "", desc |-> "", plus |-> FALSE]
  PROVE  DOMAIN row = RowKeys /\ \A f \in Fields : row[f] = ""
<1>1. row.label = "" /\ row.plate = "" /\ row.desc = "" OBVIOUS
<1> QED BY <1>1 DEF RowKeys, Fields

LEMMA DetailStarts == DetailInit => DetailInv
<1> SUFFICES ASSUME DetailInit PROVE DetailInv
  OBVIOUS
<1>1. /\ IsRows(storedRows) /\ listed = storedRows /\ refetch = NoRows /\ detail = NoDetail
      /\ field = NoField /\ entry = "" /\ edits = {} /\ detailActs = 0
      /\ \A o \in DetailIds, f \in Fields : storedRows[o][f] = ""
  <2>1. storedRows = [o \in DetailIds |-> [label |-> "", plate |-> "", desc |-> "", plus |-> FALSE]]
    BY DEF DetailInit
  <2>2. IsRows(storedRows)
    BY <2>1 DEF IsRows, RowKeys
  <2>3. ASSUME NEW o \in DetailIds, NEW f \in Fields PROVE storedRows[o][f] = ""
    <3>1. storedRows[o] = [label |-> "", plate |-> "", desc |-> "", plus |-> FALSE]
      BY <2>1
    <3> QED BY <3>1, NewRow
  <2> QED BY <2>2, <2>3 DEF DetailInit
<1>2. /\ DOMAIN lastEdit = EditKeys
      /\ DOMAIN field = {"text", "from", "born"} /\ field.born = 0
  BY DEF DetailInit, NoField, EditKeys
<1>3. 0 \in Nat OBVIOUS
<1>4. DetailShapes BY <1>1, <1>2, <1>3, Zenon DEF DetailShapes
<1> QED BY <1>1, <1>4 DEF DetailInv, CopyInv, RowsInv

\* Edits of an object are answered in any order, also when another object is shown, the list
\* is read again at any time, and yet no edit is undone by the answer of another one or by a
\* list that was read before it (SearchDetailDialog.tsx): for any objects, words and number of
\* requests.
THEOREM NoEditIsUndone == PagesSpec => []EditsAreShown
<1>1. DetailInv /\ [DetailNext]_detailVars => DetailInv'
  BY TurnKeeps, FieldsKeep, AskKeeps, SubmitKeeps, ServeKeeps, AnswerKeeps, OtherAnswersKeep, ReadAgainKeeps
     DEF DetailNext
<1>2. DetailInv => EditsAreShown
  <2> SUFFICES ASSUME DetailInv, detail # NoDetail, NEW f \in Fields,
                      ~Unanswered(detail.id, f), ~Described(detail.id, f)
               PROVE  detail.row[f] \in {lastEdit[<<detail.id, f>>], storedRows[detail.id][f]}
    BY DEF EditsAreShown
  <2>1. detail.id \in DetailIds
    BY DEF DetailInv, DetailShapes, IsObject
  <2>2. detail.row[f] = listed[detail.id][f]
    BY DEF DetailInv, CopyInv
  <2> QED BY <2>1, <2>2 DEF DetailInv, RowsInv
<1> QED
  BY DetailStarts, <1>1, <1>2, PagesImplement, PTL DEF DetailSpec
-----------------------------------------------------------------------------
(* The settings *)

\* A form that remembers its camera.
IsForm(f) == "madeFor" \in DOMAIN f

\* While a tab about one camera is shown, its form was made for the camera that is selected.
FormInv ==
  /\ IsForm(fields)
  /\ settingsPage \in CameraTabs => fields.madeFor = selectedCamera
  /\ SavesAreForTheirCamera

LEMMA FilledIsForm ==
  ASSUME NEW t, NEW c
  PROVE  /\ IsForm(FieldsOf(t, c))
         /\ t \in CameraTabs => FieldsOf(t, c).madeFor = c
<1>1. IsForm(EmptyFields)
  BY DEF EmptyFields, IsForm
<1>2. IsForm(ReviewFields(c)) /\ ReviewFields(c).madeFor = c
  BY DEF ReviewFields, EmptyFields, IsForm
<1>3. IsForm(MotionFields(c)) /\ MotionFields(c).madeFor = c
  BY DEF MotionFields, EmptyFields, IsForm
<1>4. IsForm(ModeFields(t))
  BY DEF ModeFields, EmptyFields, IsForm
<1>5. IsForm(NotifyFields)
  BY DEF NotifyFields, EmptyFields, IsForm
<1>6. CASE t = "cameras"
  <2>1. FieldsOf(t, c) = ReviewFields(c)
    BY <1>6 DEF FieldsOf, PlainTabs
  <2> QED BY <1>2, <2>1
<1>7. CASE t = "motionTuner"
  <2>1. FieldsOf(t, c) = MotionFields(c)
    BY <1>7 DEF FieldsOf, PlainTabs
  <2> QED BY <1>3, <2>1
<1>8. CASE t \notin CameraTabs
  <2>1. FieldsOf(t, c) \in {ModeFields(t), NotifyFields, EmptyFields}
    BY <1>8 DEF FieldsOf, CameraTabs, PlainTabs
  <2> QED BY <1>1, <1>4, <1>5, <1>8, <2>1
<1> QED BY <1>6, <1>7, <1>8 DEF CameraTabs
\* The parts of FormInv that each action touches.
LEMMA ShowKeepsForm ==
  ASSUME FormInv, NEW c, ShowCamera(c), UNCHANGED <<settingsPage, requests>>
  PROVE  FormInv'
<1>1. CASE settingsPage \in CameraTabs
  <2>1. fields' = FieldsOf(settingsPage, c) /\ selectedCamera' = c
    BY <1>1 DEF ShowCamera, FieldsForCamera
  <2> QED BY <2>1, FilledIsForm DEF FormInv, SavesAreForTheirCamera
<1>2. CASE settingsPage \notin CameraTabs
  <2>1. fields' = fields
    BY <1>2 DEF ShowCamera, FieldsForCamera
  <2> QED BY <1>2, <2>1 DEF FormInv, SavesAreForTheirCamera
<1> QED BY <1>1, <1>2

LEMMA EditKeepsForm ==
  ASSUME FormInv, IsForm(fields'), fields'.madeFor = fields.madeFor,
         UNCHANGED <<settingsPage, selectedCamera, requests>>
  PROVE  FormInv'
BY DEF FormInv, SavesAreForTheirCamera

LEMMA SameKeepsForm ==
  ASSUME FormInv, UNCHANGED <<settingsPage, selectedCamera, fields>>, requests' \subseteq requests
  PROVE  FormInv'
BY DEF FormInv, SavesAreForTheirCamera

LEMMA FormKept ==
  ASSUME FormInv, [SettingsNext]_settingsVars
  PROVE  FormInv'
<1>1. CASE UNCHANGED settingsVars
  BY <1>1, SameKeepsForm DEF settingsVars
<1>2. ASSUME NEW t \in Tabs, SelectTab(t)
      PROVE  FormInv'
  <2>1. settingsPage' = t /\ fields' = FieldsOf(t, selectedCamera') /\ requests' = requests
    BY <1>2 DEF SelectTab
  <2>2. IsForm(fields') /\ (t \in CameraTabs => fields'.madeFor = selectedCamera')
    BY <2>1, FilledIsForm
  <2> QED BY <2>1, <2>2 DEF FormInv, SavesAreForTheirCamera
<1>3. ASSUME NEW c \in TabCameras, SelectCamera(c)
      PROVE  FormInv'
  BY <1>3, ShowKeepsForm DEF SelectCamera
<1>4. ASSUME NEW c \in TabCameras, ToggleCamera(c)
      PROVE  FormInv'
  <2>1. UNCHANGED <<settingsPage, requests>>
    BY <1>4 DEF ToggleCamera
  <2>2. CASE Shown(settingsPage, selectedCamera, enabled') # selectedCamera
    BY <1>4, <2>1, <2>2, ShowKeepsForm DEF ToggleCamera
  <2>3. CASE Shown(settingsPage, selectedCamera, enabled') = selectedCamera
    BY <1>4, <2>1, <2>3, SameKeepsForm DEF ToggleCamera
  <2> QED BY <2>2, <2>3
<1>5. CASE EditFields
  <2>1. UNCHANGED <<settingsPage, selectedCamera, requests>>
    BY <1>5 DEF EditFields
  <2>2. ASSUME NEW v, ChooseMotion(v)
        PROVE  IsForm(fields') /\ fields'.madeFor = fields.madeFor
    BY <2>2 DEF ChooseMotion, FormInv, IsForm
  <2>3. ASSUME ChooseZones
        PROVE  IsForm(fields') /\ fields'.madeFor = fields.madeFor
    BY <2>3 DEF ChooseZones, FormInv, IsForm
  <2>4. ASSUME ChooseMode
        PROVE  IsForm(fields') /\ fields'.madeFor = fields.madeFor
    BY <2>4 DEF ChooseMode, FormInv, IsForm
  <2>5. ASSUME ChooseNotify
        PROVE  IsForm(fields') /\ fields'.madeFor = fields.madeFor
    BY <2>5 DEF ChooseNotify, ChooseAll, ChooseCamera, FormInv, IsForm
  <2>6. IsForm(fields') /\ fields'.madeFor = fields.madeFor
    BY <1>5, <2>2, <2>3, <2>4, <2>5 DEF EditFields
  <2> QED BY <2>1, <2>6, EditKeepsForm
<1>6. CASE OnCancel
  <2>1. UNCHANGED <<settingsPage, selectedCamera, requests>>
    BY <1>6 DEF OnCancel
  <2>2. CASE fields' = FieldsOf(settingsPage, selectedCamera)
    <3>1. IsForm(fields') /\ (settingsPage \in CameraTabs => fields'.madeFor = selectedCamera)
      BY <2>2, FilledIsForm
    <3> QED BY <2>1, <3>1 DEF FormInv, SavesAreForTheirCamera
  <2>3. CASE \/ fields' = [fields EXCEPT !.motion = fields.wasMotion]
             \/ fields' = [fields EXCEPT !.mode = fields.wasMode]
    <3>1. IsForm(fields') /\ fields'.madeFor = fields.madeFor
      BY <2>3 DEF FormInv, IsForm
    <3> QED BY <2>1, <3>1, EditKeepsForm
  <2> QED BY <1>6, <2>2, <2>3 DEF OnCancel
<1>7. CASE SaveToConfig
  <2> DEFINE sent == [tab |-> settingsPage, camera |-> selectedCamera, fields |-> fields, before |-> known, visit |-> visit]
  <2>1. requests' = requests \cup {sent} /\ UNCHANGED <<settingsPage, selectedCamera, fields>>
    BY <1>7 DEF SaveToConfig
  <2>2. sent.tab = settingsPage /\ sent.camera = selectedCamera /\ sent.fields = fields
    OBVIOUS
  <2> HIDE DEF sent
  <2> QED BY <2>1, <2>2 DEF FormInv, SavesAreForTheirCamera
<1>8. ASSUME NEW r \in requests, SaveAnswered(r)
      PROVE  FormInv'
  BY <1>8, SameKeepsForm DEF SaveAnswered
<1>9. CASE ConfigGiven
  <2>1. UNCHANGED <<settingsPage, selectedCamera, requests>>
    BY <1>9 DEF ConfigGiven
  <2>2. IsForm(fields') /\ fields'.madeFor = fields.madeFor
    BY <1>9 DEF ConfigGiven, FormInv, IsForm
  <2> QED BY <2>1, <2>2, EditKeepsForm
<1>10. ASSUME NEW kind, NEW u, OpenAccountDialog(kind, u)
       PROVE  FormInv'
  BY <1>10, SameKeepsForm DEF OpenAccountDialog
<1>11. CASE CancelAccountDialog \/ SubmitAccountDialog \/ RegisterDevice \/ DeviceAnswered
  BY <1>11, SameKeepsForm DEF CancelAccountDialog, SubmitAccountDialog, RegisterDevice, DeviceAnswered
<1>12. ASSUME NEW r, AccountServed(r) \/ AccountAnswered(r) \/ AccountFailed(r)
       PROVE  FormInv'
  BY <1>12, SameKeepsForm DEF AccountServed, AccountAnswered, AccountFailed
<1> QED
  BY <1>1, <1>2, <1>3, <1>4, <1>5, <1>6, <1>7, <1>8, <1>9, <1>10, <1>11, <1>12 DEF SettingsNext

\* The settings of one camera are never saved under another's name: the form is filled anew
\* whenever the tab or the camera changes, by the user or because the camera that was
\* selected was disabled (CameraSettingsView.tsx:224).
THEOREM SavedForTheirCamera == SettingsSpec => []SavesAreForTheirCamera
<1>1. SettingsInit => FormInv
  BY DEF SettingsInit, FormInv, SavesAreForTheirCamera, EmptyFields, IsForm, CameraTabs
<1>2. FormInv /\ [SettingsNext]_settingsVars => FormInv'
  BY FormKept
<1>3. FormInv => SavesAreForTheirCamera
  BY DEF FormInv
<1> QED
  BY <1>1, <1>2, <1>3, PTL DEF SettingsSpec

-----------------------------------------------------------------------------
(* The face library *)

Had(dirs) == \A n \in FaceDirs : n \in DOMAIN dirs => dirs[n] \subseteq belonged[n]
Shelf == [toggle : FaceDirs, page : FaceDirs, later : FaceDirs \cup {""}]

KnownInv ==
  /\ belonged \in [FaceDirs -> SUBSET UNION {belonged[n] : n \in FaceDirs}]
  /\ Had(faces) /\ Had(faceData.dirs)
PageInv ==
  /\ {"dirs", "stale"} \subseteq DOMAIN faceData
  /\ library \in Shelf
  /\ pickedFaces \subseteq belonged[library.toggle]
\* The dialogs hold what was picked when they were opened.
DialogInv ==
  /\ {"deletion", "face"} \subseteq DOMAIN faceDialogs
  /\ faceDialogs.face \in FaceDirs \cup {""}
  /\ faceDialogs.deletion # NoDeletion =>
       faceDialogs.deletion.name \in FaceDirs /\ faceDialogs.deletion.ids \subseteq belonged[faceDialogs.deletion.name]
AskInv ==
  \A r \in faceAsks :
    /\ {"kind", "name", "ids", "served"} \subseteq DOMAIN r
    /\ r.kind = "delete" => r.name \in FaceDirs /\ r.ids \subseteq belonged[r.name]
LibraryInv == KnownInv /\ PageInv /\ DialogInv /\ AskInv

LEMMA ListedWereHad ==
  ASSUME LibraryInv, NEW n \in FaceDirs
  PROVE  ListedFaces(n) \subseteq belonged[n]
BY DEF LibraryInv, KnownInv, Had, ListedFaces

LEMMA ToPageKept ==
  ASSUME LibraryInv, NEW n \in FaceDirs, ToPage(n), UNCHANGED <<belonged>>
  PROVE  library' \in Shelf /\ pickedFaces' \subseteq belonged'[library'.toggle]
<1>1. library' \in Shelf /\ library'.toggle = n
  BY DEF ToPage, LibraryInv, PageInv, Shelf
<1> QED BY <1>1 DEF ToPage, Left, LibraryInv, PageInv

\* Another dialog, with what it is about.
LEMMA DialogsKept ==
  ASSUME LibraryInv, UNCHANGED <<faceDataVars, faceData, library, pickedFaces, faceAsks>>, DialogInv'
  PROVE  LibraryInv'
BY DEF LibraryInv, KnownInv, Had, PageInv, AskInv, faceDataVars

\* A request that is made, with what it deletes.
LEMMA AsksKept ==
  ASSUME LibraryInv, NEW kind, NEW n, NEW ids, NEW to, PostFaces(kind, n, ids, to), UNCHANGED belonged,
         kind = "delete" => n \in FaceDirs /\ ids \subseteq belonged[n]
  PROVE  AskInv'
<1> DEFINE ask == [n |-> faceSent + 1, kind |-> kind, name |-> n, ids |-> ids, to |-> to,
        shown |-> IF library.toggle \in DOMAIN faceData.dirs THEN Cardinality(ListedFaces(library.toggle)) ELSE -1,
        served |-> "no"]
<1>1. faceAsks' = faceAsks \cup {ask}
  BY DEF PostFaces
<1>2. {"kind", "name", "ids", "served"} \subseteq DOMAIN ask /\ ask.kind = kind /\ ask.name = n /\ ask.ids = ids
  OBVIOUS
<1> HIDE DEF ask
<1> QED BY <1>1, <1>2 DEF LibraryInv, AskInv

LEMMA KnownKept ==
  ASSUME LibraryInv, UNCHANGED <<faceDataVars, faceData>>
  PROVE  KnownInv'
BY DEF LibraryInv, KnownInv, Had, faceDataVars

LEMMA FacesPicked ==
  ASSUME LibraryInv, NEW ids \in SUBSET ListedFaces(library.toggle), PickFaces(ids)
  PROVE  LibraryInv'
<1>1. ids \subseteq belonged[library.toggle]
  BY ListedWereHad DEF LibraryInv, PageInv, Shelf
<1>2. pickedFaces' \subseteq pickedFaces \cup ids
  BY DEF PickFaces, Clicked
<1> QED BY <1>1, <1>2, KnownKept DEF PickFaces, LibraryInv, PageInv, DialogInv, AskInv, faceDataVars

LEMMA AllPicked ==
  ASSUME LibraryInv, PickAllFaces
  PROVE  LibraryInv'
<1>1. ListedFaces(library.toggle) \subseteq belonged[library.toggle]
  BY ListedWereHad DEF LibraryInv, PageInv, Shelf
<1> QED BY <1>1, KnownKept DEF PickAllFaces, LibraryInv, PageInv, DialogInv, AskInv, faceDataVars

\* The server's folders change: belonged takes in what they have now.
LEMMA Served ==
  ASSUME LibraryInv, NEW r \in faceAsks, ServeFace(r)
  PROVE  LibraryInv'
<1>1. \/ UNCHANGED faceDataVars
      \/ belonged' = [n \in FaceDirs |-> belonged[n] \cup (IF n \in DOMAIN faces' THEN faces'[n] ELSE {})]
  BY DEF ServeFace
<1>2. \A n \in FaceDirs : belonged[n] \subseteq belonged'[n]
  BY <1>1 DEF faceDataVars, LibraryInv, KnownInv
<1>3. Had(faces)'
  BY <1>1 DEF Had, faceDataVars, LibraryInv, KnownInv
<1>4. belonged' \in [FaceDirs -> SUBSET UNION {belonged'[n] : n \in FaceDirs}]
  BY <1>1 DEF faceDataVars, LibraryInv, KnownInv
<1>5. UNCHANGED <<faceData, library, faceDialogs, pickedFaces>>
  BY DEF ServeFace
<1>6. PICK s \in {"failed", "done"} : faceAsks' = (faceAsks \ {r}) \cup {[r EXCEPT !.served = s]}
  BY DEF ServeFace
<1>7. AskInv'
  BY <1>2, <1>6 DEF LibraryInv, AskInv
<1>8. KnownInv' /\ PageInv' /\ DialogInv'
  BY <1>2, <1>3, <1>4, <1>5 DEF LibraryInv, KnownInv, PageInv, DialogInv, Had, Shelf
<1> QED BY <1>7, <1>8 DEF LibraryInv

LEMMA AnswerKept ==
  ASSUME LibraryInv, NEW r \in faceAsks, AnswerFace(r)
  PROVE  LibraryInv'
<1>1. UNCHANGED faceDataVars /\ faceAsks' \subseteq faceAsks
  BY DEF AnswerFace
<1>2. AskInv'
  BY <1>1 DEF LibraryInv, AskInv, faceDataVars
<1>3. "train" \in FaceDirs
  BY DEF FaceDirs
<1>4. CASE r.served = "done" /\ Done(r) /\ r.kind = "delete"
  <2>1. Deleted(r)
    BY <1>4 DEF Done
  <2>2. pickedFaces' = {} /\ UNCHANGED faceDialogs
    BY <2>1 DEF Deleted
  <2>3. library' \in Shelf
    BY <1>3, <2>1 DEF Deleted, LibraryInv, PageInv, Shelf
  <2>4. {"dirs", "stale"} \subseteq DOMAIN faceData' /\ faceData'.dirs = faceData.dirs
    BY <2>1 DEF Deleted, LibraryInv, PageInv
  <2> QED BY <1>1, <1>2, <2>2, <2>3, <2>4 DEF LibraryInv, KnownInv, PageInv, DialogInv, Had, faceDataVars
<1>5. CASE r.served = "done" /\ Done(r) /\ r.kind = "rename"
  <2>1. ToPage("train") /\ faceData' = [faceData EXCEPT !.stale = TRUE] /\ UNCHANGED faceDialogs
    BY <1>5 DEF Done
  <2>2. library' \in Shelf /\ pickedFaces' \subseteq belonged'[library'.toggle]
    BY <1>1, <1>3, <2>1, ToPageKept DEF faceDataVars
  <2>3. {"dirs", "stale"} \subseteq DOMAIN faceData' /\ faceData'.dirs = faceData.dirs
    BY <2>1 DEF LibraryInv, PageInv
  <2> QED BY <1>1, <1>2, <2>1, <2>2, <2>3 DEF LibraryInv, KnownInv, PageInv, DialogInv, Had, faceDataVars
<1>6. CASE r.served = "done" /\ Done(r) /\ r.kind \notin {"delete", "rename"}
  <2>1. /\ UNCHANGED <<library, pickedFaces>>
        /\ faceData' \in {faceData, [faceData EXCEPT !.stale = TRUE]}
        /\ faceDialogs' \in {faceDialogs, [faceDialogs EXCEPT !.wizard.step = 2], [faceDialogs EXCEPT !.upload = FALSE]}
    BY <1>6 DEF Done
  <2>2. {"dirs", "stale"} \subseteq DOMAIN faceData' /\ faceData'.dirs = faceData.dirs
    BY <2>1 DEF LibraryInv, PageInv
  <2>3. /\ {"deletion", "face"} \subseteq DOMAIN faceDialogs'
        /\ faceDialogs'.deletion = faceDialogs.deletion /\ faceDialogs'.face = faceDialogs.face
    BY <2>1 DEF LibraryInv, DialogInv
  <2>4. KnownInv' /\ PageInv'
    BY <1>1, <2>1, <2>2 DEF LibraryInv, KnownInv, PageInv, Had, faceDataVars
  <2>5. DialogInv'
    BY <1>1, <2>3 DEF LibraryInv, DialogInv, faceDataVars
  <2> QED BY <1>2, <2>4, <2>5 DEF LibraryInv
<1>7. CASE UNCHANGED <<faceData, library, faceDialogs, pickedFaces>>
  BY <1>1, <1>2, <1>7, KnownKept DEF LibraryInv, PageInv, DialogInv, faceDataVars
<1> QED BY <1>4, <1>5, <1>6, <1>7 DEF AnswerFace

LEMMA LibraryKept ==
  ASSUME LibraryInv, [FaceNext]_faceVars
  PROVE  LibraryInv'
<1>1. CASE UNCHANGED faceVars
  BY <1>1 DEF faceVars, faceDataVars, LibraryInv, KnownInv, Had, PageInv, DialogInv, AskInv
<1>2. ASSUME NEW n \in FaceDirs, ChoosePage(n)
      PROVE  LibraryInv'
  <2>1. ToPage(n) /\ UNCHANGED <<faceDataVars, faceData, faceDialogs, faceAsks>>
    BY <1>2 DEF ChoosePage
  <2>2. library' \in Shelf /\ pickedFaces' \subseteq belonged'[library'.toggle]
    BY <2>1, ToPageKept DEF faceDataVars
  <2> QED BY <2>1, <2>2, KnownKept DEF LibraryInv, PageInv, DialogInv, AskInv, faceDataVars
<1>3. ASSUME NEW n \in FaceDirs, AskFace(n)
      PROVE  LibraryInv'
  <2>1. faceDialogs' = [faceDialogs EXCEPT !.face = n]
    BY <1>3 DEF AskFace, Dialogs
  <2>2. DialogInv'
    BY <1>3, <2>1 DEF AskFace, Dialogs, LibraryInv, DialogInv, faceDataVars
  <2> QED BY <1>3, <2>2, DialogsKept DEF AskFace, Dialogs
<1>4. ASSUME NEW n \in FaceDirs, AskRename(n)
      PROVE  LibraryInv'
  <2>1. DialogInv'
    BY <1>4 DEF AskRename, Dialogs, LibraryInv, DialogInv, faceDataVars
  <2> QED BY <1>4, <2>1, DialogsKept DEF AskRename, Dialogs
<1>5. ASSUME NEW n \in FaceNames, NameFace(n)
      PROVE  LibraryInv'
  <2>1. DialogInv'
    BY <1>5 DEF NameFace, Dialogs, LibraryInv, DialogInv, faceDataVars
  <2> QED BY <1>5, <2>1, DialogsKept DEF NameFace, Dialogs
<1>6. CASE OpenUpload \/ OpenWizard
  <2>1. DialogInv'
    BY <1>6 DEF OpenUpload, OpenWizard, Dialogs, LibraryInv, DialogInv, faceDataVars
  <2> QED BY <1>6, <2>1, DialogsKept DEF OpenUpload, OpenWizard, Dialogs
<1>7. CASE DismissFace
  <2>1. DialogInv'
    BY <1>7 DEF DismissFace, Dialogs, LibraryInv, DialogInv, faceDataVars
  <2> QED BY <1>7, <2>1, DialogsKept DEF DismissFace, Dialogs
<1>8. CASE AskDeletion
  <2>1. faceDialogs' = [faceDialogs EXCEPT !.deletion = [name |-> library.toggle, ids |-> pickedFaces]]
    BY <1>8 DEF AskDeletion, Dialogs
  <2>2. faceDialogs'.deletion.name = library.toggle /\ faceDialogs'.deletion.ids = pickedFaces
    BY <2>1 DEF LibraryInv, DialogInv
  <2>3. {"deletion", "face"} \subseteq DOMAIN faceDialogs' /\ faceDialogs'.face = faceDialogs.face
    BY <2>1 DEF LibraryInv, DialogInv
  <2>4. library.toggle \in FaceDirs /\ UNCHANGED belonged
    BY <1>8 DEF AskDeletion, Dialogs, faceDataVars, LibraryInv, PageInv, Shelf
  <2>5. DialogInv'
    BY <2>2, <2>3, <2>4 DEF LibraryInv, DialogInv, PageInv
  <2> QED BY <1>8, <2>5, DialogsKept DEF AskDeletion, Dialogs
<1>9. ASSUME NEW n \in FaceNames, ConfirmRename(n)
      PROVE  LibraryInv'
  <2>1. AskInv'
    BY <1>9, AsksKept DEF ConfirmRename, faceDataVars
  <2>2. DialogInv'
    BY <1>9 DEF ConfirmRename, LibraryInv, DialogInv, faceDataVars
  <2> QED BY <1>9, <2>1, <2>2, KnownKept DEF ConfirmRename, LibraryInv, PageInv, faceDataVars
<1>10. ASSUME NEW i, NEW n, TrainAttempt(i, n)
       PROVE  LibraryInv'
  <2>1. AskInv'
    BY <1>10, AsksKept DEF TrainAttempt, faceDataVars
  <2> QED BY <1>10, <2>1, KnownKept DEF TrainAttempt, LibraryInv, PageInv, DialogInv, faceDataVars
<1>11. ASSUME NEW i, Reprocess(i)
       PROVE  LibraryInv'
  <2>1. AskInv'
    BY <1>11, AsksKept DEF Reprocess, faceDataVars
  <2> QED BY <1>11, <2>1, KnownKept DEF Reprocess, LibraryInv, PageInv, DialogInv, faceDataVars
<1>12. CASE UploadImage
  <2>1. AskInv'
    BY <1>12, AsksKept DEF UploadImage, faceDataVars
  <2> QED BY <1>12, <2>1, KnownKept DEF UploadImage, LibraryInv, PageInv, DialogInv, faceDataVars
<1>13. CASE UploadFirst
  <2>1. AskInv'
    BY <1>13, AsksKept DEF UploadFirst, faceDataVars
  <2> QED BY <1>13, <2>1, KnownKept DEF UploadFirst, LibraryInv, PageInv, DialogInv, faceDataVars
<1>14. ASSUME NEW i \in ListedFaces(library.toggle), DeleteImage(i)
       PROVE  LibraryInv'
  <2>1. library.toggle \in FaceDirs /\ {i} \subseteq belonged[library.toggle]
    BY ListedWereHad DEF LibraryInv, PageInv, Shelf
  <2>2. AskInv'
    BY <1>14, <2>1, AsksKept DEF DeleteImage, faceDataVars
  <2> QED BY <1>14, <2>2, KnownKept DEF DeleteImage, LibraryInv, PageInv, DialogInv, faceDataVars
<1>15. CASE ConfirmDeletion
  <2>1. /\ faceDialogs.deletion.name \in FaceDirs
        /\ faceDialogs.deletion.ids \subseteq belonged[faceDialogs.deletion.name]
    BY <1>15 DEF ConfirmDeletion, LibraryInv, DialogInv
  <2>2. AskInv'
    BY <1>15, <2>1, AsksKept DEF ConfirmDeletion, faceDataVars
  <2>3. faceDialogs' = [faceDialogs EXCEPT !.deletion = NoDeletion] /\ UNCHANGED belonged
    BY <1>15 DEF ConfirmDeletion, faceDataVars
  <2>4. DialogInv'
    BY <2>3 DEF LibraryInv, DialogInv
  <2> QED BY <1>15, <2>2, <2>4, KnownKept DEF ConfirmDeletion, LibraryInv, PageInv, faceDataVars
<1>16. CASE ConfirmFace
  <2>1. faceDialogs.face \in FaceDirs
    BY <1>16 DEF ConfirmFace, LibraryInv, DialogInv
  <2>2. AskInv'
    BY <1>16, <2>1, AsksKept, ListedWereHad DEF ConfirmFace, faceDataVars
  <2>3. library' \in Shelf /\ pickedFaces' \subseteq belonged'[library'.toggle]
    BY <1>16, ToPageKept DEF ConfirmFace, FaceDirs, faceDataVars
  <2>4. faceDialogs' = [faceDialogs EXCEPT !.face = ""] /\ UNCHANGED <<faceDataVars, faceData>>
    BY <1>16 DEF ConfirmFace
  <2>5. DialogInv'
    BY <2>4 DEF LibraryInv, DialogInv, faceDataVars
  <2> QED BY <2>2, <2>3, <2>4, <2>5, KnownKept DEF LibraryInv, PageInv
<1>17. CASE FinishWizard
  <2>1. /\ faceData' = [faceData EXCEPT !.stale = TRUE]
        /\ faceDialogs' = [faceDialogs EXCEPT !.wizard = NoWizard]
        /\ UNCHANGED <<faceDataVars, library, pickedFaces, faceAsks>>
    BY <1>17 DEF FinishWizard
  <2>2. {"dirs", "stale"} \subseteq DOMAIN faceData' /\ faceData'.dirs = faceData.dirs
    BY <2>1 DEF LibraryInv, PageInv
  <2>3. KnownInv' /\ PageInv' /\ AskInv'
    BY <2>1, <2>2 DEF LibraryInv, KnownInv, PageInv, AskInv, Had, faceDataVars
  <2>4. DialogInv'
    BY <2>1 DEF LibraryInv, DialogInv, faceDataVars
  <2> QED BY <2>3, <2>4 DEF LibraryInv
<1>18. CASE FacesRead
  <2>1. /\ faceData' = [dirs |-> faces, stale |-> FALSE]
        /\ UNCHANGED <<faceDataVars, library, faceDialogs, pickedFaces, faceAsks>>
    BY <1>18 DEF FacesRead
  <2> QED BY <2>1 DEF LibraryInv, KnownInv, Had, PageInv, DialogInv, AskInv, faceDataVars
<1>19. CASE PageElapsed
  <2>1. PICK to \in FaceDirs : library'.toggle = to /\ library' \in Shelf /\ Left(to)
    BY <1>19 DEF PageElapsed, LibraryInv, PageInv, Shelf
  <2>2. UNCHANGED <<faceDataVars, faceData, faceDialogs, faceAsks>>
    BY <1>19 DEF PageElapsed
  <2>3. PageInv'
    BY <2>1, <2>2 DEF Left, LibraryInv, PageInv, faceDataVars
  <2> QED BY <2>2, <2>3, KnownKept DEF LibraryInv, DialogInv, AskInv, faceDataVars
<1> QED
  BY <1>1, <1>2, <1>3, <1>4, <1>5, <1>6, <1>7, <1>8, <1>9, <1>10, <1>11, <1>12, <1>13, <1>14, <1>15, <1>16,
     <1>17, <1>18, <1>19, FacesPicked, AllPicked, Served, AnswerKept DEF FaceNext

\* An image is deleted only from a face that had it, also when another request's answer has
\* changed the page under the selection or under the dialog (FaceLibrary.tsx:283).
THEOREM DeletedFromTheirFace == FaceSpec => []DeletesAreOfTheirFace
<1>1. FaceInit => LibraryInv
  <2>1. SUFFICES ASSUME FaceInit PROVE LibraryInv
    OBVIOUS
  <2>2. \A n \in FaceDirs : belonged[n] = IF n \in DOMAIN FirstFaces THEN FirstFaces[n] ELSE {}
    BY <2>1 DEF FaceInit
  <2>3. KnownInv
    <3>1. belonged \in [FaceDirs -> SUBSET UNION {belonged[n] : n \in FaceDirs}]
      BY <2>1 DEF FaceInit
    <3>2. faces = FirstFaces /\ faceData.dirs = FirstFaces
      BY <2>1 DEF FaceInit
    <3>3. Had(FirstFaces)
      BY <2>2 DEF Had
    <3> QED BY <3>1, <3>2, <3>3 DEF KnownInv
  <2>4. PageInv
    BY <2>1 DEF FaceInit, PageInv, Shelf, FaceDirs
  <2>5. DialogInv /\ AskInv
    BY <2>1 DEF FaceInit, DialogInv, AskInv
  <2> QED BY <2>3, <2>4, <2>5 DEF LibraryInv
<1>2. LibraryInv /\ [FaceNext]_faceVars => LibraryInv'
  BY LibraryKept
<1>3. LibraryInv => DeletesAreOfTheirFace
  <2>1. SUFFICES ASSUME LibraryInv PROVE DeletesAreOfTheirFace
    OBVIOUS
  <2>2. NoDeletion.ids = {}
    BY DEF NoDeletion
  <2> QED BY <2>1, <2>2 DEF LibraryInv, AskInv, DialogInv, DeletesAreOfTheirFace
<1> QED
  BY <1>1, <1>2, <1>3, PTL DEF FaceSpec

-----------------------------------------------------------------------------
(* What is promised of a page alone, of all the pages together *)

\* Whatever page is visited: no connection of a player is left open, a form is saved for the
\* camera it was filled for, images are deleted from the face they were selected on, and the
\* list of a log has no line twice.
THEOREM PromisesOfPages ==
  PagesSpec => [](NoPeerLeftBehind /\ SavesAreForTheirCamera /\ DeletesAreOfTheirFace /\ LogIsWhole)
<1> QED
  BY PagesImplement, PeersAreClosed, SavedForTheirCamera, DeletedFromTheirFace, ListOfLogsIsWhole, PTL

\* The layout that was arranged is stored, and what was muted stays muted.
THEOREM PromisesOfDashboard == PagesSpec => [](LayoutSurvives /\ MuteAllHolds)
<1> QED
  BY PagesImplement, ArrangedIsStored, MutedStaysMuted, PTL

\* A review that goes on is marked by choice, the preview comes to rest, a closed list of
\* cameras is fresh, a click reaches its time, and what is exported is what is shown.
THEOREM PromisesOfReview ==
  PagesSpec => [](/\ InProgressStaysOpen /\ PreviewSettles /\ FreshListIsInForce
                  /\ ClickIsReached /\ SavedIsShown)
<1> QED
  BY PagesImplement, OngoingIsReviewedByChoice, PreviewComesToRest, CameraListIsFresh,
     ClickReachesItsTime, SavedAsShown, PTL

================================================================================
