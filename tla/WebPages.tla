-------------------------------- MODULE WebPages --------------------------------
(***************************************************************************)
(* The pages of the web interface.  The router (App.tsx) shows one page;   *)
(* the page that is left is unmounted with its state, so that no two of    *)
(* them ever act on each other: shown names the page that is visited and   *)
(* does not change.  What a page shares with the server, or with another   *)
(* browser, is part of its own module.                                     *)
(***************************************************************************)
EXTENDS FallbackPlayers, LiveCameraView, DashboardSound, CameraGroups, PreviewScrub, Playback,
        EventReview, ExploreSearch, MasksEditor, SettingsPages, ReviewFilters, ReviewExport,
        SearchDetail, FaceLibrary, Logs

VARIABLE shown

Pages == {"fallback", "liveView", "sound", "groups", "preview", "playback", "review", "explore",
          "masks", "settings", "filters", "export", "detail", "faces", "logs"}

\* What a page that is not shown starts as is of no importance.
Starts(p, S) == IF shown = p THEN S ELSE {CHOOSE x \in S : TRUE}

PagesInit ==
  /\ shown \in Pages
  /\ desktop \in Starts("liveView", BOOLEAN)
  /\ phone \in Starts("sound", BOOLEAN) /\ cameraGroup \in Starts("sound", Groups \cup {"default"})
  /\ browserKept \in Starts("sound", FirstKept)
  /\ handheld \in Starts("groups", BOOLEAN) /\ param \in Starts("groups", GroupNames \cup {""})
  /\ pv \in Starts("preview", FirstPreviews)
  /\ rv \in Starts("playback", FirstViews) /\ recorded \in Starts("playback", Recordings)
  /\ server \in Starts("review", FirstReviews)
  /\ served \in Starts("masks", FirstConfigs)
  /\ on \in Starts("filters", {p \in Places : p.main = p.start}) /\ inForce \in Starts("filters", FirstFilters)
  /\ recordingPage \in Starts("export", FirstRecordings)
  /\ FallbackInit /\ LiveViewInit /\ SoundInit /\ GroupsInit /\ PreviewInit /\ PlaybackInit /\ ReviewInit
  /\ ExploreInit /\ MasksInit /\ SettingsInit /\ FiltersInit /\ ExportInit /\ DetailInit /\ FaceInit /\ LogsInit

\* A step of the page that is shown leaves the others, which are not there, as they are.
Stays(p, state) == IF shown = p THEN TRUE ELSE UNCHANGED state
OthersStay ==
  /\ UNCHANGED shown
  /\ Stays("fallback", fallbackVars)
  /\ Stays("liveView", liveViewVars)
  /\ Stays("sound", soundVars)
  /\ Stays("groups", groupVars)
  /\ Stays("preview", pvVars)
  /\ Stays("playback", playVars)
  /\ Stays("review", reviewVars)
  /\ Stays("explore", exploreVars)
  /\ Stays("masks", masksVars)
  /\ Stays("settings", settingsVars)
  /\ Stays("filters", filtersVars)
  /\ Stays("export", exportVars)
  /\ Stays("detail", detailVars)
  /\ Stays("faces", faceVars)
  /\ Stays("logs", logVars)

PagesNext ==
  \/ shown = "fallback" /\ FallbackNext /\ OthersStay
  \/ shown = "liveView" /\ LiveViewNext /\ OthersStay
  \/ shown = "sound" /\ SoundNext /\ OthersStay
  \/ shown = "groups" /\ GroupsNext /\ OthersStay
  \/ shown = "preview" /\ PreviewNext /\ OthersStay
  \/ shown = "playback" /\ PlaybackNext /\ OthersStay
  \/ shown = "review" /\ ReviewNext /\ OthersStay
  \/ shown = "explore" /\ ExploreNext /\ OthersStay
  \/ shown = "masks" /\ MasksNext /\ OthersStay
  \/ shown = "settings" /\ SettingsNext /\ OthersStay
  \/ shown = "filters" /\ FiltersNext /\ OthersStay
  \/ shown = "export" /\ ExportNext /\ OthersStay
  \/ shown = "detail" /\ DetailNext /\ OthersStay
  \/ shown = "faces" /\ FaceNext /\ OthersStay
  \/ shown = "logs" /\ LogsNext /\ OthersStay

pageVars ==
  <<shown, fallbackVars, liveViewVars, soundVars, groupVars, pvVars, playVars, reviewVars, exploreVars, masksVars, settingsVars, filtersVars, exportVars, detailVars, faceVars, logVars>>
PagesSpec == PagesInit /\ [][PagesNext]_pageVars

\* The state of the page that is shown has the values it can have.
PagesTypeOK ==
  /\ shown = "fallback" => FallbackTypeOK
  /\ shown = "liveView" => LiveViewTypeOK
  /\ shown = "sound" => SoundTypeOK
  /\ shown = "groups" => GroupsTypeOK
  /\ shown = "preview" => PreviewTypeOK
  /\ shown = "playback" => PlaybackTypeOK
  /\ shown = "review" => ReviewTypeOK
  /\ shown = "explore" => ExploreTypeOK
  /\ shown = "masks" => MasksTypeOK
  /\ shown = "settings" => SettingsTypeOK
  /\ shown = "filters" => FiltersTypeOK
  /\ shown = "export" => ExportTypeOK
  /\ shown = "detail" => DetailTypeOK
  /\ shown = "faces" => FaceTypeOK
  /\ shown = "logs" => LogsTypeOK
=================================================================================
