---------------------------- MODULE SettingsPages ----------------------------
(***************************************************************************)
(* The settings page: its tabs, the camera some of them are about, and the *)
(* forms of the tabs.  A form is filled when its tab or its camera is      *)
(* chosen, edited, reset, or saved into the server's config.  The motion   *)
(* tuner also sends each value to the running camera as it is changed.     *)
(***************************************************************************)
EXTENDS Integers, Sequences, FiniteSets

CONSTANTS
  CameraOrder,        \* the cameras of the page, in order
  MaxSettingsActs     \* bound: things the user does

ASSUME SettingsAssumption == Len(CameraOrder) > 0 /\ MaxSettingsActs \in Nat

VARIABLES
  serverConfig,        \* the config of the server
  known,       \* the config that the page was last given
  running,     \* the motion threshold a camera runs with
  enabled,     \* the cameras that are enabled
  settingsPage,         \* page
  selectedCamera,      \* selectedCamera
  visit,       \* which showing of a tab this is
  fields,      \* the form of the tab
  changed,     \* changedValue
  requests,    \* config/set requests that are not answered
  accounts,    \* users: those the server has, and those listed
  asking,      \* the dialog of the users tab
  accountRequests,
  device,      \* registration of this device for notifications
  settingsActs

settingsVars ==
  <<serverConfig, known, running, enabled, settingsPage, selectedCamera, visit, fields, changed, requests, accounts, asking, accountRequests, device, settingsActs>>

TabCameras == {CameraOrder[i] : i \in 1..Len(CameraOrder)}
Levels == {1, 2}
PlainTabs == {"enrichments", "frigateplus"}
CameraTabs == {"cameras", "motionTuner"}
Tabs == PlainTabs \cup CameraTabs \cup {"ui", "notifications", "users"}
ReviewZones == {"zone"}
Roles == {"admin", "viewer"}
UserNames == {"admin", "ann"}

Configs ==
  [motion : [TabCameras -> Levels], alerts : [TabCameras -> SUBSET ReviewZones], detections : [TabCameras -> SUBSET ReviewZones],
   mode : [PlainTabs -> Levels], all : BOOLEAN, notify : SUBSET TabCameras]
EmptyFields ==
  [motion |-> 0, wasMotion |-> 0, alerts |-> {}, detections |-> {}, select |-> FALSE, mode |-> 0, wasMode |-> 0,
   all |-> FALSE, cameras |-> {}, madeFor |-> ""]
NoAccountDialog == [kind |-> "", user |-> ""]

SettingsTypeOK ==
  /\ {serverConfig, known} \subseteq Configs /\ running \in [TabCameras -> Levels] /\ enabled \subseteq TabCameras
  /\ settingsPage \in Tabs /\ selectedCamera \in TabCameras /\ visit \in 0..MaxSettingsActs /\ changed \in BOOLEAN
  /\ fields.motion \in {0} \cup Levels /\ fields.mode \in {0} \cup Levels /\ fields.alerts \subseteq ReviewZones
  /\ \A r \in requests : r.tab \in Tabs /\ r.camera \in TabCameras
  /\ asking.kind \in {"", "create", "role", "password", "delete"} /\ asking.user \in UserNames \cup {""}
  /\ device \in {"none", "asking", "waiting", "subscribing", "registered"} /\ settingsActs \in 0..MaxSettingsActs

FirstConfig ==
  [motion |-> [c \in TabCameras |-> 1], alerts |-> [c \in TabCameras |-> IF c = CameraOrder[1] THEN ReviewZones ELSE {}],
   detections |-> [c \in TabCameras |-> {}], mode |-> [t \in PlainTabs |-> 1], all |-> FALSE, notify |-> TabCameras]
SettingsInit ==
  /\ serverConfig = FirstConfig /\ known = FirstConfig /\ running = FirstConfig.motion /\ enabled = TabCameras
  /\ settingsPage = "ui" /\ selectedCamera = CameraOrder[1] /\ visit = 0 /\ fields = EmptyFields /\ changed = FALSE /\ requests = {}
  /\ accounts = [server |-> {[name |-> "admin", role |-> "admin"]}, listed |-> {[name |-> "admin", role |-> "admin"]}]
  /\ asking = NoAccountDialog /\ accountRequests = {} /\ device = "none" /\ settingsActs = 0

SettingsAct == settingsActs < MaxSettingsActs /\ settingsActs' = settingsActs + 1

-----------------------------------------------------------------------------
(* Tabs and cameras *)

\* The values that the form of a tab is given.
ReviewFields(c) ==
  [EmptyFields EXCEPT !.alerts = known.alerts[c], !.detections = known.detections[c], !.select = known.detections[c] # {}, !.madeFor = c]
MotionFields(c) == [EmptyFields EXCEPT !.motion = known.motion[c], !.wasMotion = known.motion[c], !.madeFor = c]
ModeFields(t) == [EmptyFields EXCEPT !.mode = known.mode[t], !.wasMode = known.mode[t], !.madeFor = selectedCamera]
NotifyFields == [EmptyFields EXCEPT !.all = known.all, !.cameras = IF known.all THEN {} ELSE known.notify, !.madeFor = selectedCamera]
FieldsOf(t, c) ==
  CASE t = "cameras" -> ReviewFields(c)
    [] t = "motionTuner" -> MotionFields(c)
    [] t \in PlainTabs -> ModeFields(t)
    [] t = "notifications" -> NotifyFields
    [] OTHER -> EmptyFields

\* Only the tab of a camera's own settings keeps a camera that is disabled.
FirstEnabled(on) ==
  IF on = {} THEN CameraOrder[1]
  ELSE CHOOSE c \in on : \A i, j \in 1..Len(CameraOrder) : CameraOrder[i] = c /\ CameraOrder[j] \in on => i <= j
Shown(t, c, on) == IF t = "cameras" \/ c \in on THEN c ELSE FirstEnabled(on)

\* The effects of the motion tuner send a camera the values shown before it, and then its own.
Sent(t, camera) == IF t = "motionTuner" THEN [running EXCEPT ![camera] = known.motion[camera]] ELSE running

SelectTab(t) ==
  /\ SettingsAct /\ t # settingsPage /\ settingsPage' = t /\ visit' = visit + 1 /\ selectedCamera' = Shown(t, selectedCamera, enabled)
  /\ fields' = FieldsOf(t, selectedCamera') /\ changed' = FALSE /\ asking' = NoAccountDialog
  /\ running' = Sent(t, selectedCamera')
  /\ UNCHANGED <<serverConfig, known, enabled, requests, accounts, accountRequests, device>>

\* The camera form starts again and the tuner shows the camera's config; the tuner stays changed.
FieldsForCamera_Kept(t, c) == fields
FieldsForCamera(t, c) == IF t \in CameraTabs THEN FieldsOf(t, c) ELSE fields
ShowCamera(c) ==
  /\ selectedCamera' = c /\ fields' = FieldsForCamera(settingsPage, c)
  /\ changed' = (changed /\ settingsPage # "cameras") /\ running' = Sent(settingsPage, c)

SelectCamera(c) ==
  /\ SettingsAct /\ settingsPage \in CameraTabs /\ c # selectedCamera /\ (c \in enabled \/ settingsPage = "cameras") /\ ShowCamera(c)
  /\ UNCHANGED <<serverConfig, known, enabled, settingsPage, visit, requests, accounts, asking, accountRequests, device>>

\* The switch of the camera's settings, here or elsewhere.
ToggleCamera(c) ==
  /\ SettingsAct /\ enabled' = (IF c \in enabled THEN enabled \ {c} ELSE enabled \cup {c})
  /\ IF Shown(settingsPage, selectedCamera, enabled') # selectedCamera THEN ShowCamera(Shown(settingsPage, selectedCamera, enabled'))
     ELSE UNCHANGED <<selectedCamera, fields, changed, running>>
  /\ UNCHANGED <<serverConfig, known, settingsPage, visit, requests, accounts, asking, accountRequests, device>>

-----------------------------------------------------------------------------
(* The forms *)

\* Motion values are sent as they are chosen.
ChooseMotion(v) == fields' = [fields EXCEPT !.motion = v] /\ changed' = TRUE /\ running' = [running EXCEPT ![selectedCamera] = v]

\* Zones of detections are limited by a checkbox; it forgets them.
ChooseZones ==
  /\ \/ \E zones \in SUBSET ReviewZones : fields' = [fields EXCEPT !.alerts = zones] /\ changed' = TRUE
     \/ \E zones \in SUBSET ReviewZones :
          fields.select /\ fields' = [fields EXCEPT !.detections = zones] /\ UNCHANGED changed
     \/ /\ fields' = [fields EXCEPT !.select = ~@, !.detections = IF fields.select THEN {} ELSE @] /\ changed' = TRUE
  /\ UNCHANGED running
ChooseMode == \E v \in Levels : fields' = [fields EXCEPT !.mode = v] /\ changed' = TRUE /\ UNCHANGED running

\* All cameras, or some of them.
ChooseAll(all) == [fields EXCEPT !.all = all, !.cameras = IF all THEN {} ELSE @]
ChooseCamera(c) ==
  [fields EXCEPT !.all = FALSE, !.cameras = IF c \in fields.cameras THEN @ \ {c} ELSE @ \cup {c}]
ChooseNotify ==
  /\ \/ \E all \in BOOLEAN : fields' = ChooseAll(all)
     \/ \E c \in TabCameras : fields' = ChooseCamera(c)
  /\ changed' = TRUE /\ UNCHANGED running

EditFields ==
  /\ SettingsAct
  /\ \/ settingsPage = "motionTuner" /\ \E v \in Levels : ChooseMotion(v)
     \/ settingsPage = "cameras" /\ ChooseZones
     \/ settingsPage \in PlainTabs /\ ChooseMode
     \/ settingsPage = "notifications" /\ ChooseNotify
  /\ UNCHANGED <<serverConfig, known, enabled, settingsPage, selectedCamera, visit, requests, accounts, asking, accountRequests, device>>

\* onCancel: the tuner goes back to what its camera had when it was chosen.
OnCancel ==
  /\ SettingsAct /\ changed' = FALSE
  /\ \/ /\ settingsPage = "motionTuner" /\ fields' = [fields EXCEPT !.motion = fields.wasMotion]
        /\ running' = [running EXCEPT ![selectedCamera] = fields.wasMotion]
     \/ settingsPage \in PlainTabs /\ fields' = [fields EXCEPT !.mode = fields.wasMode] /\ UNCHANGED running
     \/ settingsPage \in {"cameras", "notifications"} /\ fields' = FieldsOf(settingsPage, selectedCamera) /\ UNCHANGED running
  /\ UNCHANGED <<serverConfig, known, enabled, settingsPage, selectedCamera, visit, requests, accounts, asking, accountRequests, device>>

\* A list that is empty as before is not written.
Written(c, r) ==
  CASE r.tab = "motionTuner" -> [c EXCEPT !.motion[r.camera] = r.fields.motion]
    [] r.tab = "cameras" ->
         [c EXCEPT !.alerts[r.camera] = IF r.fields.alerts = {} /\ r.before.alerts[r.camera] = {} THEN @ ELSE r.fields.alerts,
                   !.detections[r.camera] = IF r.fields.detections = {} /\ r.before.detections[r.camera] = {} THEN @ ELSE r.fields.detections]
    [] r.tab \in PlainTabs -> [c EXCEPT !.mode[r.tab] = r.fields.mode]
    [] r.tab = "notifications" ->
         [c EXCEPT !.all = r.fields.all, !.notify = IF r.fields.all THEN TabCameras ELSE r.fields.cameras]

IsLoading == \E r \in requests : r.visit = visit
SaveToConfig ==
  /\ SettingsAct /\ ~IsLoading /\ settingsPage \in CameraTabs \cup PlainTabs \cup {"notifications"}
  /\ settingsPage \in {"motionTuner"} \cup PlainTabs => changed
  /\ requests' = requests \cup {[tab |-> settingsPage, camera |-> selectedCamera, fields |-> fields, before |-> known, visit |-> visit]}
  /\ UNCHANGED <<serverConfig, known, running, enabled, settingsPage, selectedCamera, visit, fields, changed, accounts, asking, accountRequests, device>>

\* The camera form and the notifications stay changed.
SaveAnswered(r) ==
  /\ requests' = requests \ {r}
  /\ \/ serverConfig' = Written(serverConfig, r) /\ changed' = (changed /\ ~(r.visit = visit /\ settingsPage \in {"motionTuner"} \cup PlainTabs))
     \/ UNCHANGED <<serverConfig, changed>>
  /\ UNCHANGED <<known, running, enabled, settingsPage, selectedCamera, visit, fields, accounts, asking, accountRequests, device, settingsActs>>

\* Only the plain forms look at a config that changes, for what they are reset to.
ConfigGiven ==
  /\ known # serverConfig /\ known' = serverConfig
  /\ fields' = IF settingsPage \in PlainTabs THEN [fields EXCEPT !.wasMode = serverConfig.mode[settingsPage]] ELSE fields
  /\ UNCHANGED <<serverConfig, running, enabled, settingsPage, selectedCamera, visit, changed, requests, accounts, asking, accountRequests, device, settingsActs>>

-----------------------------------------------------------------------------
(* Users *)

\* The user admin has only a password to change.
OpenAccountDialog(kind, u) ==
  /\ SettingsAct /\ settingsPage = "users" /\ asking.kind = ""
  /\ kind # "create" => u \in {a.name : a \in accounts.listed}
  /\ kind \in {"role", "delete"} => u # "admin"
  /\ asking' = [kind |-> kind, user |-> u]
  /\ UNCHANGED <<serverConfig, known, running, enabled, settingsPage, selectedCamera, visit, fields, changed, requests, accounts, accountRequests, device>>
CancelAccountDialog ==
  /\ SettingsAct /\ asking # NoAccountDialog /\ asking' = NoAccountDialog
  /\ UNCHANGED <<serverConfig, known, running, enabled, settingsPage, selectedCamera, visit, fields, changed, requests, accounts, accountRequests, device>>

\* The dialog stays open until the answer.
SubmitAccountDialog ==
  /\ SettingsAct /\ asking # NoAccountDialog
  /\ \E role \in Roles : accountRequests' = accountRequests \cup {[kind |-> asking.kind, user |-> asking.user, role |-> role, done |-> FALSE, visit |-> visit]}
  /\ UNCHANGED <<serverConfig, known, running, enabled, settingsPage, selectedCamera, visit, fields, changed, requests, accounts, asking, device>>

WithAccount(users, r) ==
  CASE r.kind = "create" -> users \cup {[name |-> r.user, role |-> r.role]}
    [] r.kind = "delete" -> {a \in users : a.name # r.user}
    [] r.kind = "role" -> {IF a.name = r.user THEN [a EXCEPT !.role = r.role] ELSE a : a \in users}
    [] r.kind = "password" -> users
AccountServed(r) ==
  /\ ~r.done /\ (r.kind = "create" => \A a \in accounts.server : a.name # r.user)
  /\ accounts' = [accounts EXCEPT !.server = WithAccount(@, r)]
  /\ accountRequests' = (accountRequests \ {r}) \cup {[r EXCEPT !.done = TRUE]}
  /\ UNCHANGED <<serverConfig, known, running, enabled, settingsPage, selectedCamera, visit, fields, changed, requests, asking, device, settingsActs>>
\* The answer changes the list, and closes the dialog of its kind whoever it is about by then.
AccountAnswered(r) ==
  /\ r.done /\ accountRequests' = accountRequests \ {r} /\ accounts' = [accounts EXCEPT !.listed = WithAccount(@, r)]
  /\ asking' = IF r.visit = visit /\ asking.kind = r.kind THEN NoAccountDialog ELSE asking
  /\ UNCHANGED <<serverConfig, known, running, enabled, settingsPage, selectedCamera, visit, fields, changed, requests, device, settingsActs>>
AccountFailed(r) ==
  /\ ~r.done /\ accountRequests' = accountRequests \ {r}
  /\ UNCHANGED <<serverConfig, known, running, enabled, settingsPage, selectedCamera, visit, fields, changed, requests, accounts, asking, device, settingsActs>>

-----------------------------------------------------------------------------
(* This device *)

\* Permission, a worker, a second for it to become active, a subscription, and the server.
DeviceAnswered ==
  /\ \/ device = "asking" /\ device' \in {"none", "waiting", "subscribing"}
     \/ device = "waiting" /\ device' = "subscribing"
     \/ device = "subscribing" /\ device' \in {"none", "registered"}
  /\ UNCHANGED <<serverConfig, known, running, enabled, settingsPage, selectedCamera, visit, fields, changed, requests, accounts, asking, accountRequests, settingsActs>>

\* The button registers, or gives the subscription up without telling the server.
RegisterDevice ==
  /\ SettingsAct /\ settingsPage = "notifications" /\ (known.all \/ known.notify # {})
  /\ \/ device = "none" /\ device' = "asking"
     \/ device \in {"waiting", "subscribing", "registered"} /\ device' = "none"
  /\ UNCHANGED <<serverConfig, known, running, enabled, settingsPage, selectedCamera, visit, fields, changed, requests, accounts, asking, accountRequests>>

SettingsNext ==
  \/ \E t \in Tabs : SelectTab(t)
  \/ \E c \in TabCameras : SelectCamera(c) \/ ToggleCamera(c)
  \/ EditFields \/ OnCancel \/ SaveToConfig \/ (\E r \in requests : SaveAnswered(r)) \/ ConfigGiven
  \/ \E kind \in {"create", "role", "password", "delete"}, u \in UserNames : OpenAccountDialog(kind, u)
  \/ CancelAccountDialog \/ SubmitAccountDialog
  \/ \E r \in accountRequests : AccountServed(r) \/ AccountAnswered(r) \/ AccountFailed(r)
  \/ RegisterDevice \/ DeviceAnswered

SettingsSpec == SettingsInit /\ [][SettingsNext]_settingsVars

-----------------------------------------------------------------------------
(* Properties *)

\* What is saved for a camera was filled in for that camera, whichever was shown in between.
SavesAreForTheirCamera ==
  \A r \in requests : r.tab \in CameraTabs => r.fields.madeFor = r.camera
=============================================================================
