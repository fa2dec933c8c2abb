---------------------------- MODULE DashboardSound ----------------------------
(***************************************************************************)
(* The streaming settings of the dashboard: what each camera of each group *)
(* was given (a table kept in the browser), the sound states computed from *)
(* it, the context menu of a camera, its streaming dialog and its          *)
(* notifications.  The list of the default group and the grid of the other *)
(* groups are two components with sound states of their own.               *)
(***************************************************************************)
EXTENDS Integers, Sequences

CONSTANTS
  Cams,          \* cameras
  Groups,        \* camera groups besides "default"
  MaxClicks      \* bound: things the user does

ASSUME SoundAssumption == MaxClicks \in Nat /\ "default" \notin Groups

VARIABLES
  phone, cameraGroup,
  allSettings, order,                   \* allGroupsStreamingSettings, and the order of its keys
  browserKept, loaded,                 \* what the browser kept from before, and if it was read
  listAudio, listVolume, gridAudio, gridVolume,
  inSight,                      \* visibleCameras of the list
  menu, used,                   \* camera whose menu is open; audioControlsUsed
  soundDialog, soundForm,                 \* camera whose dialog is open, and what it shows
  stats, camOn,
  srvNotify, notify, toServer, toPage, isSuspended,
  muted,                        \* ghost: cameras last silenced by "mute all" and not touched since, and where
  clicks

soundSettings == <<allSettings, order, browserKept, loaded>>
soundStates == <<listAudio, listVolume, gridAudio, gridVolume>>
soundNotify == <<srvNotify, notify, toServer, toPage, isSuspended>>
soundVars ==
  <<phone, cameraGroup, allSettings, order, browserKept, loaded, listAudio, listVolume, gridAudio, gridVolume, inSight,
    menu, used, soundDialog, soundForm, stats, camOn, srvNotify, notify, toServer, toPage, isSuspended, muted, clicks>>

StreamTypes == {"no-streaming", "smart", "continuous"}
Entry ==
  [streamType : StreamTypes, playAudio : {"on", "off", "unset"}, volume : {"full", "low"}]
NoSettings == [c \in {} |-> {}]
NewForm == [streamType |-> "smart"]
Nobody == "nobody"
NoneMuted == [cams |-> {}, at |-> "default"]
Flip(sound) == IF sound = "on" THEN "off" ELSE "on"

SoundTypeOK ==
  /\ cameraGroup \in Groups \cup {"default"} /\ {phone, loaded, used, camOn, isSuspended} \subseteq BOOLEAN
  /\ \A g \in Groups : DOMAIN allSettings[g] \subseteq Cams /\ \A c \in DOMAIN allSettings[g] : allSettings[g][c] \in Entry
  /\ \A i \in 1..Len(order) : order[i] \in Groups
  /\ {listAudio, gridAudio} \subseteq [Cams -> {"on", "off", "unset"}]
  /\ {listVolume, gridVolume} \subseteq [Cams -> {"full", "low", "unset"}]
  /\ inSight \subseteq Cams /\ {menu, soundDialog} \subseteq Cams \cup {Nobody}
  /\ stats \subseteq Cams /\ muted.cams \subseteq Cams /\ clicks \in 0..MaxClicks

\* The groups the browser kept settings of, in the order they came in.
FirstKept == {<<>>} \cup {<<g>> : g \in Groups} \cup {k \in Groups \X Groups : k[1] # k[2]}

SoundInit ==
  /\ phone \in BOOLEAN /\ cameraGroup \in Groups \cup {"default"}
  /\ allSettings = [g \in Groups |-> NoSettings] /\ order = <<>> /\ loaded = FALSE
  /\ browserKept \in FirstKept
  /\ listAudio = [c \in Cams |-> "unset"] /\ listVolume = [c \in Cams |-> "unset"]
  /\ gridAudio = listAudio /\ gridVolume = listVolume
  /\ inSight = Cams /\ menu = Nobody /\ used = FALSE /\ soundDialog = Nobody /\ soundForm = NewForm
  /\ stats = {} /\ camOn = TRUE
  /\ srvNotify = [state |-> "ON", until |-> "0"] /\ notify = srvNotify
  /\ toServer = <<>> /\ toPage = <<>> /\ isSuspended = FALSE
  /\ muted = NoneMuted /\ clicks = 0

ShownAsList == cameraGroup = "default" \/ phone
Audio == IF ShownAsList THEN listAudio ELSE gridAudio
Volume == IF ShownAsList THEN listVolume ELSE gridVolume
Click == clicks < MaxClicks /\ clicks' = clicks + 1

-----------------------------------------------------------------------------
(* The table and the sound computed from it *)

\* A group that is saved goes to the end of the object's keys, which are there once each.
HasSettings(g) == \E i \in 1..Len(order) : order[i] = g
PlaceOf(g) == CHOOSE i \in 1..Len(order) : order[i] = g
Others(g) ==
  IF HasSettings(g) THEN SubSeq(order, 1, PlaceOf(g) - 1) \o SubSeq(order, PlaceOf(g) + 1, Len(order)) ELSE order
InPlaceOrder(g) == IF HasSettings(g) THEN order ELSE Append(order, g)
KeyOrder(g) == Append(Others(g), g)

\* The groups overwrite one another in the order of the keys.
Governing(c, table, keys) ==
  LET with == {i \in 1..Len(keys) : c \in DOMAIN table[keys[i]]}
  IN {table[keys[i]][c] : i \in {i \in with : \A j \in with : j <= i}}

AudioOf(table, keys) ==
  [c \in Cams |-> IF Governing(c, table, keys) = {} THEN "unset"
                  ELSE LET e == CHOOSE e \in Governing(c, table, keys) : TRUE
                       IN IF e.playAudio = "on" THEN "on" ELSE "off"]
VolumeOf(table, keys) ==
  [c \in Cams |-> IF Governing(c, table, keys) = {} THEN "unset"
                  ELSE (CHOOSE e \in Governing(c, table, keys) : TRUE).volume]

\* setAllGroupsStreamingSettings, the effect that persists it and those that follow it.
SetAll(table, keys) ==
  /\ allSettings' = table /\ order' = keys
  /\ listAudio' = AudioOf(table, keys) /\ listVolume' = VolumeOf(table, keys)
  /\ gridAudio' = listAudio' /\ gridVolume' = listVolume'

\* What the browser kept arrives: here, every group of it has every camera, with sound.
\* It replaces what the user saved meanwhile.
WithEverySound(g) ==
  IF \E i \in 1..Len(browserKept) : browserKept[i] = g
  THEN [c \in Cams |-> [streamType |-> "smart", playAudio |-> "on", volume |-> "full"]]
  ELSE NoSettings

Loaded ==
  /\ ~loaded /\ loaded' = TRUE /\ browserKept' = browserKept
  /\ IF browserKept = <<>> THEN UNCHANGED <<allSettings, order, soundStates, muted>>
     ELSE SetAll([g \in Groups |-> WithEverySound(g)], browserKept) /\ muted' = NoneMuted
  /\ UNCHANGED <<phone, cameraGroup, inSight, menu, used, soundDialog, soundForm, stats, camOn, soundNotify, clicks>>

SelectGroup ==
  /\ Click /\ menu = Nobody /\ soundDialog = Nobody
  /\ \E g \in (Groups \cup {"default"}) \ {cameraGroup} :
       /\ cameraGroup' = g
       /\ IF cameraGroup = "default"       \* the grid is mounted
          THEN gridAudio' = AudioOf(allSettings, order) /\ gridVolume' = VolumeOf(allSettings, order) /\ muted' = NoneMuted
          ELSE UNCHANGED <<gridAudio, gridVolume>>
               /\ muted' = IF g = "default" THEN NoneMuted ELSE muted
  /\ UNCHANGED <<phone, soundSettings, listAudio, listVolume, inSight, menu, used, soundDialog, soundForm, stats, camOn,
                 soundNotify>>

Scroll ==
  /\ Click /\ ShownAsList /\ \E c \in Cams : inSight' = (inSight \ {c}) \cup ({c} \ inSight)
  /\ UNCHANGED <<phone, cameraGroup, soundSettings, soundStates, menu, used, soundDialog, soundForm, stats, camOn,
                 soundNotify, muted>>

-----------------------------------------------------------------------------
(* The context menu.  onSave: the settings of one camera of the group *)

WithSound(c, settings) ==
  [settings EXCEPT ![c].playAudio = IF Audio[c] # "unset" THEN Audio[c] ELSE @,
                   ![c].volume = IF Volume[c] # "unset" THEN Volume[c] ELSE @]
Added(c, settings) ==
  [d \in DOMAIN settings \cup {c} |->
     IF d \in DOMAIN settings THEN settings[d]
     ELSE [streamType |-> "smart", playAudio |-> Audio[c],
           volume |-> IF Volume[c] # "unset" THEN Volume[c] ELSE "full"]]

\* settings is undefined when the group has none.
OnSave(c, defined, settings) ==
  IF cameraGroup = "default" \/ ~defined
  THEN UNCHANGED <<allSettings, order, soundStates>>
  ELSE SetAll([allSettings EXCEPT ![cameraGroup] =
                 IF c \in DOMAIN settings THEN WithSound(c, settings) ELSE Added(c, settings)],
              KeyOrder(cameraGroup))

\* The group that is saved last governs its cameras, also those that were muted in another one.
Governed ==
  IF cameraGroup \in {"default", muted.at} THEN muted
  ELSE [muted EXCEPT !.cams = @ \ DOMAIN allSettings'[cameraGroup]]

OpenMenu(c) ==
  /\ Click /\ menu = Nobody /\ soundDialog = Nobody /\ menu' = c
  /\ UNCHANGED <<phone, cameraGroup, soundSettings, soundStates, inSight, used, soundDialog, soundForm, stats, camOn,
                 soundNotify, muted>>

SetAudio(f) ==
  IF ShownAsList THEN listAudio' = f /\ UNCHANGED gridAudio ELSE gridAudio' = f /\ UNCHANGED listAudio

HandleVolumeIconClick ==
  /\ Click /\ menu # Nobody /\ used' = TRUE
  /\ SetAudio([Audio EXCEPT ![menu] = Flip(@)])
  /\ muted' = [muted EXCEPT !.cams = @ \ {menu}]
  /\ UNCHANGED <<phone, cameraGroup, soundSettings, listVolume, gridVolume, inSight, menu, soundDialog, soundForm, stats,
                 camOn, soundNotify>>

VolumeSlider == menu # Nobody /\ Audio[menu] = "on" /\ camOn

\* The other cameras' volumes are dropped: the new object has this camera only.
HandleVolumeChange ==
  /\ Click /\ VolumeSlider /\ used' = TRUE
  /\ \E v \in {"full", "low"} :
       LET only == [c \in Cams |-> IF c = menu THEN v ELSE "unset"]
       IN IF ShownAsList THEN listVolume' = only /\ UNCHANGED gridVolume
                         ELSE gridVolume' = only /\ UNCHANGED listVolume
  /\ UNCHANGED <<phone, cameraGroup, soundSettings, listAudio, gridAudio, inSight, menu, soundDialog, soundForm, stats,
                 camOn, soundNotify, muted>>

\* The state of the menu's camera alone is saved; the others fall back to the table.
HandleOpenChange ==
  /\ menu # Nobody /\ menu' = Nobody /\ used' = FALSE
  /\ IF used THEN OnSave(menu, HasSettings(cameraGroup), IF cameraGroup = "default" THEN NoSettings
                                                         ELSE allSettings[cameraGroup])
     ELSE UNCHANGED <<allSettings, order, soundStates>>
  /\ muted' = IF used THEN Governed ELSE muted
  /\ UNCHANGED <<phone, cameraGroup, browserKept, loaded, inSight, soundDialog, soundForm, stats, camOn, soundNotify, clicks>>

\* Items of the menu: an item closes it, after its handler.
ContextMenuItems ==
  {"enable"} \cup (IF camOn THEN {"mute", "unmute", "stats", "debug"} ELSE {})
  \cup (IF camOn /\ cameraGroup # "default" THEN {"settings"} ELSE {})

OnSaveMuting(sound, states) ==
  IF cameraGroup = "default"
  THEN SetAudio(states) /\ UNCHANGED <<allSettings, order, listVolume, gridVolume>>
  ELSE SetAll([allSettings EXCEPT ![cameraGroup] = [c \in DOMAIN @ |-> [@[c] EXCEPT !.playAudio = sound]]],
              KeyOrder(cameraGroup))

\* The list knows the cameras in sight, the grid all of its own.
MuteList(sound) == OnSaveMuting(sound, [c \in Cams |-> IF c \in inSight THEN sound ELSE "unset"])
MuteGrid(sound) == OnSaveMuting(sound, [c \in Cams |-> sound])

MuteAll(sound) ==
  /\ Click /\ menu # Nobody /\ camOn
  /\ IF ShownAsList THEN MuteList(sound) ELSE MuteGrid(sound)
  /\ muted' = IF sound = "on" THEN NoneMuted
              ELSE [cams |-> IF cameraGroup = "default" THEN inSight ELSE DOMAIN allSettings[cameraGroup],
                    at |-> cameraGroup]
  /\ UNCHANGED <<phone, cameraGroup, browserKept, loaded, inSight, menu, used, soundDialog, soundForm, stats, camOn, soundNotify>>

\* The fields of the dialog that opens.
FormOf(c) ==
  IF c \in DOMAIN allSettings[cameraGroup] THEN [streamType |-> allSettings[cameraGroup][c].streamType] ELSE NewForm

MenuItem ==
  /\ Click /\ menu # Nobody
  /\ \/ /\ "enable" \in ContextMenuItems /\ camOn' = ~camOn /\ UNCHANGED <<stats, soundDialog, soundForm>>
     \/ /\ "stats" \in ContextMenuItems
        /\ stats' = (stats \ {menu}) \cup ({menu} \ stats) /\ UNCHANGED <<camOn, soundDialog, soundForm>>
     \/ /\ "settings" \in ContextMenuItems /\ ~used
        /\ soundDialog' = menu
        /\ soundForm' = FormOf(menu)
        /\ UNCHANGED <<camOn, stats>>
  /\ menu' = IF soundDialog' # soundDialog THEN Nobody ELSE menu
  /\ UNCHANGED <<phone, cameraGroup, soundSettings, soundStates, inSight, used, soundNotify, muted>>

-----------------------------------------------------------------------------
(* The dialog *)

\* Stream and compatibility are fields like the type, which stands for them.
ChooseFields ==
  /\ Click /\ soundDialog # Nobody /\ \E s \in StreamTypes : soundForm' = [streamType |-> s]
  /\ UNCHANGED <<phone, cameraGroup, soundSettings, soundStates, inSight, menu, used, soundDialog, stats, camOn,
                 soundNotify, muted>>

HandleSave ==
  /\ soundDialog # Nobody /\ soundDialog' = Nobody
  /\ LET own == allSettings[cameraGroup]
         had == soundDialog \in DOMAIN own
         entry == [streamType |-> soundForm.streamType,
                   playAudio |-> IF had /\ own[soundDialog].playAudio = "on" THEN "on" ELSE "off",
                   volume |-> IF had THEN own[soundDialog].volume ELSE "full"]
     IN OnSave(soundDialog, TRUE, [d \in DOMAIN own \cup {soundDialog} |-> IF d = soundDialog THEN entry ELSE own[d]])
  /\ muted' = Governed
  /\ UNCHANGED <<phone, cameraGroup, browserKept, loaded, inSight, menu, used, soundForm, stats, camOn, soundNotify, clicks>>

HandleCancel ==
  /\ soundDialog # Nobody /\ soundDialog' = Nobody /\ soundForm' = NewForm
  /\ UNCHANGED <<phone, cameraGroup, soundSettings, soundStates, inSight, menu, used, stats, camOn, soundNotify,
                 muted, clicks>>

-----------------------------------------------------------------------------
(* Notifications of the camera *)

NotifySends(commands) == toServer' = toServer \o commands

\* The submenu: one way back from a suspension, seven ways into one.
NotificationItems ==
  IF ~camOn THEN {} ELSE IF isSuspended THEN {"unsuspend"} ELSE IF notify.state = "ON" THEN {"minutes", "off"} ELSE {}

HandleSuspend(item) ==
  /\ Click /\ menu # Nobody /\ item \in NotificationItems
  /\ NotifySends(CASE item = "unsuspend" -> <<"ON", "0">>
                   [] item = "minutes" -> <<"5">>
                   [] item = "off" -> <<"OFF">>)
  /\ UNCHANGED <<phone, cameraGroup, soundSettings, soundStates, inSight, menu, used, soundDialog, soundForm, stats, camOn,
                 srvNotify, notify, toPage, isSuspended, muted>>

\* The server: a suspension needs notifications that are on; the state sets it back.
ServerNotify ==
  /\ toServer # <<>> /\ toServer' = Tail(toServer)
  /\ IF Head(toServer) \in {"ON", "OFF"}
     THEN /\ srvNotify' = [state |-> Head(toServer), until |-> "0"]
          /\ toPage' = toPage \o <<[state |-> Head(toServer)], [until |-> "0"]>>
     ELSE IF srvNotify.state = "ON"
     THEN LET until == IF Head(toServer) = "0" THEN "0" ELSE "later"
          IN srvNotify' = [srvNotify EXCEPT !.until = until] /\ toPage' = Append(toPage, [until |-> until])
     ELSE UNCHANGED <<srvNotify, toPage>>
  /\ UNCHANGED <<phone, cameraGroup, soundSettings, soundStates, inSight, menu, used, soundDialog, soundForm, stats, camOn,
                 notify, isSuspended, muted, clicks>>

NotifyMessage ==
  /\ toPage # <<>> /\ toPage' = Tail(toPage)
  /\ notify' = [f \in {"state", "until"} |-> IF f \in DOMAIN Head(toPage) THEN Head(toPage)[f] ELSE notify[f]]
  /\ isSuspended' = (notify'.until # "0" \/ notify'.state = "OFF")
  /\ UNCHANGED <<phone, cameraGroup, soundSettings, soundStates, inSight, menu, used, soundDialog, soundForm, stats, camOn,
                 srvNotify, toServer, muted, clicks>>

SoundNext ==
  \/ Loaded \/ SelectGroup \/ Scroll
  \/ \E c \in Cams : OpenMenu(c)
  \/ HandleVolumeIconClick \/ HandleVolumeChange \/ HandleOpenChange \/ MenuItem
  \/ \E sound \in {"on", "off"} : MuteAll(sound)
  \/ ChooseFields \/ HandleSave \/ HandleCancel
  \/ \E item \in {"unsuspend", "minutes", "off"} : HandleSuspend(item)
  \/ ServerNotify \/ NotifyMessage

SoundSpec == SoundInit /\ [][SoundNext]_soundVars

-----------------------------------------------------------------------------
(* Properties *)

\* "Mute all" is not undone by a group that has the camera with sound, nor by saving the menu
\* or the dialog of another camera, nor by going to another group, unless that group is saved.
MuteAllHolds == \A c \in muted.cams : Audio[c] # "on"
=============================================================================
