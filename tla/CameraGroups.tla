----------------------------- MODULE CameraGroups -----------------------------
(***************************************************************************)
(* Camera groups on the live page: the selected group, the dialogs that    *)
(* add, edit, rename and delete groups, and the grid of a group, whose     *)
(* layout is kept in the browser's database.                               *)
(*                                                                         *)
(* The layout of a group is read and written by two instances of           *)
(* usePersistence: that of the grid, and that of the dialog, which only    *)
(* wants to delete it but reads it, and writes back what it read, whenever *)
(* another group is selected.  Requests to the database are served in the  *)
(* order in which they are made.                                           *)
(***************************************************************************)
EXTENDS Integers, Sequences

CONSTANTS
  GridCams,      \* cameras
  GroupNames,    \* names a group may have
  MaxGridActs    \* bound: things the user does

ASSUME GroupsAssumption == MaxGridActs \in Nat /\ {"", "default"} \cap GroupNames = {}

VARIABLES
  handheld,
  srvGroups, cfgGroups,        \* camera_groups at the server and in the page's config
  selectedGroup, remembered, param, \* overlay state, its persisted copy, ?group=
  hash,                        \* selected camera
  editMode, full, listMode,
  gridLayout, gridLoaded, currentGridLayout, currentCameras,
  mounts,                      \* instance of the grid, counted
  disk, idb,                   \* stored layouts, requests under way
  editState, editingGroup, groupForm, groupRequest,
  settingsOf,                  \* groups that have streaming settings
  arranged,                    \* ghost: what the user arranged, 0 if unknown
  gridActs

gridState == <<gridLayout, gridLoaded, currentGridLayout, currentCameras, mounts>>
gridView == <<handheld, hash, editMode, full, listMode>>
groupDialog == <<editState, editingGroup, groupForm, groupRequest>>
groupVars ==
  <<handheld, srvGroups, cfgGroups, selectedGroup, remembered, param, hash, editMode, full, listMode, gridLayout,
    gridLoaded, currentGridLayout, currentCameras, mounts, disk, idb, editState, editingGroup, groupForm,
    groupRequest, settingsOf, arranged, gridActs>>

None == [arr |-> -1, cams |-> {}]
NoGroupForm == [name |-> "", cams |-> {}]
Layouts == [arr : -1..MaxGridActs, cams : SUBSET GridCams]
NoRequest == [kind |-> "none"]

\* cfgGroups is a function from the names in use to the cameras of each.
UnsetGroup == {"unset"}
GroupShown == IF selectedGroup # "" THEN selectedGroup ELSE IF remembered # "" THEN remembered ELSE "default"
CamerasOf(groups, g) == IF g \in DOMAIN groups THEN groups[g] ELSE GridCams
Dashboard(h, groups, g) == h \notin CamerasOf(groups, g) \cup {"birdseye"}
GridMounted(h, groups, g) == g # "default" /\ ~handheld /\ Dashboard(h, groups, g)
Cameras == CamerasOf(cfgGroups, GroupShown)
GridOn == GridMounted(hash, cfgGroups, GroupShown)

GroupsTypeOK ==
  /\ DOMAIN srvGroups \subseteq GroupNames /\ DOMAIN cfgGroups \subseteq GroupNames
  /\ {selectedGroup, remembered} \subseteq GroupNames \cup {"", "default"}
  /\ {handheld, editMode, full, gridLoaded} \subseteq BOOLEAN /\ listMode \in {"grid", "list"}
  /\ {gridLayout, currentGridLayout} \subseteq Layouts /\ disk \in [GroupNames -> Layouts]
  /\ currentCameras \in (SUBSET GridCams) \cup {UnsetGroup} /\ mounts \in Nat
  /\ editState \in {"closed", "none", "add", "edit", "editActive"}
  /\ settingsOf \subseteq GroupNames /\ arranged \in [GroupNames -> 0..MaxGridActs] /\ gridActs \in 0..MaxGridActs

GroupsInit ==
  /\ handheld \in BOOLEAN
  /\ srvGroups = [g \in GroupNames |-> GridCams] /\ cfgGroups = srvGroups
  /\ selectedGroup = "" /\ remembered = "" /\ param \in GroupNames \cup {""} /\ hash = ""
  /\ editMode = FALSE /\ full = FALSE /\ listMode = "grid"
  /\ gridLayout = None /\ gridLoaded = FALSE /\ currentGridLayout = None /\ currentCameras = UnsetGroup /\ mounts = 0
  /\ disk = [g \in GroupNames |-> None] /\ idb = <<>>
  /\ editState = "closed" /\ editingGroup = "" /\ groupForm = NoGroupForm /\ groupRequest = NoRequest
  /\ settingsOf = {} /\ arranged = [g \in GroupNames |-> 0] /\ gridActs = 0

GridAct == gridActs < MaxGridActs /\ gridActs' = gridActs + 1

-----------------------------------------------------------------------------
(* The layout of the grid *)

DialogInstance == 0    \* instances of the grid count from 1
BeingRead(q, g) == \E i \in DOMAIN q : q[i].op = "get" /\ q[i].key = g
Get(who, g) == IF g = "default" THEN <<>> ELSE <<[op |-> "get", who |-> who, key |-> g]>>
PutLayout(g, layout) == <<[op |-> "put", key |-> g, layout |-> layout]>>

\* Places of the cameras that are kept, new cameras after them.
GenerateLayout(loaded, current, cams) ==
  IF ~loaded THEN None ELSE [arr |-> IF current = None THEN 0 ELSE current.arr, cams |-> cams]

\* The effects after a render in which the group, its cameras or the view changed: the
\* dialog's read, then the grid's, then the layout made from what the last render had.
GridEffects(groups, h, g) ==
  LET was == GridOn
      is == GridMounted(h, groups, g)
      keyChanged == g # GroupShown
      cams == CamerasOf(groups, g)
      fresh == is /\ ~was
      rewrite == is /\ (fresh \/ cams # currentCameras)
      made == IF fresh THEN None ELSE GenerateLayout(gridLoaded, currentGridLayout, cams)
  IN /\ mounts' = IF fresh THEN mounts + 1 ELSE mounts
     /\ idb' = idb \o ((IF keyChanged THEN Get(DialogInstance, g) ELSE <<>>)
                    \o (IF is /\ (fresh \/ keyChanged) THEN Get(mounts', g) ELSE <<>>)
                    \o (IF rewrite THEN PutLayout(g, made) ELSE <<>>))
     /\ gridLoaded' = (is /\ ~fresh /\ ~keyChanged /\ gridLoaded)
     /\ gridLayout' = IF rewrite THEN made ELSE gridLayout
     /\ currentGridLayout' = IF fresh THEN None
                             ELSE IF rewrite /\ ~keyChanged /\ made # None THEN made ELSE currentGridLayout
     /\ currentCameras' = IF rewrite THEN cams ELSE currentCameras

\* usePersistence: a layout that was read is written back; without one the grid keeps what
\* it has, or makes one.
WrittenBack_Not(key, found) == <<>>
WrittenBack(key, found) == IF found # None THEN PutLayout(key, found) ELSE <<>>

IdbGet ==
  /\ idb # <<>> /\ Head(idb).op = "get"
  /\ LET r == Head(idb)
         found == disk[r.key]
         mine == r.who = mounts /\ GridOn
         value == IF found # None THEN found ELSE gridLayout
         made == IF value = None THEN GenerateLayout(TRUE, currentGridLayout, Cameras) ELSE value
     IN /\ idb' = Tail(idb) \o (WrittenBack(r.key, found)
                             \o IF mine /\ value = None THEN PutLayout(GroupShown, made) ELSE <<>>)
        /\ IF mine THEN gridLoaded' = TRUE /\ gridLayout' = made /\ currentGridLayout' = made
           ELSE UNCHANGED <<gridLoaded, gridLayout, currentGridLayout>>
  /\ UNCHANGED <<gridView, srvGroups, cfgGroups, selectedGroup, remembered, param, currentCameras, mounts, disk,
                 groupDialog, settingsOf, arranged, gridActs>>

IdbPut ==
  /\ idb # <<>> /\ Head(idb).op \in {"put", "delete"} /\ idb' = Tail(idb)
  /\ disk' = [disk EXCEPT ![Head(idb).key] = IF Head(idb).op = "put" THEN Head(idb).layout ELSE None]
  /\ UNCHANGED <<gridView, srvGroups, cfgGroups, selectedGroup, remembered, param, gridState, groupDialog,
                 settingsOf, arranged, gridActs>>

GridShown == GridOn /\ gridLoaded /\ currentGridLayout # None /\ currentCameras = Cameras

\* A drag or a resize.  What is arranged while the layout is being read may be overtaken.
HandleLayoutChange ==
  /\ GridAct /\ GridShown /\ editMode
  /\ IF gridLayout # currentGridLayout THEN UNCHANGED <<gridLayout, currentGridLayout, idb, arranged>>
     ELSE /\ gridLayout' = [arr |-> gridActs', cams |-> Cameras] /\ currentGridLayout' = gridLayout'
          /\ idb' = idb \o PutLayout(GroupShown, gridLayout')
          /\ arranged' = [g \in GroupNames |-> IF g # GroupShown THEN arranged[g]
                                               ELSE IF BeingRead(idb, GroupShown) THEN 0 ELSE gridActs']
  /\ UNCHANGED <<gridView, srvGroups, cfgGroups, selectedGroup, remembered, param, gridLoaded, currentCameras, mounts,
                 disk, groupDialog, settingsOf>>

-----------------------------------------------------------------------------
(* The page *)

\* Selecting a group leaves the edit mode (an effect of the grid).  A group that is come
\* back to while its layout is still being read may lose it: the next grid reads what the
\* last one wrote before it had it.
GoToGroup(groups, h, g) ==
  /\ GridEffects(groups, h, g)
  /\ editMode' = (editMode /\ g = GroupShown /\ GridMounted(h, groups, g))
  /\ arranged' = IF (g # GroupShown \/ ~GridOn) /\ BeingRead(idb, g) THEN [arranged EXCEPT ![g] = 0] ELSE arranged

SetGroup(g) == selectedGroup' = g /\ remembered' = g

ClickGroup ==
  /\ GridAct /\ editState = "closed" /\ \E g \in DOMAIN cfgGroups \cup {"default"} :
       g # GroupShown /\ SetGroup(g) /\ GoToGroup(cfgGroups, "", g)
  /\ hash' = "" /\ param' = ""
  /\ UNCHANGED <<handheld, full, listMode, srvGroups, cfgGroups, disk, groupDialog, settingsOf>>

GroupParam ==
  /\ param # "" /\ param' = ""
  /\ IF param \in DOMAIN cfgGroups
     THEN SetGroup(param) /\ GoToGroup(cfgGroups, hash, param)
     ELSE UNCHANGED <<selectedGroup, remembered, gridState, idb, editMode, arranged>>
  /\ UNCHANGED <<handheld, hash, full, listMode, srvGroups, cfgGroups, disk, groupDialog, settingsOf, gridActs>>

SelectGridCamera ==
  /\ GridAct /\ ~editMode /\ editState = "closed" /\ Dashboard(hash, cfgGroups, GroupShown)
  /\ \E c \in Cameras \cup {"birdseye"} : hash' = c /\ GoToGroup(cfgGroups, c, GroupShown)
  /\ UNCHANGED <<handheld, full, listMode, srvGroups, cfgGroups, selectedGroup, remembered, param, disk, groupDialog,
                 settingsOf>>

BackToDashboard ==
  /\ GridAct /\ hash # "" /\ hash' = "" /\ GoToGroup(cfgGroups, "", GroupShown)
  /\ UNCHANGED <<handheld, full, listMode, srvGroups, cfgGroups, selectedGroup, remembered, param, disk, groupDialog,
                 settingsOf>>

\* Buttons of the page: on a desktop those of the grid.
GridButtons ==
  IF GridShown THEN {"edit"} \cup (IF editMode THEN {} ELSE {"fullscreen"} \cup (IF full THEN {} ELSE {"pencil"}))
  ELSE {"grid", "list"} \cup (IF handheld THEN {} ELSE {"fullscreen"})

ClickButton ==
  /\ GridAct /\ editState = "closed" /\ Dashboard(hash, cfgGroups, GroupShown)
  /\ \E b \in GridButtons :
       /\ editMode' = IF b = "edit" THEN ~editMode ELSE editMode
       /\ full' = IF b = "fullscreen" THEN ~full ELSE full
       /\ listMode' = IF b \in {"grid", "list"} THEN b ELSE listMode
       /\ editState' = IF b = "pencil" /\ GroupShown \in DOMAIN cfgGroups THEN "editActive" ELSE editState
  /\ IF editState' = "editActive"
     THEN editingGroup' = GroupShown /\ groupForm' = [name |-> GroupShown, cams |-> cfgGroups[GroupShown]]
     ELSE UNCHANGED <<editingGroup, groupForm>>
  /\ UNCHANGED <<handheld, hash, srvGroups, cfgGroups, selectedGroup, remembered, param, gridState, disk, idb,
                 groupRequest, settingsOf, arranged>>

\* The page is loaded again, when nothing is under way.
Reload ==
  /\ GridAct /\ idb = <<>> /\ groupRequest = NoRequest
  /\ selectedGroup' = "" /\ hash' = "" /\ editMode' = FALSE /\ full' = FALSE /\ editState' = "closed"
  /\ cfgGroups' = srvGroups
  /\ LET g == IF remembered # "" THEN remembered ELSE "default"
         is == GridMounted("", srvGroups, g)
     IN /\ mounts' = mounts + 1
        /\ idb' = Get(DialogInstance, g) \o (IF is THEN Get(mounts', g) ELSE <<>>)
                                        \o (IF is THEN PutLayout(g, None) ELSE <<>>)
        /\ currentCameras' = IF is THEN CamerasOf(srvGroups, g) ELSE UnsetGroup
  /\ gridLoaded' = FALSE /\ gridLayout' = None /\ currentGridLayout' = None
  /\ UNCHANGED <<handheld, listMode, srvGroups, remembered, param, disk, editingGroup, groupForm, groupRequest,
                 settingsOf, arranged>>

-----------------------------------------------------------------------------
(* The dialogs of the groups *)

DialogUnchanged ==
  UNCHANGED <<gridView, srvGroups, cfgGroups, selectedGroup, remembered, param, gridState, disk, idb, settingsOf,
              arranged>>

OpenGroups == GridAct /\ editState = "closed" /\ editState' = "none" /\ UNCHANGED <<editingGroup, groupForm, groupRequest>>
              /\ DialogUnchanged

EditGroup ==
  /\ GridAct /\ editState = "none"
  /\ \/ editState' = "add" /\ editingGroup' = "" /\ groupForm' = NoGroupForm
     \/ \E g \in DOMAIN cfgGroups :
          editState' = "edit" /\ editingGroup' = g /\ groupForm' = [name |-> g, cams |-> cfgGroups[g]]
  /\ UNCHANGED groupRequest /\ DialogUnchanged

FillForm ==
  /\ GridAct /\ editState \in {"add", "edit", "editActive"}
  /\ \/ \E n \in GroupNames : groupForm' = [groupForm EXCEPT !.name = n]
     \/ \E c \in GridCams : groupForm' = [groupForm EXCEPT !.cams = (@ \ {c}) \cup ({c} \ @)]
  /\ UNCHANGED <<editState, editingGroup, groupRequest>> /\ DialogUnchanged

\* The name of a new group must not be one in use; a name that is edited may be any.
FormValid == groupForm.name \in GroupNames /\ (editingGroup # "" \/ groupForm.name \notin DOMAIN cfgGroups)

SubmitGroup ==
  /\ groupRequest = NoRequest /\ editState \in {"add", "edit", "editActive"} /\ FormValid
  /\ groupRequest' = [kind |-> "save", old |-> editingGroup, name |-> groupForm.name, cams |-> groupForm.cams,
                      settings |-> (settingsOf \ {editingGroup}) \cup {groupForm.name}]
  /\ UNCHANGED <<editState, editingGroup, groupForm, gridActs>> /\ DialogUnchanged

CancelGroup ==
  /\ editState # "closed" /\ editingGroup' = "" /\ groupForm' = NoGroupForm
  /\ editState' = IF editState \in {"add", "edit"} THEN "none" ELSE "closed"
  /\ UNCHANGED <<groupRequest, gridActs>> /\ DialogUnchanged

\* A row of the list has a button, and a dialog that asks again.
DeleteButtons == IF editState = "none" THEN DOMAIN cfgGroups ELSE {}

\* Deleting any group deletes the layout of the active one, and what the browser remembers,
\* before the server is asked.  The page itself goes on showing its group.
OnDeleteGroup ==
  /\ GridAct /\ groupRequest = NoRequest
  /\ \E g \in DeleteButtons : groupRequest' = [kind |-> "delete", name |-> g, active |-> GroupShown]
  /\ IF GroupShown = "default" THEN UNCHANGED <<idb, arranged>>
     ELSE /\ idb' = idb \o <<[op |-> "delete", key |-> GroupShown]>>
          /\ arranged' = [arranged EXCEPT ![GroupShown] = 0]
  /\ remembered' = "" /\ selectedGroup' = GroupShown
  /\ UNCHANGED <<gridView, srvGroups, cfgGroups, param, gridState, disk, settingsOf, editState,
                 editingGroup, groupForm>>

\* An empty list of cameras is not sent: the cameras of the group stay as they are.
Saved(r) ==
  [g \in (DOMAIN srvGroups \ {r.old}) \cup {r.name} |->
     IF g # r.name THEN srvGroups[g]
     ELSE IF r.cams = {} /\ g \in DOMAIN srvGroups THEN srvGroups[g]
     ELSE r.cams]

GroupSaved ==
  /\ groupRequest.kind = "save" /\ groupRequest' = NoRequest
  /\ srvGroups' = Saved(groupRequest) /\ settingsOf' = groupRequest.settings
  /\ editState' = "closed" /\ editingGroup' = "" /\ groupForm' = NoGroupForm
  /\ UNCHANGED <<gridView, cfgGroups, selectedGroup, remembered, param, gridState, disk, idb, arranged, gridActs>>

\* A group that was shown when its deletion was asked for is left for "default", even if
\* another one was selected since.
GroupDeleted ==
  /\ groupRequest.kind = "delete" /\ groupRequest' = NoRequest
  /\ srvGroups' = [g \in DOMAIN srvGroups \ {groupRequest.name} |-> srvGroups[g]]
  /\ IF groupRequest.active = groupRequest.name
     THEN SetGroup("default") /\ GoToGroup(cfgGroups, "", "default") /\ hash' = ""
     ELSE UNCHANGED <<selectedGroup, remembered, gridState, idb, hash, editMode, arranged>>
  /\ UNCHANGED <<handheld, full, listMode, cfgGroups, param, disk, editState, editingGroup, groupForm, settingsOf, gridActs>>

RequestFails ==
  /\ groupRequest # NoRequest /\ groupRequest' = NoRequest
  /\ editState' = IF groupRequest.kind = "delete" THEN "closed" ELSE editState
  /\ UNCHANGED <<editingGroup, groupForm, gridActs>> /\ DialogUnchanged

\* updateConfig: the config is fetched again.
GroupsFetched ==
  /\ cfgGroups # srvGroups /\ cfgGroups' = srvGroups
  /\ GoToGroup(srvGroups, hash, GroupShown)
  /\ UNCHANGED <<handheld, hash, full, listMode, srvGroups, selectedGroup, remembered, param, disk, groupDialog,
                 settingsOf, gridActs>>

GroupsNext ==
  \/ IdbGet \/ IdbPut \/ HandleLayoutChange
  \/ ClickGroup \/ GroupParam \/ SelectGridCamera \/ BackToDashboard \/ ClickButton \/ Reload
  \/ OpenGroups \/ EditGroup \/ FillForm \/ SubmitGroup \/ CancelGroup \/ OnDeleteGroup
  \/ GroupSaved \/ GroupDeleted \/ RequestFails \/ GroupsFetched

GroupsSpec == GroupsInit /\ [][GroupsNext]_groupVars

-----------------------------------------------------------------------------
(* Properties *)

\* A layout the user arranged is the one that is stored, once the database is quiet: going
\* to other groups and cameras, changing the cameras of the group and loading the page again
\* do not lose it.
LayoutSurvives ==
  idb = <<>> => \A g \in GroupNames : arranged[g] # 0 => disk[g].arr = arranged[g]
=============================================================================
