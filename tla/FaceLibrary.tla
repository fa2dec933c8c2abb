------------------------------ MODULE FaceLibrary ------------------------------
(***************************************************************************)
(* The face library: the images of each known face and the attempts that   *)
(* wait to be trained, as the page last read them; the selection and the   *)
(* dialogs that delete, rename, train and upload, whose answers act on     *)
(* what the page showed when they were asked.                              *)
(***************************************************************************)
EXTENDS Integers, FiniteSets

CONSTANTS
  FaceNames,       \* names that a face can have; the attempts are "train"
  FirstFaces,      \* the images of each face at first
  MaxFaceActs,     \* bound: things the user does
  MaxFaceAsks      \* bound: requests

ASSUME FaceLibraryAssumption ==
  /\ {"train", ""} \cap FaceNames = {} /\ "train" \in DOMAIN FirstFaces
  /\ DOMAIN FirstFaces \subseteq FaceNames \cup {"train"}
  /\ {MaxFaceActs, MaxFaceAsks} \subseteq Nat

VARIABLES
  faces,       \* the server's folders: images are numbers
  faceData,    \* the page's copy, and whether it is being read again
  belonged,    \* history: the images each name ever had
  fresh,       \* the number of the next image
  library,     \* pageToggle, page and its timer
  faceDialogs, \* what the dialogs hold: deletion of images, of a face, renaming, upload, wizard
  pickedFaces, \* selectedFaces
  faceAsks, faceSent,
  faceActs

faceDataVars == <<faces, belonged, fresh>>
faceVars == <<faceDataVars, faceData, library, faceDialogs, pickedFaces, faceAsks, faceSent, faceActs>>

FaceDirs == FaceNames \cup {"train"}
Images == 1..20
NoDeletion == [name |-> "", ids |-> {}]
NoWizard == [open |-> FALSE, step |-> 0, name |-> ""]

FaceTypeOK ==
  /\ \A d \in {faces, faceData.dirs} : DOMAIN d \subseteq FaceDirs /\ \A n \in DOMAIN d : d[n] \subseteq Images
  /\ library.toggle \in FaceDirs /\ library.page \in FaceDirs /\ library.later \in FaceDirs \cup {""}
  /\ faceDialogs.wizard.step \in 0..2 /\ pickedFaces \subseteq Images
  /\ Cardinality(faceAsks) <= MaxFaceAsks /\ faceActs \in 0..MaxFaceActs

FaceInit ==
  /\ faces = FirstFaces /\ faceData = [dirs |-> FirstFaces, stale |-> FALSE]
  /\ belonged = [n \in FaceDirs |-> IF n \in DOMAIN FirstFaces THEN FirstFaces[n] ELSE {}]
  /\ fresh = Cardinality(UNION {FirstFaces[n] : n \in DOMAIN FirstFaces}) + 1
  /\ library = [toggle |-> "train", page |-> "train", later |-> ""]
  /\ faceDialogs = [deletion |-> NoDeletion, face |-> "", rename |-> "", upload |-> FALSE, wizard |-> NoWizard]
  /\ pickedFaces = {} /\ faceAsks = {} /\ faceSent = 0 /\ faceActs = 0

FaceAct == faceActs < MaxFaceActs /\ faceActs' = faceActs + 1

ListedFaces(n) == IF n \in DOMAIN faceData.dirs THEN faceData.dirs[n] ELSE {}
Known == DOMAIN faceData.dirs \ {"train"}
\* One dialog at a time; a wizard that is closed may still be given a step by a late answer.
NoFaceDialog ==
  /\ faceDialogs.deletion = NoDeletion /\ "" = faceDialogs.face /\ "" = faceDialogs.rename
  /\ ~faceDialogs.upload /\ ~faceDialogs.wizard.open

-----------------------------------------------------------------------------
(* Pages and selection *)

\* The selection is of one page.
Left_Kept(to) == UNCHANGED pickedFaces
Left(to) == pickedFaces' = IF to # library.toggle THEN {} ELSE pickedFaces

ToPage(n) == library' = [library EXCEPT !.toggle = n, !.later = n] /\ Left(n)

ChoosePage(n) ==
  /\ NoFaceDialog /\ n \in Known \cup {"train"} /\ n # library.toggle /\ FaceAct /\ ToPage(n)
  /\ UNCHANGED <<faceDataVars, faceData, faceDialogs, faceAsks, faceSent>>

\* The toggle follows the page when the page changes.
PageElapsed ==
  /\ library.later # ""
  /\ LET n == library.later
         to == IF n # library.page THEN n ELSE library.toggle
     IN library' = [toggle |-> to, page |-> n, later |-> ""] /\ Left(to)
  /\ UNCHANGED <<faceDataVars, faceData, faceDialogs, faceAsks, faceSent, faceActs>>

\* Each image clicked goes in or out; with only one picked, taking one out leaves none.
Clicked(ids) ==
  IF ids \cap pickedFaces # {} /\ Cardinality(pickedFaces) = 1 THEN ids \ pickedFaces
  ELSE (pickedFaces \ ids) \cup (ids \ pickedFaces)

\* A click with ctrl, or with images picked already; a group's click takes all of it in,
\* or out what is picked of it.
PickFaces(ids) ==
  /\ NoFaceDialog /\ ids # {} /\ ids \subseteq ListedFaces(library.toggle) /\ FaceAct
  /\ pickedFaces' = (IF Cardinality(ids) > 1 /\ ids \cap pickedFaces # {}
                     THEN pickedFaces \ ids ELSE Clicked(ids))
  /\ UNCHANGED <<faceDataVars, faceData, library, faceDialogs, faceAsks, faceSent>>

\* ctrl+a, whatever dialog is open: all of the page, or none.
PickAllFaces ==
  /\ FaceAct /\ pickedFaces' = IF pickedFaces = {} THEN ListedFaces(library.toggle) ELSE {}
  /\ UNCHANGED <<faceDataVars, faceData, library, faceDialogs, faceAsks, faceSent>>

Dialogs(d) ==
  /\ faceDialogs' = d
  /\ UNCHANGED <<faceDataVars, faceData, library, pickedFaces, faceAsks, faceSent>>

\* What the dialogs are opened with is kept until they are answered.
AskDeletion ==
  /\ NoFaceDialog /\ pickedFaces # {} /\ FaceAct
  /\ Dialogs([faceDialogs EXCEPT !.deletion = [name |-> library.toggle, ids |-> pickedFaces]])
AskFace(n) == NoFaceDialog /\ n \in Known /\ FaceAct /\ Dialogs([faceDialogs EXCEPT !.face = n])
AskRename(n) == NoFaceDialog /\ n \in Known /\ FaceAct /\ Dialogs([faceDialogs EXCEPT !.rename = n])
OpenUpload ==
  NoFaceDialog /\ library.toggle # "train" /\ pickedFaces = {} /\ FaceAct /\ Dialogs([faceDialogs EXCEPT !.upload = TRUE])
OpenWizard == NoFaceDialog /\ pickedFaces = {} /\ FaceAct /\ Dialogs([faceDialogs EXCEPT !.wizard.open = TRUE])
NameFace(n) ==
  /\ faceDialogs.wizard.open /\ faceDialogs.wizard.step = 0 /\ FaceAct
  /\ Dialogs([faceDialogs EXCEPT !.wizard.step = 1, !.wizard.name = n])

\* Closed, the wizard starts anew the next time, but does not have the faces read.
DismissFace ==
  /\ ~NoFaceDialog /\ FaceAct
  /\ Dialogs([deletion |-> NoDeletion, face |-> "", rename |-> "", upload |-> FALSE,
              wizard |-> IF faceDialogs.wizard.open THEN NoWizard ELSE faceDialogs.wizard])

-----------------------------------------------------------------------------
(* Requests *)

\* A request holds how many images the page showed when it was sent.
PostFaces(kind, n, ids, to) ==
  /\ faceSent < MaxFaceAsks /\ faceSent' = faceSent + 1
  /\ faceAsks' = faceAsks \cup {[n |-> faceSent + 1, kind |-> kind, name |-> n, ids |-> ids, to |-> to,
        shown |-> IF library.toggle \in DOMAIN faceData.dirs THEN Cardinality(ListedFaces(library.toggle)) ELSE -1,
        served |-> "no"]}

ConfirmDeletion ==
  /\ faceDialogs.deletion # NoDeletion /\ FaceAct
  /\ PostFaces("delete", faceDialogs.deletion.name, faceDialogs.deletion.ids, "")
  /\ faceDialogs' = [faceDialogs EXCEPT !.deletion = NoDeletion]
  /\ UNCHANGED <<faceDataVars, faceData, library, pickedFaces>>

\* The bin of one image of a face.
DeleteImage(i) ==
  /\ NoFaceDialog /\ library.toggle # "train" /\ i \in ListedFaces(library.toggle) /\ FaceAct
  /\ PostFaces("delete", library.toggle, {i}, "")
  /\ UNCHANGED <<faceDataVars, faceData, library, faceDialogs, pickedFaces>>

\* A whole face: the images that the page knows of it.
ConfirmFace ==
  /\ faceDialogs.face # "" /\ FaceAct /\ PostFaces("delete", faceDialogs.face, ListedFaces(faceDialogs.face), "")
  /\ faceDialogs' = [faceDialogs EXCEPT !.face = ""]
  /\ ToPage("train") /\ UNCHANGED <<faceDataVars, faceData>>

ConfirmRename(to) ==
  /\ faceDialogs.rename # "" /\ FaceAct /\ PostFaces("rename", faceDialogs.rename, {}, to)
  /\ faceDialogs' = [faceDialogs EXCEPT !.rename = ""]
  /\ UNCHANGED <<faceDataVars, faceData, library, pickedFaces>>

\* The menus of an attempt work with or without a selection.
TrainAttempt(i, n) ==
  /\ NoFaceDialog /\ library.toggle = "train" /\ i \in ListedFaces("train") /\ FaceAct /\ PostFaces("train", "train", {i}, n)
  /\ UNCHANGED <<faceDataVars, faceData, library, faceDialogs, pickedFaces>>
Reprocess(i) ==
  /\ NoFaceDialog /\ library.toggle = "train" /\ i \in ListedFaces("train") /\ FaceAct
  /\ PostFaces("reprocess", "train", {i}, "train")
  /\ UNCHANGED <<faceDataVars, faceData, library, faceDialogs, pickedFaces>>

UploadImage ==
  /\ faceDialogs.upload /\ FaceAct /\ PostFaces("register", library.toggle, {}, "")
  /\ UNCHANGED <<faceDataVars, faceData, library, faceDialogs, pickedFaces>>
UploadFirst ==
  /\ faceDialogs.wizard.open /\ faceDialogs.wizard.step = 1 /\ FaceAct /\ PostFaces("create", faceDialogs.wizard.name, {}, "")
  /\ UNCHANGED <<faceDataVars, faceData, library, faceDialogs, pickedFaces>>
FinishWizard ==
  /\ faceDialogs.wizard.open /\ faceDialogs.wizard.step = 2 /\ FaceAct
  /\ faceDialogs' = [faceDialogs EXCEPT !.wizard = NoWizard] /\ faceData' = [faceData EXCEPT !.stale = TRUE]
  /\ UNCHANGED <<faceDataVars, library, pickedFaces, faceAsks, faceSent>>

\* The server's folders: one that is emptied goes, unless it is the attempts'.
Folder(dirs, n, s) ==
  [d \in (DOMAIN dirs \cup {n}) \ (IF s = {} /\ n # "train" THEN {n} ELSE {}) |-> IF d = n THEN s ELSE dirs[d]]
Dir(n) == IF n \in DOMAIN faces THEN faces[n] ELSE {}

ServeFace(r) ==
  /\ r.served = "no"
  /\ LET missing == \/ r.kind \in {"delete", "rename"} /\ r.name \notin DOMAIN faces
                    \/ r.kind = "rename" /\ r.to \in DOMAIN faces \ {r.name}
                    \/ r.kind \in {"train", "reprocess"} /\ ~ r.ids \subseteq Dir("train")
         adds == r.kind \in {"train", "reprocess", "register", "create"}
         into == IF r.kind \in {"train", "reprocess"} THEN r.to ELSE r.name
     IN  IF missing
         THEN faceAsks' = (faceAsks \ {r}) \cup {[r EXCEPT !.served = "failed"]} /\ UNCHANGED faceDataVars
         ELSE /\ faceAsks' = (faceAsks \ {r}) \cup {[r EXCEPT !.served = "done"]}
              /\ LET left == IF r.kind = "rename" THEN Folder(faces, r.name, {})
                             ELSE IF r.ids = {} THEN faces ELSE Folder(faces, r.name, Dir(r.name) \ r.ids)
                 IN faces' = IF r.kind = "rename" THEN Folder(left, r.to, Dir(r.name))
                             ELSE IF adds THEN Folder(left, into, (IF into \in DOMAIN left THEN left[into] ELSE {}) \cup {fresh})
                             ELSE left
              /\ belonged' = [n \in FaceDirs |-> belonged[n] \cup (IF n \in DOMAIN faces' THEN faces'[n] ELSE {})]
              /\ fresh' = IF adds THEN fresh + 1 ELSE fresh
  /\ UNCHANGED <<faceData, library, faceDialogs, pickedFaces, faceSent, faceActs>>

\* A deletion ends on the attempts when the page showed one image; it throws, and is
\* reported as failed, when the page showed a face that is gone.
Deleted(r) ==
  /\ IF r.shown = 1 /\ library.toggle # "train"
     THEN library' = [library EXCEPT !.toggle = "train", !.later = "train"] ELSE UNCHANGED library
  /\ pickedFaces' = {}
  /\ faceData' = [faceData EXCEPT !.stale = @ \/ r.shown >= 0]
  /\ UNCHANGED faceDialogs

Done(r) ==
  CASE r.kind = "delete" -> Deleted(r)
    [] r.kind = "rename" ->
         ToPage("train") /\ faceData' = [faceData EXCEPT !.stale = TRUE] /\ UNCHANGED faceDialogs
    [] r.kind = "create" ->
         /\ faceDialogs' = [faceDialogs EXCEPT !.wizard.step = 2]
         /\ UNCHANGED <<faceData, library, pickedFaces>>
    [] OTHER ->
         /\ faceDialogs' = IF r.kind = "register" THEN [faceDialogs EXCEPT !.upload = FALSE] ELSE faceDialogs
         /\ faceData' = [faceData EXCEPT !.stale = TRUE] /\ UNCHANGED <<library, pickedFaces>>

\* An answer; a request may also be lost before it is served.
AnswerFace(r) ==
  /\ faceAsks' = faceAsks \ {r}
  /\ \/ r.served = "done" /\ Done(r)
     \/ r.served # "done" /\ UNCHANGED <<faceData, library, faceDialogs, pickedFaces>>
  /\ UNCHANGED <<faceDataVars, faceSent, faceActs>>

FacesRead ==
  /\ faceData.stale /\ faceData' = [dirs |-> faces, stale |-> FALSE]
  /\ UNCHANGED <<faceDataVars, library, faceDialogs, pickedFaces, faceAsks, faceSent, faceActs>>

FaceNext ==
  \/ \E n \in FaceDirs : ChoosePage(n) \/ AskFace(n) \/ AskRename(n)
  \/ \E n \in FaceNames : NameFace(n) \/ ConfirmRename(n) \/ \E i \in ListedFaces("train") : TrainAttempt(i, n)
  \/ PageElapsed \/ PickAllFaces \/ AskDeletion \/ ConfirmDeletion \/ ConfirmFace \/ DismissFace
  \/ OpenUpload \/ OpenWizard \/ UploadImage \/ UploadFirst \/ FinishWizard \/ FacesRead
  \/ \E ids \in SUBSET ListedFaces(library.toggle) : PickFaces(ids)
  \/ \E i \in ListedFaces(library.toggle) : DeleteImage(i) \/ Reprocess(i)
  \/ \E r \in faceAsks : ServeFace(r) \/ AnswerFace(r)

FaceSpec == FaceInit /\ [][FaceNext]_faceVars

-----------------------------------------------------------------------------
(* Properties *)

\* Images are deleted from a face that had them: a page that is left, by the user or by
\* the answer of another request, takes its selection along.
DeletesAreOfTheirFace ==
  /\ \A r \in faceAsks : r.kind = "delete" => r.ids \subseteq belonged[r.name]
  /\ faceDialogs.deletion.ids \subseteq (IF faceDialogs.deletion = NoDeletion THEN {} ELSE belonged[faceDialogs.deletion.name])
================================================================================
