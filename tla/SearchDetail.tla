----------------------------- MODULE SearchDetail -----------------------------
(***************************************************************************)
(* The details of a tracked object, opened from the results of a search:   *)
(* its tabs, the edits of its label, plate and description, the submission *)
(* to Frigate+ and its lifecycle.  The dialog shows a copy of the row that *)
(* was clicked; answers write both the rows and the copy, and an effect    *)
(* makes the copy follow the row.                                          *)
(***************************************************************************)
EXTENDS Integers, FiniteSets, Sequences

CONSTANTS
  DetailIds,       \* the objects found, in the order of the list
  Clips, Snaps,    \* the objects with a clip, with a snapshot
  Steps,           \* the number of steps of each object's lifecycle
  Words,           \* what the user enters
  MaxDetailActs,   \* bound: things the user does
  MaxEdits         \* bound: requests

ASSUME SearchDetailAssumption ==
  /\ Clips \subseteq DetailIds /\ Snaps \subseteq DetailIds /\ "" \notin Words \cup DetailIds
  /\ Steps \in [DetailIds -> Nat \ {0}] /\ {MaxDetailActs, MaxEdits} \subseteq Nat

VARIABLES
  storedRows,      \* the server's rows
  listed,      \* searchResults: the rows this page has
  detail,      \* searchDetail, the copy that is shown; own: an answer made it
  detailDialog,      \* isOpen, the close timers, page, pageToggle and its timer
  field,       \* desc of the details tab: its text, the object it is from, when it was mounted
  entry,       \* the text dialog that is open
  edits,       \* the requests that are not answered
  sentEdits, lastEdit,
  refetch,     \* the rows a refetch brings, read when it was asked
  life,        \* the lifecycle tab
  offset,      \* detect.annotation_offset of the configuration
  crashed,     \* an effect has thrown: nothing is rendered any more
  detailActs

rowVars == <<storedRows, listed, refetch>>
editVars == <<edits, sentEdits, lastEdit>>
shownVars == <<detail, detailDialog, field, entry, life, crashed>>
detailVars == <<rowVars, editVars, shownVars, offset, detailActs>>

Fields == {"label", "plate", "desc"}
DetailTabs == {"details", "snapshot", "video", "object_lifecycle"}
NoRows == [o \in {} |-> ""]
NoDetail == [id |-> "", own |-> FALSE, row |-> NoRows]
NoField == [text |-> "", from |-> "", born |-> 0]
NoLife == [on |-> FALSE, loaded |-> FALSE, current |-> 0, card |-> 0, of |-> "", at |-> 0, offset |-> 0]

Row == [label : Words \cup {""}, plate : Words \cup {""}, desc : Words \cup {"", "ai"}, plus : BOOLEAN]

DetailTypeOK ==
  /\ storedRows \in [DetailIds -> Row] /\ listed \in [DetailIds -> Row]
  /\ detail = NoDetail \/ (detail.id \in DetailIds /\ detail.row \in Row)
  /\ {detailDialog.page, detailDialog.toggle} \subseteq DetailTabs /\ detailDialog.later \in DetailTabs \cup {""}
  /\ entry \in {"", "label", "plate"} /\ Cardinality(edits) <= MaxEdits
  /\ life.current \in -1..9 /\ detailActs \in 0..MaxDetailActs

DetailInit ==
  /\ storedRows = [o \in DetailIds |-> [label |-> "", plate |-> "", desc |-> "", plus |-> FALSE]]
  /\ listed = storedRows /\ refetch = NoRows /\ detail = NoDetail /\ field = NoField /\ entry = ""
  /\ detailDialog = [open |-> FALSE, closing |-> 0, page |-> "details", toggle |-> "details", later |-> ""]
  /\ edits = {} /\ sentEdits = 0 /\ lastEdit = [k \in DetailIds \X Fields |-> ""]
  /\ life = NoLife /\ offset = 0 /\ crashed = FALSE /\ detailActs = 0

DetailAct == ~crashed /\ detailActs < MaxDetailActs /\ detailActs' = detailActs + 1

\* searchTabs: a tab needs what it shows.
OfferedTabs(o) ==
  {"details"} \cup (IF o \in Snaps THEN {"snapshot"} ELSE {})
              \cup (IF o \in Clips THEN {"video", "object_lifecycle"} ELSE {})

-----------------------------------------------------------------------------
(* The effects: what follows a change of the rows, of the copy or of the   *)
(* page, in the order in which the renders settle.                          *)

\* The copy becomes the row of the same object unless the two are equal.
Followed(d, rows) ==
  IF d # NoDetail /\ rows[d.id] # d.row THEN [id |-> d.id, own |-> FALSE, row |-> rows[d.id]] ELSE d

\* The optimistic toggle follows a changed page; a toggle or an object that changes has
\* the page set when the toggle is not offered.
Turned(dl, d) ==
  LET t == IF dl.page # detailDialog.page THEN dl.page ELSE dl.toggle
      refused == /\ d # NoDetail /\ t \notin OfferedTabs(d.id)
                 /\ t # detailDialog.toggle \/ d # detail
  IN  [dl EXCEPT !.open = (d # NoDetail /\ d # detail) \/ @,
         !.page = IF refused THEN "details" ELSE @,
         !.toggle = IF refused /\ dl.page # "details" THEN "details" ELSE t]

\* The text is the copy's again whenever the copy changes, and when the tab is mounted.
FieldNow(f, d, page) ==
  IF d = NoDetail \/ page # "details" THEN NoField
  ELSE IF f = NoField THEN [text |-> d.row.desc, from |-> d.id, born |-> detailActs + 1]
  ELSE IF d # detail THEN [f EXCEPT !.text = d.row.desc, !.from = d.id] ELSE f

\* The lifecycle takes the offset when it is mounted and fetches each object's steps.
LifeNow(l, d, page) ==
  IF d = NoDetail \/ page # "object_lifecycle" THEN NoLife
  ELSE IF ~l.on THEN [NoLife EXCEPT !.on = TRUE, !.offset = offset]
  ELSE IF d.id # detail.id THEN [l EXCEPT !.loaded = FALSE] ELSE l

Settle(d0, dl0, f0, l0, rows) ==
  LET d == Followed(d0, rows)
      dl == Turned(dl0, d)
  IN  /\ detail' = d /\ detailDialog' = dl
      /\ field' = FieldNow(f0, d, dl.page) /\ life' = LifeNow(l0, d, dl.page)
      /\ entry' = IF d = NoDetail \/ dl.page # "details" THEN "" ELSE entry

Show(d, dl) == Settle(d, dl, field, life, listed) /\ UNCHANGED <<crashed, offset>>
RowOf(o) == [id |-> o, own |-> FALSE, row |-> listed[o]]

-----------------------------------------------------------------------------
(* Opening, closing and turning pages *)

\* A thumbnail: a click on it starts with the details, its menu or the label keep the page.
OpenObject(o, keep) ==
  /\ ~detailDialog.open /\ DetailAct
  /\ Show(RowOf(o), [detailDialog EXCEPT !.page = IF keep THEN @ ELSE "details"])
  /\ UNCHANGED <<rowVars, editVars>>

\* The arrow keys, open or not, unless an input or the description has the focus.
ArrowKey(o) ==
  /\ o # detail.id /\ DetailAct /\ Show(RowOf(o), detailDialog) /\ UNCHANGED <<rowVars, editVars>>

CloseDetail ==
  /\ detailDialog.open /\ detail # NoDetail /\ DetailAct
  /\ detailDialog' = [detailDialog EXCEPT !.open = FALSE, !.closing = @ + 1]
  /\ UNCHANGED <<rowVars, editVars, detail, field, entry, life, offset, crashed>>

\* 300 ms later, whatever is shown by then.
CloseElapsed ==
  /\ ~crashed /\ detailDialog.closing > 0 /\ Show(NoDetail, [detailDialog EXCEPT !.closing = @ - 1])
  /\ UNCHANGED <<rowVars, editVars, detailActs>>

ChooseTab(tab) ==
  /\ detailDialog.open /\ detail # NoDetail /\ tab \in OfferedTabs(detail.id) \ {detailDialog.toggle} /\ entry = ""
  /\ DetailAct /\ Show(detail, [detailDialog EXCEPT !.toggle = tab, !.later = tab])
  /\ UNCHANGED <<rowVars, editVars>>

TabElapsed ==
  /\ ~crashed /\ detailDialog.later # ""
  /\ Show(detail, [detailDialog EXCEPT !.page = detailDialog.later, !.later = ""])
  /\ UNCHANGED <<rowVars, editVars, detailActs>>

-----------------------------------------------------------------------------
(* Edits *)

OnDetails == detailDialog.open /\ field # NoField /\ entry = "" /\ DetailAct

TypeDescription(w) ==
  /\ OnDetails /\ field' = [field EXCEPT !.text = w]
  /\ UNCHANGED <<rowVars, editVars, detail, detailDialog, entry, life, offset, crashed>>

AskEdit(f, w) ==
  /\ sentEdits < MaxEdits /\ sentEdits' = sentEdits + 1
  /\ edits' = edits \cup {[n |-> sentEdits + 1, field |-> f, text |-> w, of |-> detail,
                           born |-> field.born, served |-> FALSE]}
  /\ UNCHANGED <<rowVars, lastEdit, offset, crashed, detail, detailDialog, field, life>>

SaveDescription == OnDetails /\ AskEdit("desc", field.text) /\ UNCHANGED entry
RegenerateDescription == OnDetails /\ AskEdit("regenerate", "ai") /\ UNCHANGED entry

OpenEntry(f) ==
  /\ OnDetails /\ entry' = f
  /\ UNCHANGED <<rowVars, editVars, detail, detailDialog, field, life, offset, crashed>>

\* The dialog stays until the answer, or until it is cancelled.
SaveEntry(w) == entry # "" /\ DetailAct /\ AskEdit(entry, w) /\ UNCHANGED entry
CancelEntry ==
  /\ entry # "" /\ DetailAct /\ entry' = ""
  /\ UNCHANGED <<rowVars, editVars, detail, detailDialog, field, life, offset, crashed>>

\* "Submitted" is marked on the shown object itself, its row unless it is a copy, and nobody waits.
SubmitToPlus ==
  /\ detailDialog.open /\ detailDialog.page = "snapshot" /\ detail # NoDetail /\ ~detail.row.plus /\ DetailAct
  /\ sentEdits < MaxEdits /\ sentEdits' = sentEdits + 1
  /\ edits' = edits \cup {[n |-> sentEdits + 1, field |-> "plus", text |-> "", of |-> detail,
                           born |-> 0, served |-> FALSE]}
  /\ detail' = [detail EXCEPT !.row.plus = TRUE]
  /\ listed' = IF detail.own THEN listed ELSE [listed EXCEPT ![detail.id].plus = TRUE]
  /\ UNCHANGED <<storedRows, refetch, lastEdit, detailDialog, field, entry, life, offset, crashed>>

Serve(e) ==
  /\ ~e.served /\ edits' = (edits \ {e}) \cup {[e EXCEPT !.served = TRUE]}
  /\ storedRows' = CASE e.field = "plus" -> [storedRows EXCEPT ![e.of.id].plus = TRUE]
                 [] e.field = "regenerate" -> [storedRows EXCEPT ![e.of.id].desc = "ai"]
                 [] OTHER -> [storedRows EXCEPT ![e.of.id][e.field] = e.text]
  /\ UNCHANGED <<listed, refetch, sentEdits, lastEdit, shownVars, offset, detailActs>>

Updated_Row(rows, e) == [rows EXCEPT ![e.of.id] = [e.of.row EXCEPT ![e.field] = e.text]]

\* The optimistic update of every list: the object's own row, the field that was sent.
Updated(rows, e) == [rows EXCEPT ![e.of.id][e.field] = e.text]

\* Label and plate also show the object again, as it was when they were saved.
Answer(e) ==
  /\ ~crashed /\ e.served /\ e.field \in Fields /\ edits' = edits \ {e}
  /\ listed' = Updated(listed, e) /\ refetch' = NoRows
  /\ lastEdit' = [lastEdit EXCEPT ![<<e.of.id, e.field>>] = e.text]
  /\ LET again == [id |-> e.of.id, own |-> TRUE, row |-> [e.of.row EXCEPT ![e.field] = e.text]]
         here == field.born = e.born
     IN  IF e.field = "desc" THEN Settle(detail, detailDialog, field, life, listed')
         ELSE LET d == Followed(again, listed')
              IN  /\ detail' = d /\ detailDialog' = Turned(detailDialog, d)
                  /\ field' = FieldNow(field, d, detailDialog'.page) /\ life' = LifeNow(life, d, detailDialog'.page)
                  /\ entry' = IF here /\ entry = e.field THEN "" ELSE entry
  /\ UNCHANGED <<storedRows, sentEdits, offset, crashed, detailActs>>

\* Answers that only tell the user something.
AnswerOther(e) ==
  /\ e.served /\ e.field \notin Fields /\ edits' = edits \ {e}
  /\ UNCHANGED <<rowVars, sentEdits, lastEdit, shownVars, offset, detailActs>>

\* A description that could not be saved is put back as it was when it was saved.
Fail(e) ==
  /\ ~e.served /\ edits' = edits \ {e}
  /\ field' = IF e.field = "desc" /\ field.born = e.born
              THEN [field EXCEPT !.text = e.of.row.desc, !.from = e.of.id] ELSE field
  /\ UNCHANGED <<rowVars, sentEdits, lastEdit, detail, detailDialog, entry, life, crashed, offset, detailActs>>

\* A message about an object, or the focus, has the list read again; an optimistic
\* update meanwhile discards what was read.
Revalidate ==
  /\ refetch = NoRows /\ storedRows # listed /\ refetch' = storedRows
  /\ UNCHANGED <<storedRows, listed, editVars, shownVars, offset, detailActs>>

RowsRevalidated ==
  /\ ~crashed /\ refetch # NoRows /\ listed' = refetch /\ refetch' = NoRows
  /\ Settle(detail, detailDialog, field, life, refetch)
  /\ UNCHANGED <<storedRows, editVars, offset, crashed, detailActs>>

-----------------------------------------------------------------------------
(* The lifecycle *)

\* The steps of the shown object arrive: the effect of the current step reads the
\* sequence at it, and throws beyond its end; -1 is a plain point of the path.
StepsArrive ==
  /\ ~crashed /\ life.on /\ ~life.loaded
  /\ crashed' = (life.current >= Steps[detail.id])
  /\ life' = [life EXCEPT !.loaded = TRUE, !.card = 0,
                !.of = IF life.current = -1 THEN @ ELSE detail.id, !.at = IF life.current = -1 THEN @ ELSE life.current]
  /\ UNCHANGED <<rowVars, editVars, detail, detailDialog, field, entry, offset, detailActs>>

LifeAct(l) ==
  /\ life.loaded /\ detailDialog.open /\ DetailAct /\ life' = l
  /\ UNCHANGED <<rowVars, editVars, detail, detailDialog, field, entry, offset, crashed>>

\* A thumbnail, the arrows beside them, the card's own swipe or a step on the path.
GoToStep(i) ==
  LifeAct([life EXCEPT !.current = i, !.card = i, !.of = detail.id, !.at = i])
ChooseStep(i) == life.loaded /\ i < Steps[detail.id] /\ i # life.current /\ GoToStep(i)
NextStep == life.loaded /\ life.current # Steps[detail.id] - 1 /\ GoToStep(life.current + 1)
PreviousStep == life.loaded /\ life.current # 0 /\ GoToStep(IF life.current > 0 THEN life.current - 1 ELSE 0)
PlainPoint == LifeAct([life EXCEPT !.current = -1, !.of = detail.id, !.at = -1])

\* Apply changes this view only, Save the configuration only.
ApplyOffset(v) == v # life.offset /\ LifeAct([life EXCEPT !.offset = v])
SaveOffset(v) ==
  /\ life.loaded /\ detailDialog.open /\ DetailAct /\ offset' \in {offset, v}
  /\ UNCHANGED <<rowVars, editVars, shownVars>>

DetailNext ==
  \/ \E o \in DetailIds : ArrowKey(o) \/ \E keep \in BOOLEAN : OpenObject(o, keep)
  \/ CloseDetail \/ CloseElapsed \/ TabElapsed \/ \E tab \in DetailTabs : ChooseTab(tab)
  \/ \E w \in Words : TypeDescription(w) \/ SaveEntry(w)
  \/ SaveDescription \/ RegenerateDescription \/ CancelEntry \/ SubmitToPlus
  \/ \E f \in {"label", "plate"} : OpenEntry(f)
  \/ \E e \in edits : Serve(e) \/ Answer(e) \/ AnswerOther(e) \/ Fail(e)
  \/ Revalidate \/ RowsRevalidated
  \/ StepsArrive \/ NextStep \/ PreviousStep \/ PlainPoint
  \/ \E i \in 0..3 : ChooseStep(i)
  \/ \E v \in 0..1 : ApplyOffset(v) \/ SaveOffset(v)

DetailSpec == DetailInit /\ [][DetailNext]_detailVars

-----------------------------------------------------------------------------
(* Properties *)

\* What the server did and this page has not heard of, and what it did by itself.
Unanswered(o, f) == \E e \in edits : e.served /\ e.of.id = o /\ e.field = f
Described(o, f) == f = "desc" /\ storedRows[o].desc = "ai"

\* Once what was asked about a field is answered, and unless the server described the object
\* itself, the object shown has the value that the last answer accepted or the server's: no
\* answer undoes another edit, and no list that was read before an edit takes it back.
EditsAreShown ==
  \A f \in Fields :
    detail # NoDetail /\ ~Unanswered(detail.id, f) /\ ~Described(detail.id, f)
      => detail.row[f] \in {lastEdit[<<detail.id, f>>], storedRows[detail.id][f]}
================================================================================
