----------------------------- MODULE MasksEditor -----------------------------
(***************************************************************************)
(* The masks and zones page of one camera: the polygons of the config are  *)
(* listed and edited on a canvas; a save or a deletion writes the zone, or *)
(* the whole list of masks it belongs to, to the server's config.  The     *)
(* list of the page is taken again from the config whenever that changes.  *)
(***************************************************************************)
EXTENDS Integers, Sequences, FiniteSets

LOCAL INSTANCE SequencesExt
LOCAL INSTANCE Bags

CONSTANTS
  FirstConfigs,    \* configs that the page may start with
  MaxPoints,       \* bound: points of a polygon
  MaxMaskActs      \* bound: things the user does

ASSUME MasksAssumption == MaxPoints \in Nat /\ MaxMaskActs \in Nat

VARIABLES
  served,      \* the camera's config on the server
  fetchedConfig,     \* the config that the page was last given
  allPolygons,         \* allPolygons
  editingPolygons,     \* editingPolygons
  active,      \* activePolygonIndex, from 1 (0: undefined)
  pane,        \* editPane ("": undefined)
  paneForm,        \* values of the open pane, and what it was opened for (ghost)
  loading,     \* isLoading of the page
  puts,        \* config/set requests that are not answered
  alive,       \* the page has not been unmounted by an error
  lastShape,   \* the last outline drawn
  maskActs

masksVars == <<served, fetchedConfig, allPolygons, editingPolygons, active, pane, paneForm, loading, puts, alive, lastShape, maskActs>>

Kinds == {"zone", "motion_mask", "object_mask"}
ZoneNames == {"porch", "yard"}
NoForm == [name |-> "", object |-> "", speed |-> FALSE, lines |-> FALSE, loiter |-> FALSE, opened |-> {}]

\* A mask is an outline; a filter holds its own masks, and is shown with the global ones.
FilterMask(c) == IF c.global = <<>> THEN c.filter ELSE c.filter \o c.global
ZoneNamesOf(c) == {c.zones[i].name : i \in 1..Len(c.zones)}

Polygon(kind, index, name, object, objects, mask) ==
  [type |-> kind, typeIndex |-> index, name |-> name, object |-> object, objects |-> objects,
   shape |-> mask.shape, changed |-> FALSE, points |-> mask.points, order |-> <<>>, isFinished |-> TRUE]

\* The polygons of a config.  Masks of a filter that are global as well are left out.
PolygonsOf(c) ==
  LET own == {i \in 1..Len(FilterMask(c)) : ~Contains(c.global, FilterMask(c)[i])}
      nth(k) == CHOOSE i \in own : Cardinality({j \in own : j <= i}) = k
  IN [i \in 1..Len(c.zones) |-> Polygon("zone", i, c.zones[i].name, "", c.zones[i].objects, c.zones[i].mask)]
     \o [i \in 1..Len(c.motion) |-> Polygon("motion_mask", i, "mask", "", {}, c.motion[i])]
     \o [i \in 1..Len(c.global) |-> Polygon("object_mask", i, "mask", "", {}, c.global[i])]
     \o [k \in 1..Cardinality(own) |-> Polygon("object_mask", nth(k), "mask", "car", {}, FilterMask(c)[nth(k)])]

MasksTypeOK ==
  /\ active \in 0..8 /\ pane \in Kinds \cup {""} /\ loading \in BOOLEAN /\ alive \in BOOLEAN
  /\ \A c \in {served, fetchedConfig} : c.alerts \subseteq ZoneNamesOf(c)
  /\ \A i \in 1..Len(editingPolygons) :
        editingPolygons[i].type \in Kinds /\ editingPolygons[i].points \in 0..MaxPoints /\ Len(editingPolygons[i].order) <= 2 * MaxPoints
  /\ alive /\ active # 0 => pane # "" /\ active <= Len(editingPolygons)
  /\ paneForm.name \in ZoneNames \cup {"", "mask"} /\ paneForm.object \in {"", "car"} /\ maskActs \in 0..MaxMaskActs

MasksInit ==
  /\ served \in FirstConfigs /\ fetchedConfig = served /\ allPolygons = PolygonsOf(served) /\ editingPolygons = PolygonsOf(served)
  /\ active = 0 /\ pane = "" /\ paneForm = NoForm /\ loading = FALSE /\ puts = {} /\ alive = TRUE
  /\ lastShape = 20 /\ maskActs = 0

MaskAct == alive /\ maskActs < MaxMaskActs /\ maskActs' = maskActs + 1

-----------------------------------------------------------------------------
(* The list *)

\* The canvas gives a finished polygon the order of its points when it becomes active.
WithOrder(p) == IF p.order = <<>> /\ p.isFinished THEN [p EXCEPT !.order = [i \in 1..p.points |-> i - 1]] ELSE p
Meant(kind, object, name, shape) == {[type |-> kind, object |-> object, name |-> name, shape |-> shape]}
MeantBy(p) == IF p.shape = 0 THEN {} ELSE Meant(p.type, p.object, IF p.type = "zone" THEN p.name ELSE "", p.shape)
Open(kind, polygons, i) ==
  LET p == WithOrder(polygons[i])
  IN /\ editingPolygons' = [polygons EXCEPT ![i] = p] /\ active' = i /\ pane' = kind
     /\ paneForm' = [NoForm EXCEPT !.name = p.name, !.object = p.object, !.opened = MeantBy(p),
                               !.speed = p.type = "zone" /\ p.points = 4 /\ \E z \in 1..Len(fetchedConfig.zones) : fetchedConfig.zones[z].name = p.name /\ fetchedConfig.zones[z].speed,
                               !.lines = p.type = "zone" /\ \E z \in 1..Len(fetchedConfig.zones) : fetchedConfig.zones[z].name = p.name /\ fetchedConfig.zones[z].speed]

HandleNewPolygon(kind, points) ==
  Open(kind, Append(allPolygons, [Polygon(kind, 9999, "", "", {}, [shape |-> 0, points |-> points]) EXCEPT !.isFinished = points > 0]),
       Len(allPolygons) + 1)

NewPolygon(kind) ==
  /\ MaskAct /\ pane = "" /\ HandleNewPolygon(kind, 0)
  /\ UNCHANGED <<served, fetchedConfig, allPolygons, loading, puts, alive, lastShape>>

\* The address asks for an object mask below a tracked object: a box that is finished.
NewFromAddress ==
  /\ MaskAct /\ ~loading /\ pane = "" /\ HandleNewPolygon("object_mask", 4)
  /\ UNCHANGED <<served, fetchedConfig, allPolygons, loading, puts, alive, lastShape>>

EditPolygon(i) ==
  /\ MaskAct /\ pane = "" /\ Open(allPolygons[i].type, editingPolygons, i)
  /\ UNCHANGED <<served, fetchedConfig, allPolygons, loading, puts, alive, lastShape>>

Closed == pane' = "" /\ active' = 0 /\ paneForm' = NoForm

CancelPane ==
  /\ MaskAct /\ pane # "" /\ Closed /\ editingPolygons' = allPolygons
  /\ UNCHANGED <<served, fetchedConfig, allPolygons, loading, puts, alive, lastShape>>

\* Another camera and back, or another size of the window: taken from the config again.
Rescale(closes) ==
  /\ MaskAct /\ allPolygons' = PolygonsOf(fetchedConfig) /\ editingPolygons' = PolygonsOf(fetchedConfig)
  /\ IF closes THEN Closed ELSE UNCHANGED <<pane, active, paneForm>>
  /\ alive' = (closes \/ active <= Len(editingPolygons'))
  /\ UNCHANGED <<served, fetchedConfig, loading, puts, lastShape>>

-----------------------------------------------------------------------------
(* The canvas and its buttons *)

\* A click beside the points of an open polygon, or on an edge of a finished one.
AddPoint(p) ==
  IF p.points >= MaxPoints \/ Len(p.order) >= 2 * MaxPoints THEN {}
  ELSE {[p EXCEPT !.points = @ + 1, !.order = InsertAt(@, Min({i, Len(@) + 1}), p.points + 1)] :
          i \in IF p.isFinished THEN 2..(p.points + 1) ELSE 1..(p.points + 1)}
DeletePoint(p) ==
  {[p EXCEPT !.points = @ - 1, !.order = IF i <= Len(@) THEN RemoveAt(@, i) ELSE @] : i \in 1..p.points}
ClosePolygon(p) == IF p.points >= 3 THEN {[p EXCEPT !.isFinished = TRUE, !.order = WithOrder([p EXCEPT !.isFinished = TRUE]).order]} ELSE {}
DragPoints(p) == IF p.points > 0 THEN {p} ELSE {}

\* The point that was added last: the first of those with the greatest order.
Undo(p) ==
  IF p.points = 0 \/ p.order = <<>> THEN {}
  ELSE LET last == CHOOSE i \in 1..Len(p.order) :
                     /\ \A j \in 1..Len(p.order) : p.order[j] <= p.order[i]
                     /\ \A j \in 1..(i - 1) : p.order[j] < p.order[i]
       IN {[p EXCEPT !.points = IF last <= @ THEN @ - 1 ELSE @, !.order = RemoveAt(@, last), !.isFinished = @ /\ p.points > 3]}
ResetPoints(p) == IF p.points > 0 THEN {[p EXCEPT !.points = 0, !.isFinished = FALSE]} ELSE {}

\* A zone with a speed loses the switch when it has not four points.
Canvas ==
  /\ MaskAct /\ active # 0
  /\ \E p \in AddPoint(editingPolygons[active]) \cup DeletePoint(editingPolygons[active]) \cup ClosePolygon(editingPolygons[active])
              \cup DragPoints(editingPolygons[active]) \cup Undo(editingPolygons[active]) \cup ResetPoints(editingPolygons[active]) :
        /\ editingPolygons' = [editingPolygons EXCEPT ![active] = [p EXCEPT !.changed = TRUE]]
        /\ paneForm' = [paneForm EXCEPT !.speed = @ /\ p.points = 4]
  /\ UNCHANGED <<served, fetchedConfig, allPolygons, active, pane, loading, puts, alive, lastShape>>

-----------------------------------------------------------------------------
(* The forms *)

EditForm ==
  /\ MaskAct /\ pane # "" /\ active # 0
  /\ \/ /\ pane = "zone" /\ \E n \in ZoneNames : paneForm' = [paneForm EXCEPT !.name = n]
     \/ /\ pane = "zone" /\ \E loiter \in BOOLEAN : paneForm' = [paneForm EXCEPT !.loiter = loiter]
     \/ /\ pane = "zone" /\ ~(~paneForm.speed /\ (paneForm.loiter \/ (active > 1 /\ editingPolygons[active].points # 4)))
        /\ paneForm' = [paneForm EXCEPT !.speed = ~@]
     \/ /\ pane = "zone" /\ editingPolygons[active].points = 4 /\ paneForm' = [paneForm EXCEPT !.lines = ~@]
     \/ /\ pane = "object_mask" /\ editingPolygons[active].name = "" /\ \E o \in {"", "car"} : paneForm' = [paneForm EXCEPT !.object = o]
  /\ UNCHANGED <<served, fetchedConfig, allPolygons, editingPolygons, active, pane, loading, puts, alive, lastShape>>

SelectZoneObjects ==
  /\ MaskAct /\ pane = "zone" /\ active # 0
  /\ \E objects \in SUBSET {"car"} : editingPolygons' = [editingPolygons EXCEPT ![active].objects = objects]
  /\ UNCHANGED <<served, fetchedConfig, allPolygons, active, pane, paneForm, loading, puts, alive, lastShape>>

\* Names are compared with those of the other polygons of the page.
ZoneIsValid ==
  /\ paneForm.name # "" /\ \A i \in (1..Len(editingPolygons)) \ {active} : editingPolygons[i].name # paneForm.name
  /\ paneForm.speed => paneForm.lines /\ ~paneForm.loiter
IsValid == editingPolygons[active].isFinished /\ (pane = "zone" => ZoneIsValid)

-----------------------------------------------------------------------------
(* What is written *)

\* reviewQueries: the required zones with a zone, or without it.
ReviewQueries(name, required, zones) == IF required THEN zones \cup {name} ELSE zones \ {name}

\* filter and splice: an index that the list has not appends.
Spliced_Insert(s, i, x) == IF i <= Len(s) THEN InsertAt(s, i, x) ELSE Append(s, x)
Spliced(s, i, x) == IF i <= Len(s) THEN [s EXCEPT ![i] = x] ELSE Append(s, x)
Without(s, i) == IF i <= Len(s) THEN RemoveAt(s, i) ELSE s

\* A put: the list or the zone it replaces, and what the user means to change (ghost).
ConfigPut(what, value, by, old, new) == [what |-> what, value |-> value, by |-> by, old |-> old, new |-> new]
MasksPut(what, masks, by, old, new) == ConfigPut(what, [masks |-> masks], by, old, new)

Applied(c, put) ==
  CASE put.what \in {"motion", "global", "filter"} -> [c EXCEPT ![put.what] = put.value.masks]
    [] put.what = "no zone" ->
         [c EXCEPT !.zones = SelectSeq(@, LAMBDA z : z.name # put.value.name), !.alerts = put.value.alerts]
    [] put.what = "zone" ->
         LET same == {i \in 1..Len(c.zones) : c.zones[i].name = put.value.zone.name}
         IN [c EXCEPT !.zones = IF same = {} THEN Append(@, put.value.zone) ELSE [@ EXCEPT ![CHOOSE i \in same : TRUE] = put.value.zone],
                      !.alerts = IF put.value.sets THEN put.value.alerts ELSE @]

Drawn(p) == [shape |-> IF p.changed \/ p.shape = 0 THEN lastShape + 1 ELSE p.shape, points |-> p.points]

ZonePut(p) ==
  LET zone == [name |-> paneForm.name, mask |-> Drawn(p), objects |-> p.objects, speed |-> paneForm.speed]
      new == Meant("zone", "", paneForm.name, Drawn(p).shape)
  IN IF p.name # "" /\ p.name # paneForm.name
     THEN ConfigPut("no zone", [name |-> p.name, alerts |-> ReviewQueries(p.name, FALSE, fetchedConfig.alerts), zone |-> zone,
                          required |-> p.name \in fetchedConfig.alerts], "rename", MeantBy(p), {})
     ELSE ConfigPut("zone", [zone |-> zone, sets |-> FALSE, alerts |-> {}], "pane", MeantBy(p), new)

MotionMaskPut(p) ==
  MasksPut("motion", Spliced(fetchedConfig.motion, p.typeIndex, Drawn(p)), "pane", MeantBy(p), Meant("motion_mask", "", "", Drawn(p).shape))

\* A filter is written with the global masks that it is shown with.
ObjectMaskPut(p) ==
  MasksPut(IF paneForm.object = "" THEN "global" ELSE "filter",
      Spliced(IF paneForm.object = "" THEN fetchedConfig.global ELSE FilterMask(fetchedConfig), p.typeIndex, Drawn(p)),
      "pane", MeantBy(p), Meant("object_mask", paneForm.object, "", Drawn(p).shape))

\* onSubmit and handleSave: the page shows the polygon as saved at once.
OnSubmit ==
  /\ MaskAct /\ pane # "" /\ active # 0 /\ ~loading /\ IsValid /\ loading' = TRUE /\ allPolygons' = editingPolygons
  /\ puts' = puts \cup {CASE pane = "zone" -> ZonePut(editingPolygons[active])
                          [] pane = "motion_mask" -> MotionMaskPut(editingPolygons[active])
                          [] pane = "object_mask" -> ObjectMaskPut(editingPolygons[active])}
  /\ lastShape' = lastShape + 1
  /\ UNCHANGED <<served, fetchedConfig, editingPolygons, active, pane, paneForm, alive>>

\* An index among the masks that the filter holds itself.
DeletePut(p) ==
  CASE p.type = "zone" ->
         ConfigPut("no zone", [name |-> p.name, alerts |-> ReviewQueries(p.name, FALSE, fetchedConfig.alerts)], "item", MeantBy(p), {})
    [] p.type = "motion_mask" -> MasksPut("motion", Without(fetchedConfig.motion, p.typeIndex), "item", MeantBy(p), {})
    [] p.type = "object_mask" /\ p.object = "" -> MasksPut("global", Without(fetchedConfig.global, p.typeIndex), "item", MeantBy(p), {})
    [] OTHER -> MasksPut("filter", Without(SelectSeq(fetchedConfig.filter, LAMBDA m : ~Contains(fetchedConfig.global, m)), p.typeIndex), "item", MeantBy(p), {})

\* An object mask that the config no longer has any of is not deleted.
HandleDelete(i) ==
  /\ MaskAct /\ pane = "" /\ \A put \in puts : put.by # "item"
  /\ puts' = IF allPolygons[i].type = "object_mask" /\ (IF allPolygons[i].object = "" THEN fetchedConfig.global ELSE FilterMask(fetchedConfig)) = <<>>
             THEN puts ELSE puts \cup {DeletePut(allPolygons[i])}
  /\ UNCHANGED <<served, fetchedConfig, allPolygons, editingPolygons, active, pane, paneForm, loading, alive, lastShape>>

-----------------------------------------------------------------------------
(* Answers *)

\* The config must be valid: the required zones exist.
Valid(c) == c.alerts \subseteq ZoneNamesOf(c)

\* The page takes its polygons from a config that differs; the canvas fails without its polygon.
Recompute(c, index, kind) ==
  IF c = fetchedConfig THEN UNCHANGED <<fetchedConfig, allPolygons, editingPolygons, alive>>
  ELSE /\ fetchedConfig' = c /\ allPolygons' = PolygonsOf(c) /\ editingPolygons' = PolygonsOf(c)
       /\ alive' = (alive /\ index <= Len(PolygonsOf(c)))

\* The end of a save closes the pane, whatever the answer was.
PutAnswered(put) ==
  /\ put.by \in {"pane", "item"} /\ puts' = puts \ {put}
  /\ served' \in {served} \cup {c \in {Applied(served, put)} : Valid(c)}
  /\ loading' = (loading /\ put.by = "item")
  /\ IF put.by = "pane" /\ pane # "" THEN Closed ELSE UNCHANGED <<active, pane, paneForm>>
  /\ UNCHANGED <<fetchedConfig, allPolygons, editingPolygons, alive, lastShape, maskActs>>

\* A rename: the old zone is dropped, the config fetched, and the new zone written.
RenameAnswered(put) ==
  /\ put.by = "rename"
  /\ \/ /\ Valid(Applied(served, put)) /\ served' = Applied(served, put) /\ puts' = (puts \ {put}) \cup {[put EXCEPT !.by = "renamed"]}
     \/ /\ served' = served /\ puts' = puts \ {put}
  /\ UNCHANGED <<fetchedConfig, allPolygons, editingPolygons, active, pane, paneForm, loading, alive, lastShape, maskActs>>
RenameFetched(put) ==
  /\ put.by = "renamed" /\ Recompute(served, active, pane)
  /\ puts' = (puts \ {put}) \cup
       {ConfigPut("zone", [zone |-> put.value.zone, sets |-> TRUE, alerts |-> ReviewQueries(put.value.zone.name, put.value.required, served.alerts)],
            "pane", put.old, Meant("zone", "", put.value.zone.name, put.value.zone.mask.shape))}
  /\ UNCHANGED <<served, active, pane, paneForm, loading, lastShape, maskActs>>

\* After a save, and whenever the page gets the focus again.
ConfigFetched ==
  /\ fetchedConfig # served /\ Recompute(served, active, pane)
  /\ UNCHANGED <<served, active, pane, paneForm, loading, puts, lastShape, maskActs>>

MasksNext ==
  \/ \E kind \in Kinds : NewPolygon(kind)
  \/ NewFromAddress
  \/ \E i \in 1..Len(allPolygons) : EditPolygon(i) \/ HandleDelete(i)
  \/ CancelPane \/ OnSubmit \/ Canvas \/ EditForm \/ SelectZoneObjects
  \/ \E closes \in BOOLEAN : Rescale(closes)
  \/ \E put \in puts : PutAnswered(put) \/ RenameAnswered(put) \/ RenameFetched(put)
  \/ ConfigFetched

MasksSpec == MasksInit /\ [][MasksNext]_masksVars

-----------------------------------------------------------------------------
(* Properties *)

\* The polygons of a config, with how often the same one is there.
Outlines(c) ==
  LET p == PolygonsOf(c)
      meant(i) == Meant(p[i].type, p[i].object, IF p[i].type = "zone" THEN p[i].name ELSE "", p[i].shape)
  IN [m \in UNION {meant(i) : i \in 1..Len(p)} |-> Cardinality({i \in 1..Len(p) : m \in meant(i)})]
HasRenamed == \E put \in puts : put.by = "renamed"
Exact(put) ==
  Outlines(Applied(fetchedConfig, put)) = (Outlines(fetchedConfig) (-) SetToBag(put.old)) (+) SetToBag(put.new)

\* The put of a deletion of a zone or a motion mask, and of a save of the polygon that the pane
\* was opened for, changes that polygon of the config the page has and no other (a global mask
\* that is changed may be left in the filter it was copied to).
ChangesAreExact ==
  [][\A put \in puts' \ puts :
        (\/ put.by = "item" /\ put.what \in {"zone", "no zone", "motion"}
         \/ put.by = "pane" /\ put.what # "global" /\ put.old = paneForm.opened /\ ~HasRenamed)
        => Exact(put)]_masksVars
=============================================================================
