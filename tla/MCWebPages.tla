------------------------------- MODULE MCWebPages -------------------------------
(* Instances of WebPages for TLC. *)
EXTENDS WebPages, TLC

\* Masks: a config with a zone that filters speed, motion masks and the two kinds of object
\* masks, and one without a zone whose filter has a copy of the global mask.
Outline(n, k) == [shape |-> n, points |-> k]
Porch == [name |-> "porch", mask |-> Outline(1, 4), objects |-> {}, speed |-> TRUE]
MaskConfigs ==
  {[zones |-> <<Porch>>, alerts |-> {"porch"}, motion |-> <<Outline(2, 3), Outline(3, 3)>>,
    global |-> <<Outline(4, 3)>>, filter |-> <<Outline(5, 3)>>],
   [zones |-> <<>>, alerts |-> {}, motion |-> <<Outline(2, 3)>>, global |-> <<Outline(4, 3)>>,
    filter |-> <<Outline(4, 3), Outline(6, 3)>>]}

SettingsCameras == <<"c1", "c2">>

\* Filters: a group of one camera and an empty one; only camera a has a zone.
FilterGroups == {{"a"}, {}}
FilterTracked ==
  "a" :> [labels |-> {"car", "dog"}, zones |-> {"yard"}] @@ "b" :> [labels |-> {"car"}, zones |-> {}]

\* Export: two zoom levels of the timeline.
ExportSegments == <<4, 1>>

\* Details: one object with a lifecycle of three steps, one of a single step.
DetailSteps == "o1" :> 3 @@ "o2" :> 1

\* Faces: one attempt, a face of two images, a face of one.
LibraryFaces == "train" :> {1} @@ "ann" :> {2, 3} @@ "bob" :> {4}
=================================================================================
