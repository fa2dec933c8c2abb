--------------------------- MODULE CameraActivity ---------------------------
(***************************************************************************)
(* What the web page knows of one camera: the shared websocket (api/ws),   *)
(* its table of last payloads per topic, and useCameraActivity, which      *)
(* keeps the tracked objects from a first snapshot and the events after it. *)
(*                                                                         *)
(* Messages are put into the table as they arrive; a render, later, runs   *)
(* the effects on what the table holds by then.  The snapshot is parsed    *)
(* again in every render and compared with the parsed copy kept in memo:   *)
(* the elements of objects that came from it are the elements of memo, so  *)
(* writing to one of them changes memo as well.                            *)
(***************************************************************************)
EXTENDS Integers, Sequences, FiniteSets

CONSTANTS
  Things,     \* tracked objects (model values)
  MaxNews,    \* bound: things that happen at the server
  MaxDrops,   \* bound: lost connections
  MaxWire     \* bound: messages under way

ASSUME ActivityAssumption ==
  MaxNews \in Nat /\ MaxDrops \in Nat /\ MaxWire \in Nat \ {0}

VARIABLES
  srvObjects, srvEnabled, stateAsked,      \* the server, an object by its state or as
                                           \* "ended"; stateAsked: onConnects to answer
  link, wire, drops, news,            \* "open" or "closed"; messages under way; counts
  activityPayload, lastEvent,         \* wsState: camera_activity and events
  shownEnabled, motionTopic,          \* wsState: enabled/state and motion, "null" until known
  hasCameraState,
  memo, objects, shared,              \* shared: elements of objects that are memo's
  hasActiveObjects,                   \* the useMemo over objects
  dirty, newEvent                     \* a render is due; with an event it has not seen

server == <<srvObjects, srvEnabled, stateAsked>>
table  == <<activityPayload, lastEvent, shownEnabled, motionTopic>>
client == <<hasCameraState, memo, objects, shared, hasActiveObjects>>
activityVars ==
  <<srvObjects, srvEnabled, stateAsked, link, wire, drops, news, activityPayload, lastEvent,
    shownEnabled, motionTopic, hasCameraState, memo, objects, shared, hasActiveObjects, dirty,
    newEvent>>

States == {"none", "moving", "stationary"}
NoThings == [t \in Things |-> "none"]
NoSnapshot == [known |-> FALSE, objects |-> NoThings, enabled |-> TRUE]
NoEvent == [type |-> "none"]
OnOff(b) == IF b THEN "ON" ELSE "OFF"

ActivityInit ==
  /\ srvObjects = NoThings /\ srvEnabled = TRUE /\ stateAsked = 0
  /\ link = "closed" /\ wire = <<>> /\ drops = 0 /\ news = 0
  /\ activityPayload = NoSnapshot /\ lastEvent = NoEvent
  /\ shownEnabled = "null" /\ motionTopic = "null"
  /\ hasCameraState = FALSE /\ memo = NoSnapshot /\ objects = NoThings /\ shared = {}
  /\ hasActiveObjects = FALSE /\ dirty = FALSE /\ newEvent = FALSE

-----------------------------------------------------------------------------
(* The server: what it broadcasts to every open connection *)

Broadcast(message) == wire' = IF link = "open" THEN Append(wire, message) ELSE wire

Happened == news < MaxNews /\ news' = news + 1 /\ Len(wire) < MaxWire

\* An object that has ended does not come back: another one gets another id.
ThingMoves(t, state) ==
  /\ Happened /\ srvObjects[t] \notin {state, "ended"} /\ (state # "stationary" \/ srvObjects[t] = "moving")
  /\ srvObjects' = [srvObjects EXCEPT ![t] = IF state = "none" THEN "ended" ELSE state]
  /\ Broadcast([topic |-> "events",
                payload |-> [type |-> IF state = "none" THEN "end"
                                      ELSE IF srvObjects[t] = "none" THEN "new" ELSE "update",
                             id |-> t,
                             stationary |-> state = "stationary"]])
  /\ UNCHANGED <<srvEnabled, stateAsked, link, drops, table, client, dirty, newEvent>>

CameraToggled ==
  /\ Happened /\ srvEnabled' = ~srvEnabled
  /\ Broadcast([topic |-> "enabled", payload |-> OnOff(~srvEnabled)])
  /\ UNCHANGED <<srvObjects, stateAsked, link, drops, table, client, dirty, newEvent>>

MotionDetected(payload) ==
  /\ Happened
  /\ Broadcast([topic |-> "motion", payload |-> payload])
  /\ UNCHANGED <<server, link, drops, table, client, dirty, newEvent>>

AnswerConnect ==
  /\ stateAsked > 0 /\ stateAsked' = stateAsked - 1 /\ Len(wire) < MaxWire
  /\ Broadcast([topic |-> "camera_activity",
                payload |-> [known |-> TRUE, enabled |-> srvEnabled,
                             objects |-> [t \in Things |-> IF srvObjects[t] = "ended" THEN "none" ELSE srvObjects[t]]]])
  /\ UNCHANGED <<srvObjects, srvEnabled, link, drops, news, table, client, dirty, newEvent>>

-----------------------------------------------------------------------------
(* The websocket *)

\* Mutant: a new connection does not ask for the state of the cameras.
OnWsOpen_Silent ==
  /\ link = "closed" /\ link' = "open"
  /\ UNCHANGED <<server, wire, drops, news, table, client, dirty, newEvent>>

OnWsOpen ==
  /\ link = "closed" /\ link' = "open"
  /\ stateAsked' = stateAsked + 1
  /\ UNCHANGED <<srvObjects, srvEnabled, wire, drops, news, table, client, dirty, newEvent>>

\* What is under way is lost; the table and the objects stay.
OnWsClose ==
  /\ link = "open" /\ drops < MaxDrops /\ drops' = drops + 1
  /\ link' = "closed" /\ wire' = <<>> /\ stateAsked' = 0
  /\ hasCameraState' = FALSE
  /\ UNCHANGED <<srvObjects, srvEnabled, news, table, memo, objects, shared, hasActiveObjects, dirty,
                 newEvent>>

OnWsMessage ==
  /\ wire # <<>> /\ wire' = Tail(wire) /\ dirty' = TRUE
  /\ LET m == Head(wire)
     IN /\ activityPayload' = IF m.topic = "camera_activity" THEN m.payload ELSE activityPayload
        /\ lastEvent' = IF m.topic = "events" THEN m.payload ELSE lastEvent
        /\ newEvent' = (newEvent \/ m.topic = "events")
        /\ shownEnabled' = IF m.topic = "enabled" THEN m.payload ELSE shownEnabled
        /\ motionTopic' = IF m.topic = "motion" THEN m.payload ELSE motionTopic
  /\ UNCHANGED <<server, link, drops, news, client>>

\* The page becomes visible: useInitialCameraState asks again.
RevalidateOnFocus ==
  /\ link = "open" /\ Happened /\ stateAsked' = stateAsked + 1
  /\ UNCHANGED <<srvObjects, srvEnabled, link, wire, drops, table, client, dirty, newEvent>>

-----------------------------------------------------------------------------
(* One render and the renders it causes, up to the one that changes nothing *)

\* The event effect: the objects it leaves.  That of a known object is written to in
\* place, which is no change of the list; an unknown stationary one is not added.
EventObjects(list, event) ==
  CASE event.type = "none" -> list
    [] event.type = "end" -> [list EXCEPT ![event.id] = "none"]
    [] event.type \in {"new", "update"} ->
         IF list[event.id] = "none" /\ event.stationary THEN list
         ELSE [list EXCEPT ![event.id] = IF event.stationary THEN "stationary" ELSE "moving"]

InPlace(list, event) == event.type \in {"new", "update"} /\ list[event.id] # "none"

AnyMoving(list) == \E t \in Things : list[t] = "moving"

InitialStates ==
  IF ~hasCameraState /\ activityPayload.known
  THEN shownEnabled' = OnOff(activityPayload.enabled) /\ hasCameraState' = TRUE
  ELSE UNCHANGED <<shownEnabled, hasCameraState>>

\* Mutant: the event effect does not see the list that a snapshot has just set.
Applies_OldList(reset) == newEvent /\ ~reset
\* The event effect runs when the event is a new one or the list has changed.
Applies(reset) == reset \/ newEvent

\* A snapshot is taken over when memo differs from the payload, unless an event that
\* comes with it changes the list of before; then the last event is applied (again) to
\* the new list.  hasActiveObjects is computed when the list is a new one.
Render ==
  /\ dirty /\ dirty' = FALSE /\ newEvent' = FALSE
  /\ LET parsed == memo # activityPayload
         overridden == newEvent /\ ~InPlace(objects, lastEvent) /\ EventObjects(objects, lastEvent) # objects
         reset == parsed /\ ~overridden
         before == IF reset THEN activityPayload.objects ELSE objects
         after == IF Applies(reset) THEN EventObjects(before, lastEvent) ELSE before
         inPlace == Applies(reset) /\ InPlace(before, lastEvent)
         owned == IF reset THEN {t \in Things : before[t] # "none"}
                  ELSE IF parsed THEN {} ELSE shared
     IN /\ objects' = after
        /\ shared' = {t \in owned : after[t] # "none"}
        /\ memo' = IF inPlace /\ lastEvent.id \in owned
                   THEN [activityPayload EXCEPT !.objects[lastEvent.id] = after[lastEvent.id]]
                   ELSE activityPayload
        /\ hasActiveObjects' =
             IF after # before /\ ~inPlace THEN AnyMoving(after)
             ELSE IF reset THEN AnyMoving(before) ELSE hasActiveObjects
  /\ InitialStates
  /\ UNCHANGED <<server, link, wire, drops, news, activityPayload, lastEvent, motionTopic>>

\* What useCameraActivity returns.
IsCameraEnabled == shownEnabled # "OFF"
ActiveTracking == IsCameraEnabled /\ hasActiveObjects

ActivityNext ==
  \/ \E t \in Things, state \in States : ThingMoves(t, state)
  \/ \E payload \in {"ON", "OFF"} : MotionDetected(payload)
  \/ CameraToggled \/ AnswerConnect
  \/ OnWsOpen \/ OnWsClose \/ OnWsMessage \/ RevalidateOnFocus \/ Render

\* The socket reconnects, the server answers, messages arrive and are rendered.
ActivityFairness ==
  /\ WF_activityVars(OnWsOpen) /\ WF_activityVars(AnswerConnect)
  /\ WF_activityVars(OnWsMessage) /\ WF_activityVars(Render)

ActivitySpec == ActivityInit /\ [][ActivityNext]_activityVars
ActivityFairSpec == ActivitySpec /\ ActivityFairness

-----------------------------------------------------------------------------
(* Properties *)

\* However often the connection is lost, an open one learns the state of the camera.
StateIsKnown == link = "open" ~> hasCameraState \/ link = "closed"

\* The last event of an object that ended is not forgotten by a snapshot that is
\* applied again: no object that just ended stays on the screen.
EndedIsGone == ~dirty /\ lastEvent.type = "end" => objects[lastEvent.id] = "none"
=============================================================================
