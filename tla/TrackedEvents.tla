--------------------------- MODULE TrackedEvents ---------------------------
(***************************************************************************)
(* The life of the tracked objects of one camera (among others), from the  *)
(* detector process to the Event rows of the database:                     *)
(*                                                                         *)
(*   process_frames (video.py)  --tracked_objects_queue-->                 *)
(*   TrackedObjectProcessor + CameraState (track/object_processing.py,     *)
(*   camera/state.py)           --event/update (zmq)-->                    *)
(*   EventProcessor (events/maintainer.py) --> Event table                 *)
(*                              --event/finalized (zmq)--> back to         *)
(*   TrackedObjectProcessor, which then forgets the object.                *)
(*                                                                         *)
(* The dispatcher (comms/dispatcher.py) turns the camera, its snapshots    *)
(* and its recordings on and off.  It lives in the same process as the two *)
(* processors and shares their configuration object.  A crash takes all of *)
(* the processes down; only the database and the disk survive it.          *)
(*                                                                         *)
(* Abstracted: pixels, scores and zones.  What they decide is kept: whether*)
(* an object is confirmed (not false_positive), what it is eligible for    *)
(* (a snapshot, a recording) and whether an update is significant.         *)
(***************************************************************************)
EXTENDS Naturals, Sequences, FiniteSets

CONSTANTS
  Objects,        \* ids the tracker may hand out; an id is never reused
  DetQueueSize,   \* maxsize of tracked_objects_queue
  EventBacklog,   \* bound: an update is published only below this backlog
  MaxCommands,    \* bound: number of enabled/set commands
  MaxRetention,   \* bound: number of snapshots/set and recordings/set commands
  MaxCrashes,     \* bound: number of crashes
  LateSubscriber  \* TRUE: objects may be published before EventProcessor exists

ASSUME DetQueueAssumption == DetQueueSize \in Nat \ {0}
ASSUME BoundsAssumption ==
  /\ EventBacklog \in Nat
  /\ MaxCommands \in Nat
  /\ MaxRetention \in Nat
  /\ MaxCrashes \in Nat
ASSUME LateSubscriberAssumption == LateSubscriber \in BOOLEAN

VARIABLES
  \* process_frames and its NorfairTracker
  trkEnabled,   \* camera_enabled, as this process last heard
  tracked,      \* ids in object_tracker.tracked_objects
  born,         \* ids ever registered
  trkConfig,    \* config/enabled messages not yet read by this process
  detQueue,     \* tracked_objects_queue: the set of ids of each frame
  \* dispatcher and the shared configuration
  enabled,      \* config.cameras[camera].enabled, shared by the threads
  command,      \* the payload the dispatcher has assigned and not yet published
  stateTopic,   \* the retained frigate/<camera>/enabled/state: ON is TRUE
  snapOn, recOn,
  commands, retention, crashes,  \* counters of the bounds
  \* TrackedObjectProcessor and CameraState
  pc, todoNew, todoUpd, todoEnd, prevEnabled,
  objs,         \* CameraState.tracked_objects
  procConfig,   \* config/enabled messages not yet read by this thread
  mqtt,         \* the last kind of message published on frigate/events
  files,        \* ids whose snapshot is on disk
  \* zmq and EventProcessor
  evQueue, finQueue,
  ep,           \* EventProcessor: "absent", "subscribed", "running"
  inProcess,    \* events_in_process
  db            \* the Event table

trackerVars == <<trkEnabled, tracked, born>>
controlVars == <<command, stateTopic, snapOn, recOn, commands, retention>>
procVars    == <<pc, todoNew, todoUpd, todoEnd, prevEnabled>>
outVars     == <<mqtt, files>>
storeVars   == <<ep, inProcess, db>>
vars == <<trkEnabled, tracked, born, trkConfig, detQueue, enabled, command,
          stateTopic, snapOn, recOn, commands, retention, crashes, pc, todoNew,
          todoUpd, todoEnd, prevEnabled, objs, procConfig, mqtt, files, evQueue,
          finQueue, ep, inProcess, db>>

-----------------------------------------------------------------------------
(* Values *)

Kinds == {"snapshot", "clip"}

\* A TrackedObject: whether it is in the table and has an end_time, whether it
\* is a true positive, and what its movement and zones entitle it to.
ObjStates == {"absent", "live", "ended"}
Obj == [state: ObjStates, confirmed: BOOLEAN, eligible: SUBSET Kinds]
NoObj == [state |-> "absent", confirmed |-> FALSE, eligible |-> {}]
NewObj == [state |-> "live", confirmed |-> FALSE, eligible |-> {}]

EventTypes == {"start", "update", "end"}
Message == [id: Objects, type: EventTypes, ended: BOOLEAN, keep: SUBSET Kinds]

\* The stored copy of the last message of an event (has_snapshot, has_clip and
\* end_time are all that the processor's decisions read).
Stored == [known: BOOLEAN, ended: BOOLEAN, keep: SUBSET Kinds]
NotStored == [known |-> FALSE, ended |-> FALSE, keep |-> {}]

Row == [state: {"none", "open", "closed"}, keep: SUBSET Kinds]
NoRow == [state |-> "none", keep |-> {}]

InTable(id) == objs[id].state # "absent"

TypeOK ==
  /\ trkEnabled \in BOOLEAN /\ tracked \subseteq Objects /\ born \subseteq Objects
  /\ trkConfig \in Seq(BOOLEAN) /\ procConfig \in Seq(BOOLEAN)
  /\ detQueue \in Seq(SUBSET Objects)
  /\ enabled \in BOOLEAN /\ command \in {"idle", "ON", "OFF"} /\ stateTopic \in BOOLEAN
  /\ snapOn \in BOOLEAN /\ recOn \in BOOLEAN
  /\ commands \in Nat /\ retention \in Nat /\ crashes \in Nat
  /\ pc \in {"config", "manage", "get", "frame"}
  /\ todoNew \subseteq Objects /\ todoUpd \subseteq Objects /\ todoEnd \subseteq Objects
  /\ prevEnabled \in BOOLEAN
  /\ objs \in [Objects -> Obj]
  /\ mqtt \in [Objects -> {"none", "live", "ended"}]
  /\ files \subseteq Objects
  /\ evQueue \in Seq(Message) /\ finQueue \in Seq(Objects)
  /\ ep \in {"absent", "subscribed", "running"}
  /\ inProcess \in [Objects -> Stored]
  /\ db \in [Objects -> Row]

-----------------------------------------------------------------------------
(* The state of the processes when the program has just started.  The       *)
(* processor subscribes to config updates and finalized events in its       *)
(* constructor; EventProcessor is constructed after it.                      *)

FirstEp == IF LateSubscriber THEN {"absent", "subscribed"} ELSE {"subscribed"}

Init ==
  /\ trkEnabled = TRUE /\ tracked = {} /\ born = {}
  /\ trkConfig = <<>> /\ procConfig = <<>> /\ detQueue = <<>>
  /\ enabled = TRUE /\ command = "idle" /\ stateTopic = TRUE
  /\ snapOn = TRUE /\ recOn = TRUE
  /\ commands = 0 /\ retention = 0 /\ crashes = 0
  /\ pc = "config" /\ todoNew = {} /\ todoUpd = {} /\ todoEnd = {}
  /\ prevEnabled = TRUE
  /\ objs = [id \in Objects |-> NoObj]
  /\ mqtt = [id \in Objects |-> "none"]
  /\ files = {}
  /\ evQueue = <<>> /\ finQueue = <<>>
  /\ ep \in FirstEp
  /\ inProcess = [id \in Objects |-> NotStored]
  /\ db = [id \in Objects |-> NoRow]

-----------------------------------------------------------------------------
(* process_frames: one config message is read per turn of the loop.  On the *)
(* change to disabled the tracker is cleared, but only if frame_queue is    *)
(* empty; nobody drains that queue while the camera is disabled, so one     *)
(* look at it decides.                                                      *)
TrackerReadsConfig ==
  /\ trkConfig # <<>>
  /\ trkEnabled' = Head(trkConfig)
  /\ trkConfig' = Tail(trkConfig)
  /\ \E frameQueueEmpty \in BOOLEAN :
        tracked' = IF ~trkEnabled' /\ trkEnabled /\ frameQueueEmpty
                   THEN {} ELSE tracked
  /\ UNCHANGED <<born, detQueue, enabled, controlVars, crashes, procVars, objs,
                 procConfig, outVars, evQueue, finQueue, storeVars>>

(* A frame: tracks expire and fresh ones are registered; the result is      *)
(* dropped when the queue is full.                                          *)
TrackerFrame ==
  /\ trkEnabled
  /\ \E gone \in SUBSET tracked, fresh \in SUBSET (Objects \ born) :
        /\ tracked' = (tracked \ gone) \cup fresh
        /\ born' = born \cup fresh
        /\ detQueue' = IF Len(detQueue) < DetQueueSize
                       THEN Append(detQueue, tracked') ELSE detQueue
  /\ UNCHANGED <<trkEnabled, trkConfig, enabled, controlVars, crashes, procVars,
                 objs, procConfig, outVars, evQueue, finQueue, storeVars>>

-----------------------------------------------------------------------------
(* Dispatcher._on_enabled_command: assign the shared field, then publish    *)
(* the shared settings object and the payload; other threads run in between.*)
EnabledCommand(payload) ==
  /\ command = "idle" /\ commands < MaxCommands
  /\ enabled' = (payload = "ON")
  /\ command' = payload
  /\ commands' = commands + 1
  /\ UNCHANGED <<trackerVars, trkConfig, detQueue, stateTopic, snapOn, recOn,
                 retention, crashes, procVars, objs, procConfig, outVars, evQueue, finQueue,
                 storeVars>>

PublishEnabled ==
  /\ command # "idle"
  /\ trkConfig' = Append(trkConfig, enabled)
  /\ procConfig' = Append(procConfig, enabled)
  /\ stateTopic' = (command = "ON")
  /\ command' = "idle"
  /\ UNCHANGED <<trackerVars, detQueue, enabled, snapOn, recOn, commands,
                 retention, crashes, procVars, objs, outVars, evQueue,
                 finQueue, storeVars>>

(* _on_snapshots_command and _on_recordings_command.  (Turning alerts and   *)
(* detections off takes max_severity, hence the clip, away just the same.)  *)
RetentionCommand(snap, rec) ==
  /\ retention < MaxRetention
  /\ <<snap, rec>> # <<snapOn, recOn>>
  /\ snapOn' = snap /\ recOn' = rec
  /\ retention' = retention + 1
  /\ UNCHANGED <<trackerVars, trkConfig, detQueue, enabled, command, stateTopic,
                 commands, crashes, procVars, objs, procConfig, outVars, evQueue,
                 finQueue, storeVars>>

-----------------------------------------------------------------------------
(* TrackedObjectProcessor.  A message published before EventProcessor has   *)
(* subscribed is lost.                                                      *)
Publish(m) == evQueue' = IF ep = "absent" THEN evQueue ELSE Append(evQueue, m)

\* should_save_snapshot and should_retain_recording
Keep(o) ==
  {k \in o.eligible : (k = "snapshot" /\ snapOn) \/ (k = "clip" /\ recOn)}

(* The loop first drains the config updates, each of which is written back  *)
(* to the shared configuration.                                             *)
ReadConfig ==
  /\ pc = "config" /\ procConfig # <<>>
  /\ enabled' = Head(procConfig)
  /\ procConfig' = Tail(procConfig)
  /\ UNCHANGED <<trackerVars, trkConfig, detQueue, controlVars, crashes, procVars,
                 objs, outVars, evQueue, finQueue, storeVars>>

(* No update has arrived: one that was sent may still be on its way.        *)
ConfigDone ==
  /\ pc = "config"
  /\ pc' = "manage"
  /\ UNCHANGED <<trackerVars, trkConfig, detQueue, enabled, controlVars, crashes,
                 todoNew, todoUpd, todoEnd, prevEnabled, objs, procConfig, outVars,
                 evQueue, finQueue, storeVars>>

(* Manage camera disabled state: the objects to end are snapshotted when    *)
(* the change to disabled is noticed.                                       *)
ManageEnabled ==
  /\ pc = "manage"
  /\ pc' = "get"
  /\ todoEnd' = IF prevEnabled /\ ~enabled
                THEN {id \in Objects : objs[id].state = "live"} ELSE {}
  /\ prevEnabled' = enabled
  /\ UNCHANGED <<trackerVars, trkConfig, detQueue, enabled, controlVars, crashes,
                 todoNew, todoUpd, objs, procConfig, outVars, evQueue, finQueue,
                 storeVars>>

\* Mutant: MQTT is told of the end of a false positive as well.
EndCallback_AnnouncesFalsePositive(id) ==
  LET keep == Keep(objs[id]) IN
  /\ objs' = [objs EXCEPT ![id].state = "ended"]
  /\ \E written \in SUBSET ({id} \cap {i \in Objects : "snapshot" \in keep}) :
        files' = files \cup written
  /\ mqtt' = [mqtt EXCEPT ![id] = "ended"]
  /\ Publish([id |-> id, type |-> "end", ended |-> TRUE, keep |-> keep])

(* The end callback: has_snapshot and has_clip are decided, the snapshot is *)
(* written (the write may fail and is then only logged), MQTT is told if    *)
(* the object was a true positive, and the event is ended.                  *)
EndCallback(id) ==
  LET keep == Keep(objs[id]) IN
  /\ objs' = [objs EXCEPT ![id].state = "ended"]
  /\ \E written \in SUBSET ({id} \cap {i \in Objects : "snapshot" \in keep}) :
        files' = files \cup written
  /\ mqtt' = IF objs[id].confirmed THEN [mqtt EXCEPT ![id] = "ended"] ELSE mqtt
  /\ Publish([id |-> id, type |-> "end", ended |-> TRUE, keep |-> keep])

(* force_end_all_events *)
ForceEnd(id) ==
  /\ pc = "get" /\ id \in todoEnd
  /\ EndCallback(id)
  /\ todoEnd' = todoEnd \ {id}
  /\ UNCHANGED <<trackerVars, trkConfig, detQueue, enabled, controlVars, crashes,
                 pc, todoNew, todoUpd, prevEnabled, procConfig, finQueue, storeVars>>

(* tracked_objects_queue.get(True, 1) *)
GetTimeout ==
  /\ pc = "get" /\ todoEnd = {} /\ detQueue = <<>>
  /\ pc' = "config"
  /\ UNCHANGED <<trackerVars, trkConfig, detQueue, enabled, controlVars, crashes,
                 todoNew, todoUpd, todoEnd, prevEnabled, objs, procConfig, outVars,
                 evQueue, finQueue, storeVars>>

(* A frame of a disabled camera is skipped, otherwise CameraState.update    *)
(* sorts the ids into new, updated and removed.                             *)
GetFrame ==
  /\ pc = "get" /\ todoEnd = {} /\ detQueue # <<>>
  /\ detQueue' = Tail(detQueue)
  /\ LET current == Head(detQueue)
         previous == {id \in Objects : InTable(id)}
     IN IF enabled
        THEN /\ pc' = "frame"
             /\ todoNew' = current \ previous
             /\ todoUpd' = current \cap previous
             /\ todoEnd' = previous \ current
        ELSE /\ pc' = "config"
             /\ UNCHANGED <<todoNew, todoUpd, todoEnd>>
  /\ UNCHANGED <<trackerVars, trkConfig, enabled, controlVars, crashes,
                 prevEnabled, objs, procConfig, outVars, evQueue, finQueue, storeVars>>

(* A frame of another, enabled camera: it only matters for the drain below. *)
GetOtherFrame ==
  /\ pc = "get" /\ todoEnd = {}
  /\ pc' = "frame"
  /\ UNCHANGED <<trackerVars, trkConfig, detQueue, enabled, controlVars, crashes,
                 todoNew, todoUpd, todoEnd, prevEnabled, objs, procConfig, outVars,
                 evQueue, finQueue, storeVars>>

NewObject(id) ==
  /\ pc = "frame" /\ id \in todoNew
  /\ objs' = [objs EXCEPT ![id] = NewObj]
  /\ Publish([id |-> id, type |-> "start", ended |-> FALSE, keep |-> {}])
  /\ todoNew' = todoNew \ {id}
  /\ UNCHANGED <<trackerVars, trkConfig, detQueue, enabled, controlVars, crashes,
                 pc, todoUpd, todoEnd, prevEnabled, procConfig, outVars, finQueue,
                 storeVars>>

(* TrackedObject.update, then the update callback if the change matters.    *)
(* Confirmation and eligibility are never withdrawn; an object that is not  *)
(* confirmed is not published, and confirming it starts its path, which is  *)
(* always published.                                                        *)
UpdateObject(id) ==
  /\ pc = "frame" /\ todoNew = {} /\ id \in todoUpd
  /\ \E confirmed \in BOOLEAN, eligible \in SUBSET Kinds, publish \in BOOLEAN :
        LET o == [objs[id] EXCEPT !.confirmed = confirmed, !.eligible = eligible]
        IN /\ objs[id].confirmed => confirmed
           /\ objs[id].eligible \subseteq eligible
           /\ eligible # {} => confirmed
           /\ publish => confirmed
           /\ confirmed /\ ~objs[id].confirmed => publish
           /\ publish => Len(evQueue) < EventBacklog
           /\ objs' = [objs EXCEPT ![id] = o]
           /\ mqtt' = IF publish THEN [mqtt EXCEPT ![id] = "live"] ELSE mqtt
           /\ IF publish
              THEN Publish([id |-> id, type |-> "update",
                            ended |-> o.state = "ended", keep |-> Keep(o)])
              ELSE evQueue' = evQueue
  /\ todoUpd' = todoUpd \ {id}
  /\ UNCHANGED <<trackerVars, trkConfig, detQueue, enabled, controlVars, crashes,
                 pc, todoNew, todoEnd, prevEnabled, procConfig, files, finQueue,
                 storeVars>>

\* Mutant: the end_time of an object that waits for its finalization is ignored.
RemoveObject_EndsAgain(id) ==
  /\ pc = "frame" /\ todoNew = {} /\ todoUpd = {} /\ id \in todoEnd
  /\ EndCallback(id)
  /\ todoEnd' = todoEnd \ {id}
  /\ UNCHANGED <<trackerVars, trkConfig, detQueue, enabled, controlVars, crashes,
                 pc, todoNew, todoUpd, prevEnabled, procConfig, finQueue, storeVars>>

RemoveObject(id) ==
  /\ pc = "frame" /\ todoNew = {} /\ todoUpd = {} /\ id \in todoEnd
  /\ IF objs[id].state = "live"
     THEN EndCallback(id)
     ELSE UNCHANGED <<objs, outVars, evQueue>>
  /\ todoEnd' = todoEnd \ {id}
  /\ UNCHANGED <<trackerVars, trkConfig, detQueue, enabled, controlVars, crashes,
                 pc, todoNew, todoUpd, prevEnabled, procConfig, finQueue, storeVars>>

FrameProcessed == pc = "frame" /\ todoNew = {} /\ todoUpd = {} /\ todoEnd = {}

(* The finished queue is drained only here, after a frame of some enabled   *)
(* camera.  CameraState.finished deletes the object: it must be there.      *)
Finish ==
  /\ FrameProcessed /\ finQueue # <<>>
  /\ objs' = [objs EXCEPT ![Head(finQueue)] = NoObj]
  /\ finQueue' = Tail(finQueue)
  /\ UNCHANGED <<trackerVars, trkConfig, detQueue, enabled, controlVars, crashes,
                 procVars, procConfig, outVars, evQueue, storeVars>>

DrainDone ==
  /\ FrameProcessed /\ finQueue = <<>>
  /\ pc' = "config"
  /\ UNCHANGED <<trackerVars, trkConfig, detQueue, enabled, controlVars, crashes,
                 todoNew, todoUpd, todoEnd, prevEnabled, objs, procConfig, outVars,
                 evQueue, finQueue, storeVars>>

-----------------------------------------------------------------------------
(* EventProcessor *)

EpSubscribe ==
  /\ ep = "absent"
  /\ ep' = "subscribed"
  /\ UNCHANGED <<trackerVars, trkConfig, detQueue, enabled, controlVars, crashes,
                 procVars, objs, procConfig, outVars, evQueue, finQueue, inProcess, db>>

\* Mutant: the rows an earlier run left open are not repaired.
EpStart_NoRepair ==
  /\ ep = "subscribed"
  /\ ep' = "running"
  /\ UNCHANGED <<trackerVars, trkConfig, detQueue, enabled, controlVars, crashes,
                 procVars, objs, procConfig, outVars, evQueue, finQueue, inProcess, db>>

(* run() first gives an end_time to the events an earlier run left open.    *)
EpStart ==
  /\ ep = "subscribed"
  /\ ep' = "running"
  /\ db' = [id \in Objects |->
              IF db[id].state = "open" THEN [db[id] EXCEPT !.state = "closed"] ELSE db[id]]
  /\ UNCHANGED <<trackerVars, trkConfig, detQueue, enabled, controlVars, crashes,
                 procVars, objs, procConfig, outVars, evQueue, finQueue, inProcess>>

\* Mutant: an end_time that was set is not a reason to write.
ShouldUpdateDb_EndIgnored(prev, m, differs) ==
  m.keep # {} /\ (prev.keep = {} \/ differs)

\* should_update_db; "differs" stands for the score, zones, path, ... compared.
ShouldUpdateDb(prev, m, differs) ==
  /\ m.keep # {}
  /\ prev.keep = {} \/ differs \/ prev.ended # m.ended

\* Mutant: the end is finalized only if it changed the database.
HandleObjectDetection_FinalizesSaved(m, differs, stateDiffers) ==
  LET prev == inProcess[m.id]
      save == ShouldUpdateDb(prev, m, differs)
      keep == IF save THEN m.keep \cup prev.keep ELSE m.keep
  IN /\ db' = IF save
              THEN [db EXCEPT ![m.id] =
                      [state |-> IF m.ended THEN "closed" ELSE "open", keep |-> keep]]
              ELSE db
     /\ inProcess' =
          IF m.type = "end" THEN [inProcess EXCEPT ![m.id] = NotStored]
          ELSE IF save \/ stateDiffers
               THEN [inProcess EXCEPT ![m.id] =
                       [known |-> TRUE, ended |-> m.ended, keep |-> keep]]
               ELSE inProcess
     /\ finQueue' = IF m.type = "end" /\ save THEN Append(finQueue, m.id) ELSE finQueue

\* handle_object_detection for a message that is not the first of its event:
\* flags that were stored as set stay set, but only on the path to the database.
HandleObjectDetection(m, differs, stateDiffers) ==
  LET prev == inProcess[m.id]
      save == ShouldUpdateDb(prev, m, differs)
      keep == IF save THEN m.keep \cup prev.keep ELSE m.keep
  IN /\ db' = IF save
              THEN [db EXCEPT ![m.id] =
                      [state |-> IF m.ended THEN "closed" ELSE "open", keep |-> keep]]
              ELSE db
     /\ inProcess' =
          IF m.type = "end" THEN [inProcess EXCEPT ![m.id] = NotStored]
          ELSE IF save \/ stateDiffers
               THEN [inProcess EXCEPT ![m.id] =
                       [known |-> TRUE, ended |-> m.ended, keep |-> keep]]
               ELSE inProcess
     /\ finQueue' = IF m.type = "end" THEN Append(finQueue, m.id) ELSE finQueue

\* The first message of an event is only stored, whatever its type.
EpReceive ==
  /\ ep = "running" /\ evQueue # <<>>
  /\ evQueue' = Tail(evQueue)
  /\ LET m == Head(evQueue) IN
       IF m.type = "start" \/ ~inProcess[m.id].known
       THEN /\ inProcess' = [inProcess EXCEPT ![m.id] =
                               [known |-> TRUE, ended |-> m.ended, keep |-> m.keep]]
            /\ UNCHANGED <<db, finQueue>>
       ELSE \E differs, stateDiffers \in BOOLEAN :
              HandleObjectDetection(m, differs, stateDiffers)
  /\ UNCHANGED <<trackerVars, trkConfig, detQueue, enabled, controlVars, crashes,
                 procVars, objs, procConfig, outVars, ep>>

-----------------------------------------------------------------------------
(* All processes die and are started again: only db and files survive, and  *)
(* MQTT subscribers remember what they were told.                           *)
Crash ==
  /\ crashes < MaxCrashes
  /\ crashes' = crashes + 1
  /\ trkEnabled' = TRUE /\ tracked' = {} /\ trkConfig' = <<>> /\ detQueue' = <<>>
  /\ procConfig' = <<>>
  /\ enabled' = TRUE /\ command' = "idle" /\ stateTopic' = TRUE
  /\ snapOn' = TRUE /\ recOn' = TRUE
  /\ pc' = "config" /\ todoNew' = {} /\ todoUpd' = {} /\ todoEnd' = {}
  /\ prevEnabled' = TRUE
  /\ objs' = [id \in Objects |-> NoObj]
  /\ evQueue' = <<>> /\ finQueue' = <<>>
  /\ ep' \in FirstEp
  /\ inProcess' = [id \in Objects |-> NotStored]
  /\ UNCHANGED <<born, commands, retention, mqtt, files, db>>

-----------------------------------------------------------------------------
Tracker == TrackerReadsConfig \/ TrackerFrame

Dispatcher ==
  \/ \E payload \in {"ON", "OFF"} : EnabledCommand(payload)
  \/ PublishEnabled
  \/ \E snap, rec \in BOOLEAN : RetentionCommand(snap, rec)

Processor ==
  \/ ReadConfig \/ ConfigDone \/ ManageEnabled \/ GetTimeout \/ GetFrame \/ GetOtherFrame
  \/ Finish \/ DrainDone
  \/ \E id \in Objects :
        ForceEnd(id) \/ NewObject(id) \/ UpdateObject(id) \/ RemoveObject(id)

EpStep == EpSubscribe \/ EpStart \/ EpReceive

Next == Tracker \/ Dispatcher \/ Processor \/ EpStep \/ Crash

Spec == Init /\ [][Next]_vars
-----------------------------------------------------------------------------
(* Properties *)

\* An end of the object is queued for EventProcessor.
EndQueued(id) == \E i \in DOMAIN evQueue : evQueue[i].id = id /\ evQueue[i].type = "end"

\* CameraState.finished deletes by key and would raise KeyError, killing the
\* object processor thread: whatever is interleaved between an end and its
\* finalization (camera toggles, a tracker that resurrects the id), a finalized
\* event is one the camera state still holds, ended, and is finalized once.
FinishedIsTracked ==
  /\ \A i \in DOMAIN finQueue : objs[finQueue[i]].state = "ended"
  /\ \A i, j \in DOMAIN finQueue : finQueue[i] = finQueue[j] => i = j

\* An open row is an event that the processor still has in process, so that its
\* end can be recognised and will close it.
OpenRowIsInProcess ==
  \A id \in Objects :
    db[id].state = "open" /\ ep = "running" => inProcess[id].known

\* The snapshot of an ended object is never an orphan file: its row says it has
\* one, or the message that will say so is queued.
SnapshotFileHasRow ==
  \A id \in files : (db[id].state # "none" /\ "snapshot" \in db[id].keep)
                      \/ EndQueued(id)

\* "keep these from being set back to false because the event may have started
\* while recordings/snapshots/alerts/detections were enabled"
\* (events/maintainer.py:191): what a row has is never taken away by an update.
FlagsNeverReset == [][\A id \in Objects : db[id].keep \subseteq db'[id].keep]_db

\* As long as the camera is not turned off, the pipeline implements the abstract
\* life of an event.
Lifecycle == INSTANCE EventLifecycle WITH
  Events <- Objects, phase <- mqtt, row <- [id \in Objects |-> db[id].state]
ImplementsLifecycle == Lifecycle!Spec

\* The work lists of the object processor fit the point it has reached.
WorkFits ==
  /\ pc \in {"config", "manage"} => todoEnd = {}
  /\ pc # "frame" => todoNew = {} /\ todoUpd = {}
  /\ pc = "get" => \A id \in todoEnd : objs[id].state = "live"
  /\ pc = "frame" => /\ \A id \in todoNew : objs[id].state = "absent"
                     /\ \A id \in todoUpd \cup todoEnd : objs[id].state # "absent"

\* An end is queued once, for an ended object that has not been finalized.
EndQueuedOnce ==
  /\ \A i \in DOMAIN evQueue : evQueue[i].type = "end" =>
        /\ objs[evQueue[i].id].state = "ended"
        /\ \A j \in DOMAIN finQueue : finQueue[j] # evQueue[i].id
  /\ \A i, j \in DOMAIN evQueue :
        /\ evQueue[i].type = "end" /\ evQueue[j].type = "end"
        /\ evQueue[i].id = evQueue[j].id
        => i = j

\* FinishedIsTracked, strengthened to an inductive invariant: the end has been on
\* exactly one of the two queues since the object was ended.
IInv == TypeOK /\ WorkFits /\ EndQueuedOnce /\ FinishedIsTracked

-----------------------------------------------------------------------------
(* Fairness: every process keeps running.  Frames keep coming (the camera   *)
(* watchdog restarts ffmpeg), so the tracker steps, and the queue of frames *)
(* is FIFO, so that other cameras cannot keep a frame from being taken;     *)
(* users and crashes are never obliged to act.                              *)
Fairness ==
  /\ WF_vars(TrackerReadsConfig) /\ WF_vars(TrackerFrame)
  /\ WF_vars(PublishEnabled) /\ WF_vars(Processor) /\ SF_vars(GetFrame)
  /\ WF_vars(EpStep)

FairSpec == Spec /\ Fairness

\* Every ended object is eventually forgotten by the camera state: the loop
\* through EventProcessor and back closes.
EndedIsReleased ==
  \A id \in Objects : objs[id].state = "ended" ~> objs[id].state # "ended"

\* A row left open by a crash or by an object that is gone is closed in the end.
OpenRowIsClosed ==
  \A id \in Objects :
    (db[id].state = "open" /\ id \notin tracked) ~> (db[id].state # "open")
=============================================================================
