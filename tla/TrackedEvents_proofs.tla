------------------------ MODULE TrackedEvents_proofs ------------------------
(***************************************************************************)
(* Theorems about TrackedEvents, for every set of objects, every queue     *)
(* size and any number of commands and crashes.                            *)
(*                                                                         *)
(* IInv carries the types and that an event is finalized once.  OpenInv    *)
(* relates open rows to what the event processor has in process and to the *)
(* messages that are queued; it needs that an end is always written, so    *)
(* that retention stays on.  LifeInv relates what the messages of an       *)
(* object say, in their order, to its row and its file; without commands   *)
(* and crashes it carries the refinement of EventLifecycle.                *)
(***************************************************************************)
EXTENDS TrackedEvents, TLAPS

-----------------------------------------------------------------------------
(* Sequences used as queues *)

LEMMA TailInSeq ==
  ASSUME NEW S, NEW s \in Seq(S), s # <<>>
  PROVE  /\ Head(s) \in S
         /\ Tail(s) \in Seq(S)
         /\ \A i \in DOMAIN Tail(s) : i + 1 \in DOMAIN s /\ Tail(s)[i] = s[i + 1]
         /\ Head(s) = s[1] /\ 1 \in DOMAIN s
         /\ DOMAIN s \subseteq Nat \ {0} /\ DOMAIN Tail(s) \subseteq Nat \ {0}
  OBVIOUS

LEMMA AppendInSeq ==
  ASSUME NEW S, NEW s \in Seq(S), NEW x \in S
  PROVE  /\ Append(s, x) \in Seq(S)
         /\ DOMAIN Append(s, x) = DOMAIN s \cup {Len(s) + 1}
         /\ \A i \in DOMAIN s : Append(s, x)[i] = s[i]
         /\ Append(s, x)[Len(s) + 1] = x
         /\ Len(s) + 1 \notin DOMAIN s
  OBVIOUS

LEMMA ElementInSeq ==
  ASSUME NEW S, NEW s \in Seq(S), NEW i \in DOMAIN s
  PROVE  s[i] \in S
  OBVIOUS

-----------------------------------------------------------------------------
(* Type correctness *)

\* What is queued is a message; what is published is queued or lost.
LEMMA PublishType ==
  ASSUME TypeOK, NEW m \in Message, Publish(m)
  PROVE  evQueue' \in Seq(Message)
  BY AppendInSeq DEF TypeOK, Publish

LEMMA KeepType ==
  ASSUME NEW o \in Obj
  PROVE  Keep(o) \subseteq Kinds
  BY DEF Keep, Obj

\* The end callback keeps the types of everything it assigns.
LEMMA EndCallbackType ==
  ASSUME TypeOK, NEW id \in Objects, EndCallback(id)
  PROVE  /\ objs' \in [Objects -> Obj]
         /\ files' \subseteq Objects
         /\ mqtt' \in [Objects -> {"none", "live", "ended"}]
         /\ evQueue' \in Seq(Message)
  <1>1. objs' \in [Objects -> Obj]
    BY DEF EndCallback, TypeOK, Obj, ObjStates
  <1>2. files' \subseteq Objects
    BY DEF EndCallback, TypeOK
  <1>3. mqtt' \in [Objects -> {"none", "live", "ended"}]
    BY DEF EndCallback, TypeOK
  <1>4. [id |-> id, type |-> "end", ended |-> TRUE, keep |-> Keep(objs[id])] \in Message
    BY KeepType DEF TypeOK, Message, EventTypes
  <1>5. evQueue' \in Seq(Message)
    BY <1>4, PublishType DEF EndCallback
  <1> QED BY <1>1, <1>2, <1>3, <1>5

\* EventProcessor stores, saves and finalizes well-formed values only.
LEMMA EpReceiveType ==
  ASSUME TypeOK, EpReceive
  PROVE  /\ evQueue' \in Seq(Message)
         /\ inProcess' \in [Objects -> Stored]
         /\ db' \in [Objects -> Row]
         /\ finQueue' \in Seq(Objects)
  <1> DEFINE m == Head(evQueue)
  <1>1. m \in Message /\ Tail(evQueue) \in Seq(Message)
    BY TailInSeq DEF TypeOK, EpReceive
  <1>2. /\ m.id \in Objects /\ m.type \in EventTypes
        /\ m.ended \in BOOLEAN /\ m.keep \subseteq Kinds
    BY <1>1 DEF Message
  <1>3. evQueue' \in Seq(Message)
    BY <1>1 DEF EpReceive
  <1>4. CASE m.type = "start" \/ ~inProcess[m.id].known
    <2>1. /\ inProcess' = [inProcess EXCEPT ![m.id] =
                             [known |-> TRUE, ended |-> m.ended, keep |-> m.keep]]
          /\ db' = db /\ finQueue' = finQueue
      BY <1>4, Zenon DEF EpReceive
    <2>2. [known |-> TRUE, ended |-> m.ended, keep |-> m.keep] \in Stored
      BY <1>2 DEF Stored
    <2> QED BY <2>1, <2>2, <1>2, <1>3 DEF TypeOK
  <1>5. CASE ~(m.type = "start" \/ ~inProcess[m.id].known)
    <2>1. PICK differs \in BOOLEAN, stateDiffers \in BOOLEAN :
             HandleObjectDetection(m, differs, stateDiffers)
      BY <1>5 DEF EpReceive
    <2> DEFINE save == ShouldUpdateDb(inProcess[m.id], m, differs)
               keep == IF save THEN m.keep \cup inProcess[m.id].keep ELSE m.keep
    <2>2. keep \subseteq Kinds
      BY <1>2 DEF TypeOK, Stored
    <2>3. [state |-> IF m.ended THEN "closed" ELSE "open", keep |-> keep] \in Row
      BY <2>2 DEF Row
    <2>4. db' \in [Objects -> Row]
      BY <2>1, <2>3, <1>2 DEF HandleObjectDetection, TypeOK
    <2>5. /\ [known |-> TRUE, ended |-> m.ended, keep |-> keep] \in Stored
          /\ NotStored \in Stored
      BY <2>2, <1>2 DEF Stored, NotStored
    <2>6. inProcess' \in [Objects -> Stored]
      BY <2>1, <2>5, <1>2 DEF HandleObjectDetection, TypeOK
    <2>7. finQueue' \in Seq(Objects)
      BY <2>1, <1>2, AppendInSeq DEF HandleObjectDetection, TypeOK
    <2> QED BY <2>4, <2>6, <2>7, <1>3
  <1> QED BY <1>4, <1>5, Zenon

LEMMA TypeInit == Init => TypeOK
  BY DEF Init, TypeOK, FirstEp, NoObj, Obj, ObjStates, Kinds, NotStored, Stored,
         NoRow, Row

\* Every step of the program keeps the types.
LEMMA TypeNext ==
  ASSUME TypeOK, [Next]_vars
  PROVE  TypeOK'
  <1> USE DEF controlVars, trackerVars, procVars, outVars, storeVars
  <1>1. CASE TrackerReadsConfig
    <2>1. /\ trkEnabled' \in BOOLEAN /\ trkConfig' \in Seq(BOOLEAN)
          /\ tracked' \subseteq Objects
      BY <1>1, TailInSeq DEF TypeOK, TrackerReadsConfig
    <2> QED BY <1>1, <2>1 DEF TypeOK, TrackerReadsConfig
  <1>2. CASE TrackerFrame
    <2>1. PICK gone \in SUBSET tracked, fresh \in SUBSET (Objects \ born) :
            /\ tracked' = (tracked \ gone) \cup fresh
            /\ born' = born \cup fresh
            /\ detQueue' = IF Len(detQueue) < DetQueueSize
                           THEN Append(detQueue, tracked') ELSE detQueue
      BY <1>2 DEF TrackerFrame
    <2>2. tracked' \in SUBSET Objects /\ born' \subseteq Objects
      BY <2>1 DEF TypeOK
    <2>3. detQueue' \in Seq(SUBSET Objects)
      BY <2>1, <2>2, AppendInSeq DEF TypeOK
    <2> QED BY <1>2, <2>2, <2>3 DEF TypeOK, TrackerFrame
  <1>3. ASSUME NEW payload \in {"ON", "OFF"}, EnabledCommand(payload) PROVE TypeOK'
    BY <1>3 DEF TypeOK, EnabledCommand
  <1>4. CASE PublishEnabled
    <2>1. trkConfig' \in Seq(BOOLEAN) /\ procConfig' \in Seq(BOOLEAN)
      BY <1>4, AppendInSeq DEF TypeOK, PublishEnabled
    <2> QED BY <1>4, <2>1 DEF TypeOK, PublishEnabled
  <1>5. ASSUME NEW snap \in BOOLEAN, NEW rec \in BOOLEAN, RetentionCommand(snap, rec)
        PROVE  TypeOK'
    BY <1>5 DEF TypeOK, RetentionCommand
  <1>6. CASE ReadConfig
    <2>1. procConfig' \in Seq(BOOLEAN) /\ enabled' \in BOOLEAN
      BY <1>6, TailInSeq DEF TypeOK, ReadConfig
    <2> QED BY <1>6, <2>1 DEF TypeOK, ReadConfig
  <1>7. CASE ManageEnabled
    BY <1>7 DEF TypeOK, ManageEnabled
  <1>8. ASSUME NEW id \in Objects, ForceEnd(id) PROVE TypeOK'
    <2>1. EndCallback(id)
      BY <1>8 DEF ForceEnd
    <2> QED BY <1>8, <2>1, EndCallbackType DEF TypeOK, ForceEnd
  <1>9. CASE GetTimeout
    BY <1>9 DEF TypeOK, GetTimeout
  <1>10. CASE GetFrame
    <2>1. Head(detQueue) \in SUBSET Objects /\ Tail(detQueue) \in Seq(SUBSET Objects)
      BY <1>10, TailInSeq DEF TypeOK, GetFrame
    <2>2. /\ pc' \in {"config", "frame"}
          /\ todoNew' \subseteq Objects /\ todoUpd' \subseteq Objects
          /\ todoEnd' \subseteq Objects /\ detQueue' \in Seq(SUBSET Objects)
      BY <1>10, <2>1 DEF TypeOK, GetFrame
    <2> QED BY <1>10, <2>2 DEF TypeOK, GetFrame
  <1>11. ASSUME NEW id \in Objects, NewObject(id) PROVE TypeOK'
    <2>1. [id |-> id, type |-> "start", ended |-> FALSE, keep |-> {}] \in Message
      BY DEF Message, EventTypes
    <2>2. evQueue' \in Seq(Message)
      BY <1>11, <2>1, PublishType DEF NewObject
    <2>3. objs' \in [Objects -> Obj]
      BY <1>11 DEF NewObject, TypeOK, NewObj, Obj, ObjStates
    <2> QED BY <1>11, <2>2, <2>3 DEF TypeOK, NewObject
  <1>12. ASSUME NEW id \in Objects, UpdateObject(id) PROVE TypeOK'
    <2>1. PICK confirmed \in BOOLEAN, eligible \in SUBSET Kinds, publish \in BOOLEAN :
            LET o == [objs[id] EXCEPT !.confirmed = confirmed, !.eligible = eligible]
            IN /\ objs' = [objs EXCEPT ![id] = o]
               /\ mqtt' = IF publish THEN [mqtt EXCEPT ![id] = "live"] ELSE mqtt
               /\ IF publish
                  THEN Publish([id |-> id, type |-> "update",
                                ended |-> o.state = "ended", keep |-> Keep(o)])
                  ELSE evQueue' = evQueue
      BY <1>12 DEF UpdateObject
    <2> DEFINE o == [objs[id] EXCEPT !.confirmed = confirmed, !.eligible = eligible]
    <2>2. o \in Obj
      BY DEF TypeOK, Obj
    <2>3. [id |-> id, type |-> "update", ended |-> o.state = "ended", keep |-> Keep(o)]
            \in Message
      BY <2>2, KeepType DEF Message, EventTypes
    <2>4. evQueue' \in Seq(Message)
      BY <2>1, <2>3, PublishType DEF TypeOK
    <2>5. objs' \in [Objects -> Obj]
      BY <2>1, <2>2 DEF TypeOK
    <2>6. mqtt' \in [Objects -> {"none", "live", "ended"}]
      BY <2>1 DEF TypeOK
    <2> QED BY <1>12, <2>4, <2>5, <2>6 DEF TypeOK, UpdateObject
  <1>13. ASSUME NEW id \in Objects, RemoveObject(id) PROVE TypeOK'
    <2>1. CASE objs[id].state = "live"
      <3>1. EndCallback(id)
        BY <1>13, <2>1 DEF RemoveObject
      <3> QED BY <1>13, <3>1, EndCallbackType DEF TypeOK, RemoveObject
    <2>2. CASE objs[id].state # "live"
      BY <1>13, <2>2 DEF TypeOK, RemoveObject
    <2> QED BY <2>1, <2>2
  <1>14. CASE Finish
    <2>1. Tail(finQueue) \in Seq(Objects) /\ Head(finQueue) \in Objects
      BY <1>14, TailInSeq DEF TypeOK, Finish
    <2>2. objs' \in [Objects -> Obj]
      BY <1>14, <2>1 DEF TypeOK, Finish, NoObj, Obj, ObjStates
    <2> QED BY <1>14, <2>1, <2>2 DEF TypeOK, Finish
  <1>15. CASE DrainDone
    BY <1>15 DEF TypeOK, DrainDone
  <1>16. CASE EpSubscribe
    BY <1>16 DEF TypeOK, EpSubscribe
  <1>17. CASE EpStart
    BY <1>17 DEF TypeOK, EpStart, Row
  <1>18. CASE EpReceive
    BY <1>18, EpReceiveType DEF TypeOK, EpReceive
  <1>19. CASE Crash
    BY <1>19 DEF TypeOK, Crash, FirstEp, NoObj, Obj, ObjStates, NotStored, Stored
  <1>20. CASE ConfigDone
    BY <1>20 DEF TypeOK, ConfigDone
  <1>21. CASE GetOtherFrame
    BY <1>21 DEF TypeOK, GetOtherFrame
  <1>22. CASE UNCHANGED vars
    BY <1>22 DEF TypeOK, vars
  <1> QED
    BY <1>1, <1>2, <1>3, <1>4, <1>5, <1>6, <1>7, <1>8, <1>9, <1>10, <1>11, <1>12,
       <1>13, <1>14, <1>15, <1>16, <1>17, <1>18, <1>19, <1>20, <1>21, <1>22
       DEF Next, Tracker, Dispatcher, Processor, EpStep

\* TypeOK holds in every reachable state: no handler of the pipeline ever stores,
\* queues or publishes a malformed value.
THEOREM TypeCorrect == Spec => []TypeOK
  <1>1. Init => TypeOK
    BY TypeInit
  <1>2. TypeOK /\ [Next]_vars => TypeOK'
    BY TypeNext
  <1> QED BY <1>1, <1>2, PTL DEF Spec

-----------------------------------------------------------------------------
(* An end travels once.  The lemmas say what each kind of step does to the   *)
(* two queues and to the objects the queued messages are about.              *)

Queues == EndQueuedOnce /\ FinishedIsTracked

\* Both queues are about objects.
LEMMA QueuedIds ==
  ASSUME TypeOK
  PROVE  /\ \A i \in DOMAIN evQueue : evQueue[i].id \in Objects
         /\ \A i \in DOMAIN finQueue : finQueue[i] \in Objects
  <1>1. ASSUME NEW i \in DOMAIN evQueue PROVE evQueue[i].id \in Objects
    <2>1. evQueue[i] \in Message
      BY ElementInSeq DEF TypeOK
    <2> QED BY <2>1 DEF Message
  <1>2. ASSUME NEW i \in DOMAIN finQueue PROVE finQueue[i] \in Objects
    BY ElementInSeq DEF TypeOK
  <1> QED BY <1>1, <1>2

\* Nothing is published, and no ended object is touched.
LEMMA QueuesKept ==
  ASSUME TypeOK, Queues, evQueue' = evQueue, finQueue' = finQueue,
         \A id \in Objects : objs[id].state = "ended" => objs'[id].state = "ended"
  PROVE  Queues'
  <1>1. /\ \A i \in DOMAIN evQueue : evQueue[i].id \in Objects
        /\ \A i \in DOMAIN finQueue : finQueue[i] \in Objects
    BY QueuedIds
  <1> QED BY <1>1 DEF Queues, EndQueuedOnce, FinishedIsTracked

\* A start or an update is published, and no ended object is touched.
LEMMA QueuesPublish ==
  ASSUME TypeOK, Queues, NEW m \in Message, m.type # "end", Publish(m),
         finQueue' = finQueue,
         \A id \in Objects : objs[id].state = "ended" => objs'[id].state = "ended"
  PROVE  Queues'
  <1>1. /\ \A i \in DOMAIN evQueue : evQueue[i].id \in Objects
        /\ \A i \in DOMAIN finQueue : finQueue[i] \in Objects
    BY QueuedIds
  <1>2. CASE evQueue' = evQueue
    BY <1>2, QueuesKept
  <1>3. CASE evQueue' = Append(evQueue, m)
    <2>1. /\ DOMAIN evQueue' = DOMAIN evQueue \cup {Len(evQueue) + 1}
          /\ \A i \in DOMAIN evQueue : evQueue'[i] = evQueue[i]
          /\ evQueue'[Len(evQueue) + 1] = m
      BY <1>3, AppendInSeq DEF TypeOK
    <2>2. \A i \in DOMAIN evQueue' :
            evQueue'[i].type = "end" => i \in DOMAIN evQueue /\ evQueue'[i] = evQueue[i]
      BY <2>1
    <2>3. EndQueuedOnce'
      BY <2>2, <1>1 DEF Queues, EndQueuedOnce
    <2>4. FinishedIsTracked'
      BY <1>1 DEF Queues, FinishedIsTracked
    <2> QED BY <2>3, <2>4 DEF Queues
  <1> QED BY <1>2, <1>3 DEF Publish

\* A live object is ended: no end of it was on its way.
LEMMA QueuesEnd ==
  ASSUME TypeOK, Queues, NEW id \in Objects, objs[id].state = "live",
         EndCallback(id), finQueue' = finQueue
  PROVE  Queues'
  <1> DEFINE m == [id |-> id, type |-> "end", ended |-> TRUE, keep |-> Keep(objs[id])]
  <1>1. /\ \A i \in DOMAIN evQueue : evQueue[i].id \in Objects
        /\ \A i \in DOMAIN finQueue : finQueue[i] \in Objects
    BY QueuedIds
  <1>2. /\ objs'[id].state = "ended"
        /\ \A o \in Objects : objs[o].state = "ended" => objs'[o].state = "ended"
    BY DEF EndCallback, TypeOK, Obj
  <1>3. /\ \A i \in DOMAIN evQueue : evQueue[i].type = "end" => evQueue[i].id # id
        /\ \A j \in DOMAIN finQueue : finQueue[j] # id
    BY DEF Queues, EndQueuedOnce, FinishedIsTracked
  <1>4. CASE evQueue' = evQueue
    BY <1>2, <1>4, QueuesKept
  <1>5. CASE evQueue' = Append(evQueue, m)
    <2>0. m \in Message
      BY KeepType DEF TypeOK, Message, EventTypes
    <2>1. /\ DOMAIN evQueue' = DOMAIN evQueue \cup {Len(evQueue) + 1}
          /\ \A i \in DOMAIN evQueue : evQueue'[i] = evQueue[i]
          /\ evQueue'[Len(evQueue) + 1] = m
      BY <1>5, <2>0, AppendInSeq DEF TypeOK
    <2>2. EndQueuedOnce'
      <3>1. ASSUME NEW i \in DOMAIN evQueue', evQueue'[i].type = "end"
            PROVE  /\ objs'[evQueue'[i].id].state = "ended"
                   /\ \A j \in DOMAIN finQueue : finQueue[j] # evQueue'[i].id
        BY <3>1, <2>1, <1>1, <1>2, <1>3 DEF Queues, EndQueuedOnce
      <3>2. ASSUME NEW i \in DOMAIN evQueue', NEW j \in DOMAIN evQueue',
                   evQueue'[i].type = "end", evQueue'[j].type = "end",
                   evQueue'[i].id = evQueue'[j].id
            PROVE  i = j
        BY <3>2, <2>1, <1>3 DEF Queues, EndQueuedOnce
      <3> QED BY <3>1, <3>2 DEF EndQueuedOnce
    <2>3. FinishedIsTracked'
      BY <1>1, <1>2 DEF Queues, FinishedIsTracked
    <2> QED BY <2>2, <2>3 DEF Queues
  <1> QED BY <1>4, <1>5 DEF EndCallback, Publish

\* An end moves from the first queue to the second, or a message is consumed.
LEMMA QueuesReceive ==
  ASSUME TypeOK, Queues, EpReceive
  PROVE  Queues'
  <1> DEFINE m == Head(evQueue)
  <1>0. objs' = objs /\ evQueue' = Tail(evQueue) /\ evQueue # <<>>
    BY DEF EpReceive
  <1>1. /\ m = evQueue[1] /\ 1 \in DOMAIN evQueue /\ m \in Message
        /\ \A i \in DOMAIN evQueue' : i + 1 \in DOMAIN evQueue /\ evQueue'[i] = evQueue[i + 1]
        /\ DOMAIN evQueue' \subseteq Nat \ {0}
    BY <1>0, TailInSeq DEF TypeOK
  <1>2. ASSUME NEW i \in DOMAIN evQueue', NEW j \in DOMAIN evQueue',
               evQueue'[i].type = "end", evQueue'[j].type = "end",
               evQueue'[i].id = evQueue'[j].id
        PROVE  i = j
    BY <1>1, <1>2 DEF Queues, EndQueuedOnce
  <1>3. ASSUME NEW i \in DOMAIN evQueue', evQueue'[i].type = "end"
        PROVE  /\ objs'[evQueue'[i].id].state = "ended"
               /\ \A j \in DOMAIN finQueue : finQueue[j] # evQueue'[i].id
    BY <1>0, <1>1, <1>3 DEF Queues, EndQueuedOnce
  <1>4. CASE finQueue' = finQueue
    BY <1>0, <1>2, <1>3, <1>4 DEF Queues, EndQueuedOnce, FinishedIsTracked
  <1>5. CASE m.type = "end" /\ finQueue' = Append(finQueue, m.id)
    <2>1. /\ objs[m.id].state = "ended"
          /\ \A j \in DOMAIN finQueue : finQueue[j] # m.id
      BY <1>1, <1>5 DEF Queues, EndQueuedOnce
    <2>2. /\ DOMAIN finQueue' = DOMAIN finQueue \cup {Len(finQueue) + 1}
          /\ \A i \in DOMAIN finQueue : finQueue'[i] = finQueue[i]
          /\ finQueue'[Len(finQueue) + 1] = m.id
      BY <1>1, <1>5, AppendInSeq DEF TypeOK, Message
    <2>3. FinishedIsTracked'
      BY <2>1, <2>2, <1>0 DEF Queues, FinishedIsTracked
    <2>4. ASSUME NEW i \in DOMAIN evQueue', evQueue'[i].type = "end"
          PROVE  evQueue'[i].id # m.id
      BY <1>1, <1>5, <2>4 DEF Queues, EndQueuedOnce
    <2>5. EndQueuedOnce'
      BY <1>2, <1>3, <2>2, <2>4 DEF EndQueuedOnce
    <2> QED BY <2>3, <2>5 DEF Queues
  <1>6. finQueue' = finQueue \/ (m.type = "end" /\ finQueue' = Append(finQueue, m.id))
    <2>1. CASE finQueue' = finQueue
      BY <2>1
    <2>2. CASE \E differs \in BOOLEAN, stateDiffers \in BOOLEAN :
                 HandleObjectDetection(m, differs, stateDiffers)
      BY <2>2 DEF HandleObjectDetection
    <2> QED BY <2>1, <2>2, Zenon DEF EpReceive
  <1> QED BY <1>4, <1>5, <1>6

\* The finalized object leaves the table; nothing queued was about it any more.
LEMMA QueuesFinish ==
  ASSUME TypeOK, Queues, Finish
  PROVE  Queues'
  <1>0. /\ evQueue' = evQueue /\ finQueue' = Tail(finQueue) /\ finQueue # <<>>
        /\ objs' = [objs EXCEPT ![Head(finQueue)] = NoObj]
    BY DEF Finish
  <1>1. /\ Head(finQueue) = finQueue[1] /\ 1 \in DOMAIN finQueue
        /\ \A i \in DOMAIN finQueue' :
             i + 1 \in DOMAIN finQueue /\ finQueue'[i] = finQueue[i + 1]
        /\ DOMAIN finQueue' \subseteq Nat \ {0}
    BY <1>0, TailInSeq DEF TypeOK
  <1>2. /\ \A i \in DOMAIN evQueue : evQueue[i].id \in Objects
        /\ \A i \in DOMAIN finQueue : finQueue[i] \in Objects
    BY QueuedIds
  <1>3. \A id \in Objects : id # finQueue[1] => objs'[id] = objs[id]
    BY <1>0, <1>1 DEF TypeOK
  <1>4. \A i \in DOMAIN finQueue' : finQueue'[i] # finQueue[1]
    BY <1>1 DEF Queues, FinishedIsTracked
  <1>5. FinishedIsTracked'
    BY <1>1, <1>2, <1>3, <1>4 DEF Queues, FinishedIsTracked
  <1>6. EndQueuedOnce'
    BY <1>0, <1>1, <1>2, <1>3 DEF Queues, EndQueuedOnce
  <1> QED BY <1>5, <1>6 DEF Queues

-----------------------------------------------------------------------------
(* The inductive invariant *)

\* The end callback ends its object and touches no other.
LEMMA EndCallbackObjs ==
  ASSUME TypeOK, NEW id \in Objects, EndCallback(id)
  PROVE  /\ objs'[id].state = "ended"
         /\ \A o \in Objects : o # id => objs'[o] = objs[o]
  BY DEF EndCallback, TypeOK, Obj

\* The work lists fit the program counter after every step.
LEMMA WorkNext ==
  ASSUME TypeOK, WorkFits, [Next]_vars
  PROVE  WorkFits'
  <1> USE DEF controlVars, trackerVars, procVars, outVars, storeVars
  <1>1. CASE UNCHANGED <<pc, todoNew, todoUpd, todoEnd, objs>>
    BY <1>1 DEF WorkFits
  <1>2. CASE ReadConfig \/ ConfigDone
    BY <1>2 DEF WorkFits, ReadConfig, ConfigDone
  <1>3. CASE ManageEnabled
    BY <1>3 DEF WorkFits, ManageEnabled
  <1>4. ASSUME NEW id \in Objects, ForceEnd(id) PROVE WorkFits'
    <2>1. EndCallback(id)
      BY <1>4 DEF ForceEnd
    <2>2. \A o \in todoEnd' : o \in Objects /\ o # id /\ o \in todoEnd
      BY <1>4 DEF ForceEnd, TypeOK
    <2> QED BY <1>4, <2>1, <2>2, EndCallbackObjs DEF WorkFits, ForceEnd
  <1>5. CASE GetTimeout
    BY <1>5 DEF WorkFits, GetTimeout
  <1>6. CASE GetFrame \/ GetOtherFrame
    <2>1. CASE GetFrame
      <3>1. Head(detQueue) \in SUBSET Objects
        BY <2>1, TailInSeq DEF TypeOK, GetFrame
      <3> QED BY <2>1, <3>1 DEF WorkFits, GetFrame, InTable
    <2>2. CASE GetOtherFrame
      BY <2>2 DEF WorkFits, GetOtherFrame
    <2> QED BY <1>6, <2>1, <2>2
  <1>7. ASSUME NEW id \in Objects, NewObject(id) PROVE WorkFits'
    <2>1. /\ objs'[id].state = "live"
          /\ \A o \in Objects : o # id => objs'[o] = objs[o]
      BY <1>7 DEF NewObject, NewObj, TypeOK
    <2>2. /\ pc = "frame" /\ pc' = pc /\ todoNew' = todoNew \ {id}
          /\ todoUpd' = todoUpd /\ todoEnd' = todoEnd
      BY <1>7 DEF NewObject
    <2> QED BY <2>1, <2>2 DEF WorkFits, TypeOK
  <1>8. ASSUME NEW id \in Objects, UpdateObject(id) PROVE WorkFits'
    <2>1. \A o \in Objects : objs'[o].state = objs[o].state
      BY <1>8 DEF UpdateObject, TypeOK, Obj
    <2>2. /\ pc = "frame" /\ pc' = pc /\ todoUpd' = todoUpd \ {id}
          /\ todoNew' = todoNew /\ todoEnd' = todoEnd
      BY <1>8 DEF UpdateObject
    <2> QED BY <2>1, <2>2 DEF WorkFits, TypeOK
  <1>9. ASSUME NEW id \in Objects, RemoveObject(id) PROVE WorkFits'
    <2>1. \A o \in Objects : objs[o].state # "absent" => objs'[o].state # "absent"
      <3>1. CASE objs[id].state = "live"
        <4>1. EndCallback(id)
          BY <1>9, <3>1 DEF RemoveObject
        <4> QED BY <4>1, EndCallbackObjs
      <3>2. CASE objs[id].state # "live"
        BY <1>9, <3>2 DEF RemoveObject
      <3> QED BY <3>1, <3>2
    <2>2. /\ pc = "frame" /\ pc' = pc /\ todoEnd' = todoEnd \ {id}
          /\ todoNew = {} /\ todoNew' = todoNew /\ todoUpd' = todoUpd
      BY <1>9 DEF RemoveObject
    <2> QED BY <2>1, <2>2 DEF WorkFits, TypeOK
  <1>10. CASE Finish
    BY <1>10 DEF WorkFits, Finish, FrameProcessed
  <1>11. CASE DrainDone
    BY <1>11 DEF WorkFits, DrainDone, FrameProcessed
  <1>12. CASE Crash
    BY <1>12 DEF WorkFits, Crash
  <1>13. CASE Tracker \/ Dispatcher \/ EpStep \/ UNCHANGED vars
    BY <1>1, <1>13 DEF Tracker, TrackerReadsConfig, TrackerFrame, Dispatcher,
       EnabledCommand, PublishEnabled, RetentionCommand, EpStep, EpSubscribe, EpStart,
       EpReceive, vars
  <1> QED
    BY <1>2, <1>3, <1>4, <1>5, <1>6, <1>7, <1>8, <1>9, <1>10, <1>11, <1>12, <1>13
       DEF Next, Processor

\* Every step keeps the ends on one queue at a time.
LEMMA QueuesNext ==
  ASSUME TypeOK, WorkFits, Queues, [Next]_vars
  PROVE  Queues'
  <1> USE DEF controlVars, trackerVars, procVars, outVars, storeVars
  <1>1. CASE UNCHANGED <<objs, evQueue, finQueue>>
    BY <1>1, QueuesKept
  <1>2. ASSUME NEW id \in Objects, ForceEnd(id) PROVE Queues'
    <2>1. objs[id].state = "live" /\ EndCallback(id) /\ finQueue' = finQueue
      BY <1>2 DEF ForceEnd, WorkFits
    <2> QED BY <2>1, QueuesEnd
  <1>3. ASSUME NEW id \in Objects, NewObject(id) PROVE Queues'
    <2> DEFINE m == [id |-> id, type |-> "start", ended |-> FALSE, keep |-> {}]
    <2>1. m \in Message /\ m.type # "end"
      BY DEF Message, EventTypes
    <2>2. Publish(m) /\ finQueue' = finQueue
      BY <1>3 DEF NewObject
    <2>3. \A o \in Objects : objs[o].state = "ended" => objs'[o].state = "ended"
      BY <1>3 DEF NewObject, WorkFits, TypeOK
    <2> HIDE DEF m
    <2> QED BY <2>1, <2>2, <2>3, QueuesPublish
  <1>4. ASSUME NEW id \in Objects, UpdateObject(id) PROVE Queues'
    <2>1. PICK confirmed \in BOOLEAN, eligible \in SUBSET Kinds, publish \in BOOLEAN :
            LET o == [objs[id] EXCEPT !.confirmed = confirmed, !.eligible = eligible]
            IN /\ objs' = [objs EXCEPT ![id] = o]
               /\ IF publish
                  THEN Publish([id |-> id, type |-> "update",
                                ended |-> o.state = "ended", keep |-> Keep(o)])
                  ELSE evQueue' = evQueue
      BY <1>4 DEF UpdateObject
    <2> DEFINE o == [objs[id] EXCEPT !.confirmed = confirmed, !.eligible = eligible]
               m == [id |-> id, type |-> "update", ended |-> o.state = "ended",
                     keep |-> Keep(o)]
    <2>2. o \in Obj /\ o.state = objs[id].state
      BY DEF TypeOK, Obj
    <2>3. m \in Message /\ m.type # "end"
      BY <2>2, KeepType DEF Message, EventTypes
    <2>4. finQueue' = finQueue
      BY <1>4 DEF UpdateObject
    <2>5. \A i \in Objects : objs[i].state = "ended" => objs'[i].state = "ended"
      BY <2>1, <2>2 DEF TypeOK
    <2>6. Publish(m) \/ evQueue' = evQueue
      BY <2>1
    <2> HIDE DEF m, o
    <2> QED BY <2>3, <2>4, <2>5, <2>6, QueuesPublish, QueuesKept
  <1>5. ASSUME NEW id \in Objects, RemoveObject(id) PROVE Queues'
    <2>1. CASE objs[id].state = "live"
      BY <1>5, <2>1, QueuesEnd DEF RemoveObject
    <2>2. CASE objs[id].state # "live"
      BY <1>5, <2>2, <1>1 DEF RemoveObject
    <2> QED BY <2>1, <2>2
  <1>6. CASE Finish
    BY <1>6, QueuesFinish
  <1>7. CASE EpReceive
    BY <1>7, QueuesReceive
  <1>8. CASE Crash
    <2>1. evQueue' = <<>> /\ finQueue' = <<>>
      BY <1>8 DEF Crash
    <2> QED BY <2>1 DEF Queues, EndQueuedOnce, FinishedIsTracked
  <1>9. CASE \/ ReadConfig \/ ConfigDone \/ ManageEnabled \/ GetTimeout \/ GetFrame
             \/ GetOtherFrame \/ DrainDone
    BY <1>1, <1>9 DEF ReadConfig, ConfigDone, ManageEnabled, GetTimeout, GetFrame,
       GetOtherFrame, DrainDone
  <1>10. CASE Tracker \/ Dispatcher \/ EpSubscribe \/ EpStart \/ UNCHANGED vars
    BY <1>1, <1>10 DEF Tracker, TrackerReadsConfig, TrackerFrame, Dispatcher,
       EnabledCommand, PublishEnabled, RetentionCommand, EpSubscribe, EpStart, vars
  <1> QED
    BY <1>2, <1>3, <1>4, <1>5, <1>6, <1>7, <1>8, <1>9, <1>10
       DEF Next, Processor, EpStep

LEMMA IInvInit == Init => IInv
  <1> SUFFICES ASSUME Init PROVE IInv
    OBVIOUS
  <1>1. TypeOK
    BY TypeInit
  <1>2. WorkFits
    BY DEF Init, WorkFits
  <1>3. EndQueuedOnce /\ FinishedIsTracked
    BY DEF Init, EndQueuedOnce, FinishedIsTracked
  <1> QED BY <1>1, <1>2, <1>3 DEF IInv

LEMMA IInvNext == IInv /\ [Next]_vars => IInv'
  BY TypeNext, WorkNext, QueuesNext DEF IInv, Queues

\* FinishedIsTracked in every reachable state: whatever turns the camera on and
\* off, loses messages or restarts the program, an event is finalized only while
\* the camera state holds its ended object, and once.
THEOREM FinalizedOnce == Spec => []FinishedIsTracked
  <1>1. IInv => FinishedIsTracked
    BY DEF IInv
  <1> QED BY <1>1, IInvInit, IInvNext, PTL DEF Spec

-----------------------------------------------------------------------------
(* The order of messages, and rows and the dictionary of the event processor *)

\* A message that is published is the last of the queue, or lost; the others stay in place.
LEMMA Published ==
  ASSUME TypeOK, NEW m \in Message, Publish(m)
  PROVE  /\ \A i \in DOMAIN evQueue' :
               \/ i \in DOMAIN evQueue /\ evQueue'[i] = evQueue[i]
               \/ i = Len(evQueue) + 1 /\ evQueue'[i] = m
         /\ \A i \in DOMAIN evQueue : i \in DOMAIN evQueue' /\ evQueue'[i] = evQueue[i]
         /\ \A i \in DOMAIN evQueue : i \in Nat /\ i <= Len(evQueue)
         /\ Len(evQueue) \in Nat
         /\ ep # "absent" => /\ Len(evQueue) + 1 \in DOMAIN evQueue'
                             /\ evQueue'[Len(evQueue) + 1] = m
  BY AppendInSeq DEF Publish, TypeOK

\* The queue loses its head, and the others move up.
LEMMA Received ==
  ASSUME TypeOK, evQueue # <<>>, evQueue' = Tail(evQueue)
  PROVE  /\ 1 \in DOMAIN evQueue /\ Head(evQueue) = evQueue[1] /\ Head(evQueue) \in Message
         /\ \A i \in DOMAIN evQueue' :
              i \in Nat \ {0} /\ i + 1 \in DOMAIN evQueue /\ evQueue'[i] = evQueue[i + 1]
         /\ \A i \in DOMAIN evQueue : i # 1 => i - 1 \in DOMAIN evQueue' /\ evQueue'[i - 1] = evQueue[i]
         /\ \A i \in DOMAIN evQueue : i \in Nat \ {0}
  BY TailInSeq DEF TypeOK

-----------------------------------------------------------------------------
(* A row is closed by its end, while snapshots and recordings are on. *)

\* What a queued message says: only a start says that nothing is kept, and a message of an
\* object that goes on is about one that is in the table and keeps no less.
Sound(m) ==
  /\ m.type = "start" => ~m.ended /\ m.keep = {}
  /\ m.type = "end" => m.ended
  /\ ~m.ended => /\ objs[m.id].state # "absent"
                 /\ m.keep # {} => objs[m.id].eligible # {}
                 /\ \A k \in DOMAIN finQueue : finQueue[k] # m.id

\* What may come after a message in the queue: a new life of an id only after its end,
\* nothing that goes on after an end, and nothing that keeps less.
Follows(a, b) ==
  a.id = b.id =>
    /\ b.type = "start" => a.ended
    /\ a.type = "end" => b.ended
    /\ ~a.ended /\ a.keep # {} => b.keep # {}

\* An open row is of an event in process that goes on and is kept, and so is the object.
OpenFits(id) ==
  /\ inProcess[id].known /\ ~inProcess[id].ended /\ inProcess[id].keep # {}
  /\ objs[id].state # "absent" /\ objs[id].eligible # {}
  /\ \A k \in DOMAIN finQueue : finQueue[k] # id
  /\ \A i \in DOMAIN evQueue : evQueue[i].id = id => evQueue[i].keep # {}

OpenInv ==
  /\ snapOn /\ recOn
  /\ \A i \in DOMAIN evQueue : Sound(evQueue[i])
  /\ \A i, j \in DOMAIN evQueue : i < j => Follows(evQueue[i], evQueue[j])
  /\ ep = "running" => \A id \in Objects : db[id].state = "open" => OpenFits(id)

\* No object leaves the table or is entitled to less.
Grows ==
  \A id \in Objects : objs[id].state # "absent" =>
    objs'[id].state # "absent" /\ (objs[id].eligible # {} => objs'[id].eligible # {})

LEMMA OpenKept ==
  ASSUME TypeOK, OpenInv, Grows,
         UNCHANGED <<snapOn, recOn, evQueue, finQueue, ep, inProcess, db>>
  PROVE  OpenInv'
<1>1. \A i \in DOMAIN evQueue : evQueue[i].id \in Objects
  BY QueuedIds
<1>2. \A i \in DOMAIN evQueue' : Sound(evQueue[i])'
  BY <1>1 DEF OpenInv, Sound, Grows
<1>3. \A i, j \in DOMAIN evQueue' : i < j => Follows(evQueue[i], evQueue[j])'
  BY DEF OpenInv, Follows
<1>4. ep' = "running" => \A id \in Objects : db'[id].state = "open" => OpenFits(id)'
  BY DEF OpenInv, OpenFits, Grows
<1> QED BY <1>2, <1>3, <1>4 DEF OpenInv

\* A message that fits those before it, the object and its row is published.
LEMMA OpenPublish ==
  ASSUME TypeOK, OpenInv, Grows, NEW m \in Message, Publish(m),
         UNCHANGED <<snapOn, recOn, finQueue, ep, inProcess, db>>,
         m.type = "start" => ~m.ended /\ m.keep = {},
         m.type = "end" => m.ended,
         ~m.ended => /\ objs'[m.id].state # "absent"
                     /\ m.keep # {} => objs'[m.id].eligible # {}
                     /\ \A k \in DOMAIN finQueue : finQueue[k] # m.id,
         \A i \in DOMAIN evQueue : Follows(evQueue[i], m),
         ep = "running" /\ db[m.id].state = "open" => m.keep # {}
  PROVE  OpenInv'
<1>0. m.id \in Objects
  BY DEF Message
<1>1. \A i \in DOMAIN evQueue : evQueue[i].id \in Objects
  BY QueuedIds
<1>2. /\ \A i \in DOMAIN evQueue' :
            \/ i \in DOMAIN evQueue /\ evQueue'[i] = evQueue[i]
            \/ i = Len(evQueue) + 1 /\ evQueue'[i] = m
      /\ \A i \in DOMAIN evQueue : i \in Nat /\ i <= Len(evQueue)
      /\ Len(evQueue) \in Nat
  BY Published
<1>3. ASSUME NEW i \in DOMAIN evQueue' PROVE Sound(evQueue[i])'
  <2>1. CASE i \in DOMAIN evQueue /\ evQueue'[i] = evQueue[i]
    BY <2>1, <1>1 DEF OpenInv, Sound, Grows
  <2>2. CASE evQueue'[i] = m
    BY <2>2, <1>0 DEF Sound
  <2> QED BY <1>2, <2>1, <2>2
<1>4. ASSUME NEW i \in DOMAIN evQueue', NEW j \in DOMAIN evQueue', i < j
      PROVE  Follows(evQueue[i], evQueue[j])'
  <2>1. i \in DOMAIN evQueue /\ evQueue'[i] = evQueue[i]
    BY <1>2, <1>4
  <2>2. CASE j \in DOMAIN evQueue /\ evQueue'[j] = evQueue[j]
    BY <1>4, <2>1, <2>2 DEF OpenInv, Follows
  <2>3. CASE evQueue'[j] = m
    BY <2>1, <2>3 DEF Follows
  <2> QED BY <1>2, <2>2, <2>3
<1>5. ASSUME ep' = "running", NEW id \in Objects, db'[id].state = "open" PROVE OpenFits(id)'
  <2>1. OpenFits(id)
    BY <1>5 DEF OpenInv
  <2>2. \A i \in DOMAIN evQueue' : evQueue'[i].id = id => evQueue'[i].keep # {}
    BY <1>2, <1>5, <2>1 DEF OpenFits
  <2> QED BY <2>1, <2>2 DEF OpenFits, Grows
<1> QED BY <1>3, <1>4, <1>5 DEF OpenInv

\* The first message of the queue is stored, saved or finalized.
LEMMA OpenReceive ==
  ASSUME TypeOK, OpenInv, Queues, EpReceive
  PROVE  OpenInv'
<1> DEFINE m == Head(evQueue)
<1>0. /\ objs' = objs /\ evQueue' = Tail(evQueue) /\ evQueue # <<>> /\ ep = "running" /\ ep' = ep
      /\ snapOn' = snapOn /\ recOn' = recOn
  BY DEF EpReceive, controlVars
<1>1. /\ m = evQueue[1] /\ 1 \in DOMAIN evQueue /\ m \in Message
      /\ \A i \in DOMAIN evQueue' :
           i \in Nat \ {0} /\ i + 1 \in DOMAIN evQueue /\ evQueue'[i] = evQueue[i + 1]
  BY <1>0, Received
<1>2. m.id \in Objects /\ m.ended \in BOOLEAN
  BY <1>1 DEF Message
<1>3. \A i \in DOMAIN evQueue : evQueue[i].id \in Objects
  BY QueuedIds
<1>4. \A i \in DOMAIN evQueue' : Follows(m, evQueue'[i])
  BY <1>1 DEF OpenInv
<1>5. Sound(m)
  BY <1>1 DEF OpenInv
<1>6. \A i, j \in DOMAIN evQueue' : i < j => Follows(evQueue[i], evQueue[j])'
  BY <1>1 DEF OpenInv, Follows
<1>7. CASE m.type = "start" \/ ~inProcess[m.id].known
  <2>1. /\ inProcess' = [inProcess EXCEPT ![m.id] =
                            [known |-> TRUE, ended |-> m.ended, keep |-> m.keep]]
        /\ db' = db /\ finQueue' = finQueue
    BY <1>7, Zenon DEF EpReceive
  <2>2. db[m.id].state # "open"
    BY <1>0, <1>1, <1>2, <1>5, <1>7 DEF OpenInv, OpenFits, Sound
  <2>3. \A i \in DOMAIN evQueue' : Sound(evQueue[i])'
    BY <2>1, <1>0, <1>1 DEF OpenInv, Sound
  <2>4. ASSUME NEW id \in Objects, db'[id].state = "open" PROVE OpenFits(id)'
    <3>1. id # m.id /\ OpenFits(id)
      BY <2>1, <2>2, <2>4, <1>0 DEF OpenInv
    <3>2. inProcess'[id] = inProcess[id]
      BY <3>1, <2>1, <1>2 DEF TypeOK
    <3>3. \A i \in DOMAIN evQueue' : evQueue'[i].id = id => evQueue'[i].keep # {}
      BY <3>1, <1>1 DEF OpenFits
    <3> QED BY <3>1, <3>2, <3>3, <2>1, <1>0 DEF OpenFits
  <2> QED BY <1>0, <1>6, <2>3, <2>4 DEF OpenInv
<1>8. ASSUME NEW differs \in BOOLEAN, NEW stateDiffers \in BOOLEAN,
             HandleObjectDetection(m, differs, stateDiffers), m.type # "start"
      PROVE  OpenInv'
  <2> DEFINE prev == inProcess[m.id]
             save == ShouldUpdateDb(prev, m, differs)
             keep == IF save THEN m.keep \cup prev.keep ELSE m.keep
  <2>1. /\ db' = IF save THEN [db EXCEPT ![m.id] =
                                 [state |-> IF m.ended THEN "closed" ELSE "open", keep |-> keep]]
                 ELSE db
        /\ inProcess' = IF m.type = "end" THEN [inProcess EXCEPT ![m.id] = NotStored]
                        ELSE IF save \/ stateDiffers
                        THEN [inProcess EXCEPT ![m.id] =
                                [known |-> TRUE, ended |-> m.ended, keep |-> keep]]
                        ELSE inProcess
        /\ finQueue' = IF m.type = "end" THEN Append(finQueue, m.id) ELSE finQueue
    BY <1>8 DEF HandleObjectDetection
  <2>2. /\ save => m.keep # {} /\ keep # {}
        /\ m.keep # {} /\ prev.ended # m.ended => save
        /\ keep # {} <=> m.keep # {}
    BY DEF ShouldUpdateDb
  <2> HIDE DEF save, keep
  <2>3. \A k \in DOMAIN finQueue' :
           \/ finQueue'[k] = m.id /\ m.type = "end"
           \/ k \in DOMAIN finQueue /\ finQueue'[k] = finQueue[k]
    <3>1. CASE m.type = "end"
      <4>1. finQueue' = Append(finQueue, m.id)
        BY <2>1, <3>1
      <4>2. /\ DOMAIN finQueue' = DOMAIN finQueue \cup {Len(finQueue) + 1}
            /\ \A k \in DOMAIN finQueue : finQueue'[k] = finQueue[k]
            /\ finQueue'[Len(finQueue) + 1] = m.id
        BY <4>1, <1>2, AppendInSeq DEF TypeOK
      <4> HIDE DEF m
      <4> QED BY <4>2, <3>1
    <3>2. CASE m.type # "end"
      BY <2>1, <3>2
    <3> QED BY <3>1, <3>2
  <2>4. ASSUME NEW i \in DOMAIN evQueue' PROVE Sound(evQueue[i])'
    <3>1. Sound(evQueue[i + 1]) /\ evQueue'[i] = evQueue[i + 1] /\ Follows(m, evQueue'[i])
      BY <1>1, <1>4 DEF OpenInv
    <3>2. ~evQueue'[i].ended => \A k \in DOMAIN finQueue' : finQueue'[k] # evQueue'[i].id
      BY <3>1, <2>3 DEF Sound, Follows
    <3> QED BY <3>1, <3>2, <1>0 DEF Sound
  <2>5. ASSUME NEW id \in Objects, db'[id].state = "open" PROVE OpenFits(id)'
    <3>1. CASE id # m.id
      <4>1. OpenFits(id) /\ inProcess'[id] = inProcess[id]
        BY <1>0, <1>2, <2>1, <2>5, <3>1 DEF OpenInv, TypeOK
      <4>2. /\ \A k \in DOMAIN finQueue' : finQueue'[k] # id
            /\ \A i \in DOMAIN evQueue' : evQueue'[i].id = id => evQueue'[i].keep # {}
        BY <4>1, <2>3, <3>1, <1>1 DEF OpenFits
      <4> QED BY <4>1, <4>2, <1>0 DEF OpenFits
    <3>2. CASE id = m.id
      <4>1. ~m.ended /\ m.keep # {}
        <5>1. CASE db[id].state = "open"
          <6>1. OpenFits(id) /\ m.keep # {}
            BY <5>1, <3>2, <1>0, <1>1 DEF OpenInv, OpenFits
          <6>2. m.ended => save
            BY <6>1, <2>2, <3>2 DEF OpenFits
          <6>3. save /\ m.ended => db'[id].state = "closed"
            BY <2>1, <3>2, <1>2 DEF TypeOK
          <6> QED BY <6>1, <6>2, <6>3, <2>5
        <5>2. CASE db[id].state # "open"
          BY <2>1, <2>2, <2>5, <3>2, <5>2, <1>2 DEF TypeOK
        <5> QED BY <5>1, <5>2
      <4>2. m.type # "end" /\ finQueue' = finQueue
        BY <4>1, <1>5, <2>1 DEF Sound
      <4>3. inProcess'[id].known /\ ~inProcess'[id].ended /\ inProcess'[id].keep # {}
        <5>1. CASE save \/ stateDiffers
          BY <5>1, <4>1, <4>2, <2>1, <2>2, <3>2, <1>2 DEF TypeOK
        <5>2. CASE ~(save \/ stateDiffers)
          <6>1. inProcess' = inProcess /\ db' = db
            BY <5>2, <4>2, <2>1
          <6> QED BY <6>1, <2>5, <1>0 DEF OpenInv, OpenFits
        <5> QED BY <5>1, <5>2
      <4>4. /\ objs[id].state # "absent" /\ objs[id].eligible # {}
            /\ \A k \in DOMAIN finQueue : finQueue[k] # id
        BY <4>1, <3>2, <1>5 DEF Sound
      <4>5. \A i \in DOMAIN evQueue' : evQueue'[i].id = id => evQueue'[i].keep # {}
        BY <1>4, <4>1, <3>2 DEF Follows
      <4> QED BY <4>2, <4>3, <4>4, <4>5, <1>0 DEF OpenFits
    <3> QED BY <3>1, <3>2
  <2> QED BY <1>0, <1>6, <2>4, <2>5 DEF OpenInv
<1>9. ~(m.type = "start" \/ ~inProcess[m.id].known) =>
        \E differs \in BOOLEAN, stateDiffers \in BOOLEAN :
          HandleObjectDetection(m, differs, stateDiffers)
  BY DEF EpReceive
<1> QED BY <1>7, <1>8, <1>9

\* A finalized object has no open row, and nothing that goes on is queued about it.
LEMMA OpenFinish ==
  ASSUME TypeOK, OpenInv, Finish
  PROVE  OpenInv'
<1> DEFINE gone == Head(finQueue)
<1>0. /\ finQueue' = Tail(finQueue) /\ finQueue # <<>> /\ objs' = [objs EXCEPT ![gone] = NoObj]
      /\ UNCHANGED <<snapOn, recOn, evQueue, ep, inProcess, db>>
  BY DEF Finish, controlVars, storeVars
<1>1. /\ gone = finQueue[1] /\ 1 \in DOMAIN finQueue /\ gone \in Objects
      /\ \A k \in DOMAIN finQueue' : k + 1 \in DOMAIN finQueue /\ finQueue'[k] = finQueue[k + 1]
  BY <1>0, TailInSeq DEF TypeOK
<1>2. \A id \in Objects : id # gone => objs'[id] = objs[id]
  BY <1>0, <1>1 DEF TypeOK
<1>3. \A i \in DOMAIN evQueue : evQueue[i].id \in Objects
  BY QueuedIds
<1> HIDE DEF gone
<1>4. ASSUME NEW i \in DOMAIN evQueue' PROVE Sound(evQueue[i])'
  <2>1. Sound(evQueue[i])
    BY <1>0, <1>4 DEF OpenInv
  <2>2. ~evQueue[i].ended => evQueue[i].id # gone
    BY <2>1, <1>1 DEF Sound
  <2> QED BY <2>1, <2>2, <1>0, <1>1, <1>2, <1>3, <1>4 DEF Sound
<1>5. \A i, j \in DOMAIN evQueue' : i < j => Follows(evQueue[i], evQueue[j])'
  BY <1>0 DEF OpenInv, Follows
<1>6. ASSUME ep' = "running", NEW id \in Objects, db'[id].state = "open" PROVE OpenFits(id)'
  <2>1. OpenFits(id) /\ id # gone
    BY <1>0, <1>1, <1>6 DEF OpenInv, OpenFits
  <2> QED BY <2>1, <1>0, <1>1, <1>2 DEF OpenFits
<1> QED BY <1>0, <1>4, <1>5, <1>6 DEF OpenInv

LEMMA OpenNext ==
  ASSUME MaxRetention = 0, TypeOK, WorkFits, Queues, OpenInv, [Next]_vars
  PROVE  OpenInv'
<1> USE DEF controlVars, trackerVars, procVars, outVars, storeVars
<1>1. CASE UNCHANGED <<snapOn, recOn, objs, evQueue, finQueue, ep, inProcess, db>>
  BY <1>1, OpenKept DEF Grows
<1>2. ASSUME NEW snap \in BOOLEAN, NEW rec \in BOOLEAN, RetentionCommand(snap, rec) PROVE FALSE
  BY <1>2 DEF RetentionCommand, TypeOK
<1>3. ASSUME NEW id \in Objects, objs[id].state = "live", EndCallback(id),
             UNCHANGED <<snapOn, recOn, finQueue, ep, inProcess, db>>
      PROVE  OpenInv'
  <2>1. PICK m \in Message :
          m = [id |-> id, type |-> "end", ended |-> TRUE, keep |-> Keep(objs[id])]
    BY KeepType DEF TypeOK, Message, EventTypes
  <2>2. Publish(m) /\ Grows
    BY <1>3, <2>1 DEF EndCallback, Grows, TypeOK, Obj
  <2>3. m.keep = objs[id].eligible
    BY <2>1 DEF Keep, OpenInv, TypeOK, Obj, Kinds
  <2>4. \A i \in DOMAIN evQueue : Follows(evQueue[i], m)
    BY <2>1, <2>3 DEF Follows, OpenInv, Sound
  <2>5. ep = "running" /\ db[m.id].state = "open" => m.keep # {}
    BY <2>1, <2>3 DEF OpenInv, OpenFits
  <2> QED BY <1>3, <2>1, <2>2, <2>4, <2>5, OpenPublish
<1>4. ASSUME NEW id \in Objects, ForceEnd(id) PROVE OpenInv'
  BY <1>3, <1>4 DEF ForceEnd, WorkFits
<1>5. ASSUME NEW id \in Objects, RemoveObject(id) PROVE OpenInv'
  <2>1. CASE objs[id].state = "live"
    BY <1>3, <1>5, <2>1 DEF RemoveObject
  <2>2. CASE objs[id].state # "live"
    BY <1>1, <1>5, <2>2 DEF RemoveObject
  <2> QED BY <2>1, <2>2
<1>6. ASSUME NEW id \in Objects, NewObject(id) PROVE OpenInv'
  <2>1. PICK m \in Message : m = [id |-> id, type |-> "start", ended |-> FALSE, keep |-> {}]
    BY DEF Message, EventTypes
  <2>2. Publish(m) /\ Grows /\ objs[id].state = "absent" /\ objs'[id].state # "absent"
    BY <1>6, <2>1 DEF NewObject, NewObj, WorkFits, Grows, TypeOK
  <2>3. \A i \in DOMAIN evQueue : Follows(evQueue[i], m)
    BY <2>1, <2>2 DEF Follows, OpenInv, Sound, Queues, EndQueuedOnce
  <2>4. ~(ep = "running" /\ db[m.id].state = "open")
    BY <2>1, <2>2 DEF OpenInv, OpenFits
  <2>5. \A k \in DOMAIN finQueue : finQueue[k] # id
    BY <2>2 DEF Queues, FinishedIsTracked
  <2>6. UNCHANGED <<snapOn, recOn, finQueue, ep, inProcess, db>>
    BY <1>6 DEF NewObject
  <2> QED BY <2>1, <2>2, <2>3, <2>4, <2>5, <2>6, OpenPublish
<1>7. ASSUME NEW id \in Objects, UpdateObject(id) PROVE OpenInv'
  <2>1. PICK confirmed \in BOOLEAN, eligible \in SUBSET Kinds, publish \in BOOLEAN :
          LET o == [objs[id] EXCEPT !.confirmed = confirmed, !.eligible = eligible]
          IN /\ objs[id].eligible \subseteq eligible
             /\ objs' = [objs EXCEPT ![id] = o]
             /\ IF publish
                THEN Publish([id |-> id, type |-> "update",
                              ended |-> o.state = "ended", keep |-> Keep(o)])
                ELSE evQueue' = evQueue
    BY <1>7 DEF UpdateObject
  <2> DEFINE o == [objs[id] EXCEPT !.confirmed = confirmed, !.eligible = eligible]
  <2>a. objs[id].state # "absent"
    BY <1>7 DEF UpdateObject, WorkFits
  <2>2. /\ o \in Obj /\ o.state = objs[id].state /\ o.eligible = eligible
        /\ objs'[id] = o /\ objs[id].state # "absent"
    BY <2>a, <2>1 DEF TypeOK, Obj
  <2>3. Keep(o) = eligible
    BY <2>2 DEF Keep, OpenInv, Kinds
  <2>4. Grows
    BY <2>1, <2>2 DEF Grows, TypeOK
  <2>5. UNCHANGED <<snapOn, recOn, finQueue, ep, inProcess, db>>
    BY <1>7 DEF UpdateObject
  <2>b. [id |-> id, type |-> "update", ended |-> o.state = "ended", keep |-> Keep(o)] \in Message
    BY <2>2, KeepType DEF Message, EventTypes
  <2>6. PICK m \in Message :
          m = [id |-> id, type |-> "update", ended |-> o.state = "ended", keep |-> Keep(o)]
    BY <2>b
  <2>7. CASE publish
    <3>1. Publish(m)
      BY <2>1, <2>6, <2>7
    <3> HIDE DEF o
    <3>2. \A i \in DOMAIN evQueue : Follows(evQueue[i], m)
      <4> SUFFICES ASSUME NEW i \in DOMAIN evQueue, evQueue[i].id = id
                   PROVE  Follows(evQueue[i], m)
        BY <2>6 DEF Follows
      <4>1. evQueue[i].type = "end" => m.ended
        BY <2>2, <2>6 DEF Queues, EndQueuedOnce
      <4>2. ~evQueue[i].ended /\ evQueue[i].keep # {} => m.keep # {}
        BY <2>1, <2>3, <2>6 DEF OpenInv, Sound
      <4> QED BY <4>1, <4>2, <2>6 DEF Follows
    <3>3. ep = "running" /\ db[id].state = "open" => m.keep # {}
      BY <2>1, <2>3, <2>6 DEF OpenInv, OpenFits
    <3>4. ~m.ended => \A k \in DOMAIN finQueue : finQueue[k] # m.id
      BY <2>2, <2>6 DEF Queues, FinishedIsTracked
    <3> QED BY <2>2, <2>3, <2>4, <2>5, <2>6, <3>1, <3>2, <3>3, <3>4, OpenPublish
  <2>8. CASE ~publish
    BY <2>1, <2>4, <2>5, <2>8, OpenKept
  <2> QED BY <2>7, <2>8
<1>8. CASE EpStart
  <2>1. ASSUME NEW id \in Objects PROVE db'[id].state # "open"
    BY <1>8 DEF EpStart, TypeOK, Row
  <2>2. UNCHANGED <<snapOn, recOn, objs, evQueue, finQueue>>
    BY <1>8 DEF EpStart
  <2> QED BY <2>1, <2>2 DEF OpenInv, Sound, Follows
<1>9. CASE EpSubscribe
  BY <1>9 DEF EpSubscribe, OpenInv, Sound, Follows
<1>10. CASE Crash
  BY <1>10 DEF Crash, FirstEp, OpenInv
<1>11. CASE Finish
  BY <1>11, OpenFinish
<1>12. CASE EpReceive
  BY <1>12, OpenReceive
<1>13. CASE \/ ReadConfig \/ ConfigDone \/ ManageEnabled \/ GetTimeout \/ GetFrame
           \/ GetOtherFrame \/ DrainDone \/ Tracker \/ PublishEnabled \/ UNCHANGED vars
           \/ \E payload \in {"ON", "OFF"} : EnabledCommand(payload)
  BY <1>1, <1>13 DEF ReadConfig, ConfigDone, ManageEnabled, GetTimeout, GetFrame, GetOtherFrame,
     DrainDone, Tracker, TrackerReadsConfig, TrackerFrame, PublishEnabled, EnabledCommand, vars
<1> QED
  BY <1>2, <1>4, <1>5, <1>6, <1>7, <1>8, <1>9, <1>10, <1>11, <1>12, <1>13
     DEF Next, Dispatcher, Processor, EpStep

\* A row is open only while its event is in process, as long as snapshots and recordings are
\* not turned off: whatever toggles the camera, loses the first messages or restarts the
\* program, the end that arrives is recognised and closes the row.
THEOREM OpenRowsAreInProcess ==
  ASSUME MaxRetention = 0
  PROVE  Spec => []OpenRowIsInProcess
<1>1. Init => OpenInv
  BY DEF Init, FirstEp, OpenInv
<1>2. IInv /\ OpenInv /\ [Next]_vars => OpenInv'
  BY OpenNext DEF IInv, Queues
<1>3. OpenInv => OpenRowIsInProcess
  BY DEF OpenInv, OpenFits, OpenRowIsInProcess
<1> QED BY <1>1, <1>2, <1>3, IInvInit, IInvNext, PTL DEF Spec

-----------------------------------------------------------------------------
(* The life of an object in the whole pipeline, as long as the camera is not  *)
(* turned off and the program runs.                                           *)

\* No setting of the camera is ever on its way, and no message is lost.
Quiet ==
  /\ trkConfig = <<>> /\ procConfig = <<>>
  /\ trkEnabled = TRUE /\ enabled = TRUE /\ prevEnabled = TRUE /\ command = "idle"
  /\ ep # "absent" /\ (pc # "frame" => todoEnd = {})

\* The tracker has lost the id, and no frame that is queued or in work has it.
Gone(id) ==
  /\ id \in born /\ id \notin tracked /\ id \notin todoNew /\ id \notin todoUpd
  /\ \A i \in DOMAIN detQueue : id \notin detQueue[i]

Seen(id) == objs[id].state = "live" \/ id \in todoNew

\* Something but the camera state remembers the id, or it waits to be finalized.
Known(id) ==
  id \in files \/ mqtt[id] # "none" \/ db[id].state # "none" \/ objs[id].state = "ended"
Past(id) == Known(id) /\ objs[id].state # "live"

\* The frames that have an id follow each other, up to the tracker's present one; those of an
\* object that was seen begin with the next.
FramesInOrder ==
  /\ tracked \subseteq born /\ \A i \in DOMAIN detQueue : detQueue[i] \subseteq born
  /\ \A id \in Objects :
       /\ \A i, j, k \in DOMAIN detQueue :
            i < j /\ j < k /\ id \in detQueue[i] /\ id \in detQueue[k] => id \in detQueue[j]
       /\ \A i, j \in DOMAIN detQueue :
            i < j /\ id \in detQueue[i] /\ id \in tracked => id \in detQueue[j]
       /\ Seen(id) =>
            /\ id \in born
            /\ \A i, j \in DOMAIN detQueue : i < j /\ id \in detQueue[j] => id \in detQueue[i]
            /\ id \in tracked => \A i \in DOMAIN detQueue : id \in detQueue[i]

\* An object that is removed, or was, is never seen again.
NeverBack == \A id \in Objects : id \in todoEnd \/ Past(id) => Gone(id)

LEMMA QuietNext ==
  ASSUME MaxCommands = 0, MaxCrashes = 0, TypeOK, Quiet, [Next]_vars
  PROVE  Quiet' /\ ~Crash
<1> USE DEF controlVars, trackerVars, procVars, outVars, storeVars
<1>1. ~Crash /\ \A payload \in {"ON", "OFF"} : ~EnabledCommand(payload)
  BY DEF Crash, EnabledCommand, TypeOK
<1> SUFFICES Quiet'
  BY <1>1
<1>2. ~TrackerReadsConfig /\ ~ReadConfig /\ ~PublishEnabled
  BY DEF Quiet, TrackerReadsConfig, ReadConfig, PublishEnabled
<1>3. ASSUME NEW id \in Objects, \/ ForceEnd(id) \/ NewObject(id) \/ UpdateObject(id) \/ RemoveObject(id)
      PROVE  Quiet'
  BY <1>3 DEF Quiet, ForceEnd, NewObject, UpdateObject, RemoveObject
<1>4. CASE TrackerFrame
  BY <1>4 DEF Quiet, TrackerFrame
<1>5. ASSUME NEW snap \in BOOLEAN, NEW rec \in BOOLEAN, RetentionCommand(snap, rec) PROVE Quiet'
  BY <1>5 DEF Quiet, RetentionCommand
<1>6. CASE ConfigDone \/ GetTimeout \/ GetOtherFrame
  BY <1>6 DEF Quiet, ConfigDone, GetTimeout, GetOtherFrame
<1>7. CASE ManageEnabled \/ GetFrame
  BY <1>7 DEF Quiet, ManageEnabled, GetFrame
<1>8. CASE Finish \/ DrainDone
  BY <1>8 DEF Quiet, Finish, DrainDone, FrameProcessed
<1>9. CASE EpSubscribe \/ EpStart
  BY <1>9 DEF Quiet, EpSubscribe, EpStart
<1>10. CASE EpReceive
  <2>1. UNCHANGED <<trkConfig, procConfig, trkEnabled, enabled, prevEnabled, command, ep, pc, todoEnd>>
    BY <1>10 DEF EpReceive
  <2> QED BY <2>1 DEF Quiet
<1>11. CASE UNCHANGED vars
  BY <1>11 DEF Quiet, vars
<1> QED
  BY <1>1, <1>2, <1>3, <1>4, <1>5, <1>6, <1>7, <1>8, <1>9, <1>10, <1>11
     DEF Next, Tracker, Dispatcher, Processor, EpStep

Frames == FramesInOrder /\ NeverBack

\* The tracker goes on: an id that it lost is not handed out again.
LEMMA FramesTracked ==
  ASSUME TypeOK, Frames, TrackerFrame
  PROVE  Frames'
<1> USE DEF controlVars, trackerVars, procVars, outVars, storeVars
<1>1. PICK gone \in SUBSET tracked, fresh \in SUBSET (Objects \ born) :
        /\ tracked' = (tracked \ gone) \cup fresh
        /\ born' = born \cup fresh
        /\ detQueue' = IF Len(detQueue) < DetQueueSize
                       THEN Append(detQueue, tracked') ELSE detQueue
  BY DEF TrackerFrame
<1>2. UNCHANGED <<objs, todoNew, todoUpd, todoEnd, files, mqtt, db>>
  BY DEF TrackerFrame
<1>3. tracked' \in SUBSET Objects
  BY <1>1 DEF TypeOK
<1>4. /\ \A i \in DOMAIN detQueue' :
            \/ i \in DOMAIN detQueue /\ detQueue'[i] = detQueue[i]
            \/ i = Len(detQueue) + 1 /\ detQueue'[i] = tracked'
      /\ \A i \in DOMAIN detQueue : i \in Nat /\ i <= Len(detQueue)
      /\ Len(detQueue) \in Nat
  BY <1>1, <1>3, AppendInSeq DEF TypeOK
<1>5. ASSUME NEW id \in born PROVE id \in tracked' => id \in tracked
  BY <1>1, <1>5
<1>6. tracked' \subseteq born' /\ \A i \in DOMAIN detQueue' : detQueue'[i] \subseteq born'
  BY <1>1, <1>4 DEF Frames, FramesInOrder
<1>7. ASSUME NEW id \in Objects, NEW i \in DOMAIN detQueue', NEW j \in DOMAIN detQueue', i < j,
             id \in detQueue'[i], id \in tracked'
      PROVE  id \in detQueue'[j]
  <2>1. i \in DOMAIN detQueue /\ detQueue'[i] = detQueue[i]
    BY <1>4, <1>7
  <2>2. id \in tracked
    BY <2>1, <1>5, <1>7 DEF Frames, FramesInOrder
  <2> QED BY <2>1, <2>2, <1>4, <1>7 DEF Frames, FramesInOrder
<1>8. ASSUME NEW id \in Objects, NEW i \in DOMAIN detQueue', NEW j \in DOMAIN detQueue',
             NEW k \in DOMAIN detQueue', i < j, j < k, id \in detQueue'[i], id \in detQueue'[k]
      PROVE  id \in detQueue'[j]
  <2>1. /\ i \in DOMAIN detQueue /\ detQueue'[i] = detQueue[i]
        /\ j \in DOMAIN detQueue /\ detQueue'[j] = detQueue[j]
    BY <1>4, <1>8
  <2>2. CASE k \in DOMAIN detQueue /\ detQueue'[k] = detQueue[k]
    BY <2>1, <2>2, <1>8 DEF Frames, FramesInOrder
  <2>3. CASE detQueue'[k] = tracked'
    BY <2>1, <2>3, <1>7, <1>8
  <2> QED BY <2>2, <2>3, <1>4
<1>9. ASSUME NEW id \in Objects, Seen(id)'
      PROVE  /\ id \in born'
             /\ \A i, j \in DOMAIN detQueue' : i < j /\ id \in detQueue'[j] => id \in detQueue'[i]
             /\ id \in tracked' => \A i \in DOMAIN detQueue' : id \in detQueue'[i]
  <2>1. Seen(id) /\ id \in born
    BY <1>2, <1>9 DEF Seen, Frames, FramesInOrder
  <2>2. id \in tracked' => \A i \in DOMAIN detQueue' : id \in detQueue'[i]
    BY <2>1, <1>4, <1>5 DEF Frames, FramesInOrder
  <2>3. ASSUME NEW i \in DOMAIN detQueue', NEW j \in DOMAIN detQueue', i < j, id \in detQueue'[j]
        PROVE  id \in detQueue'[i]
    <3>1. i \in DOMAIN detQueue /\ detQueue'[i] = detQueue[i]
      BY <1>4, <2>3
    <3>2. CASE j \in DOMAIN detQueue /\ detQueue'[j] = detQueue[j]
      BY <3>1, <3>2, <2>1, <2>3 DEF Frames, FramesInOrder
    <3>3. CASE detQueue'[j] = tracked'
      BY <3>3, <2>2, <2>3
    <3> QED BY <3>2, <3>3, <1>4
  <2> QED BY <2>1, <2>2, <2>3, <1>1
<1>10. ASSUME NEW id \in Objects, id \in todoEnd' \/ Past(id)' PROVE Gone(id)'
  <2>1. Gone(id)
    BY <1>2, <1>10 DEF Frames, NeverBack, Past, Known
  <2> QED BY <2>1, <1>1, <1>2, <1>4, <1>5 DEF Gone
<1>11. FramesInOrder'
  BY <1>6, <1>7, <1>8, <1>9 DEF FramesInOrder
<1> QED BY <1>10, <1>11 DEF Frames, NeverBack

\* A frame is taken: what is in the table and not in it was lost for good.
LEMMA FramesTaken ==
  ASSUME TypeOK, Quiet, Frames, GetFrame
  PROVE  Frames'
<1> USE DEF controlVars, trackerVars, procVars, outVars, storeVars
<1> DEFINE current == Head(detQueue)
<1>1. UNCHANGED <<tracked, born, objs, files, mqtt, db>>
  BY DEF GetFrame
<1>2. /\ detQueue' = Tail(detQueue) /\ detQueue # <<>>
      /\ todoNew' = current \ {id \in Objects : InTable(id)}
      /\ todoUpd' = current \cap {id \in Objects : InTable(id)}
      /\ todoEnd' = {id \in Objects : InTable(id)} \ current
  BY DEF GetFrame, Quiet
<1>3. /\ current = detQueue[1] /\ 1 \in DOMAIN detQueue /\ current \subseteq Objects
      /\ \A i \in DOMAIN detQueue' :
           i \in Nat \ {0} /\ i + 1 \in DOMAIN detQueue /\ detQueue'[i] = detQueue[i + 1]
  BY <1>2, TailInSeq DEF TypeOK
<1> HIDE DEF current
<1>4. \A i, j, k \in DOMAIN detQueue', id \in Objects :
        i < j /\ j < k /\ id \in detQueue'[i] /\ id \in detQueue'[k] => id \in detQueue'[j]
  BY <1>3 DEF Frames, FramesInOrder
<1>5. \A i, j \in DOMAIN detQueue', id \in Objects :
        i < j /\ id \in detQueue'[i] /\ id \in tracked' => id \in detQueue'[j]
  BY <1>1, <1>3 DEF Frames, FramesInOrder
<1>6. ASSUME NEW id \in Objects, Seen(id)'
      PROVE  /\ id \in born'
             /\ \A i, j \in DOMAIN detQueue' : i < j /\ id \in detQueue'[j] => id \in detQueue'[i]
             /\ id \in tracked' => \A i \in DOMAIN detQueue' : id \in detQueue'[i]
  <2>1. CASE id \in current
    <3>1. id \in born
      BY <2>1, <1>3 DEF Frames, FramesInOrder
    <3>2. \A i, j \in DOMAIN detQueue' : i < j /\ id \in detQueue'[j] => id \in detQueue'[i]
      BY <2>1, <1>3 DEF Frames, FramesInOrder
    <3>3. id \in tracked' => \A i \in DOMAIN detQueue' : id \in detQueue'[i]
      BY <2>1, <1>1, <1>3 DEF Frames, FramesInOrder
    <3> QED BY <3>1, <3>2, <3>3, <1>1
  <2>2. CASE id \notin current
    <3>1. Seen(id)
      BY <2>2, <1>1, <1>2, <1>6 DEF Seen
    <3>2. \A i, j \in DOMAIN detQueue' : i < j /\ id \in detQueue'[j] => id \in detQueue'[i]
      BY <3>1, <1>3 DEF Frames, FramesInOrder
    <3>3. id \in tracked' => \A i \in DOMAIN detQueue' : id \in detQueue'[i]
      BY <3>1, <1>1, <1>3 DEF Frames, FramesInOrder
    <3> QED BY <3>1, <3>2, <3>3, <1>1 DEF Frames, FramesInOrder
  <2> QED BY <2>1, <2>2
<1>7. ASSUME NEW id \in Objects, id \in todoEnd' \/ Past(id)' PROVE Gone(id)'
  <2>1. CASE Past(id)
    BY <2>1, <1>1, <1>2, <1>3 DEF Frames, NeverBack, Gone
  <2>2. CASE ~Past(id)
    <3>1. id \in todoEnd' /\ objs[id].state = "live" /\ id \notin current
      BY <2>2, <1>1, <1>2, <1>7 DEF Past, Known, InTable, TypeOK, Obj, ObjStates
    <3>2. \A i \in DOMAIN detQueue' : id \notin detQueue'[i]
      BY <3>1, <1>3 DEF Frames, FramesInOrder, Seen
    <3>3. id \in born /\ id \notin tracked
      BY <3>1, <1>3 DEF Frames, FramesInOrder, Seen
    <3> QED BY <3>1, <3>2, <3>3, <1>1, <1>2 DEF Gone
  <2> QED BY <2>1, <2>2
<1>8. FramesInOrder'
  BY <1>1, <1>3, <1>4, <1>5, <1>6 DEF Frames, FramesInOrder
<1> QED BY <1>7, <1>8 DEF Frames, NeverBack

\* Work on a frame is done: nothing is seen anew, and what becomes past was to be removed.
LEMMA FramesKept ==
  ASSUME TypeOK, Frames, UNCHANGED <<tracked, born, detQueue>>,
         todoNew' \subseteq todoNew, todoUpd' \subseteq todoUpd, todoEnd' \subseteq todoEnd,
         \A id \in Objects : Seen(id)' => Seen(id),
         \A id \in Objects : Past(id)' => Past(id) \/ id \in todoEnd
  PROVE  Frames'
<1>1. FramesInOrder'
  BY DEF Frames, FramesInOrder
<1>2. ASSUME NEW id \in Objects, id \in todoEnd' \/ Past(id)' PROVE Gone(id)'
  BY <1>2 DEF Frames, NeverBack, Gone
<1> QED BY <1>1, <1>2 DEF Frames, NeverBack

-----------------------------------------------------------------------------
\* A start of the id is queued before place n.
StartQueued(id, n) ==
  \E i \in DOMAIN evQueue : i < n /\ evQueue[i].id = id /\ evQueue[i].type = "start"

\* The messages of an id: its start first, its end last, and the event processor knows it in
\* between.
MessagesInOrder ==
  /\ \A i \in DOMAIN evQueue :
       /\ evQueue[i].ended <=> evQueue[i].type = "end"
       /\ evQueue[i].type = "start" => evQueue[i].keep = {}
       /\ evQueue[i].type # "start" =>
            inProcess[evQueue[i].id].known \/ StartQueued(evQueue[i].id, i)
  /\ \A i, j \in DOMAIN evQueue :
       i < j /\ evQueue[i].id = evQueue[j].id =>
         evQueue[i].type # "end" /\ evQueue[j].type # "start"

\* Messages are about objects that are in the table and not finalized, of which no row is
\* closed; a live object is or will be known.
OneLife ==
  /\ \A i \in DOMAIN evQueue :
       /\ objs[evQueue[i].id].state # "absent"
       /\ \A k \in DOMAIN finQueue : finQueue[k] # evQueue[i].id
       /\ db[evQueue[i].id].state # "closed"
  /\ \A id \in Objects :
       /\ objs[id].state = "live" => /\ inProcess[id].known \/ StartQueued(id, Len(evQueue) + 1)
                                     /\ db[id].state # "closed"
       /\ inProcess[id].known => ~inProcess[id].ended
       /\ ep = "subscribed" => db[id].state = "none"

\* MQTT has been told of what is confirmed, and of the end of what has ended.
Told ==
  /\ \A id \in Objects :
       /\ objs[id].eligible # {} => objs[id].confirmed
       /\ objs[id].state = "live" =>
            mqtt[id] # "ended" /\ (objs[id].confirmed => mqtt[id] = "live")
  /\ \A i \in DOMAIN evQueue :
       evQueue[i].keep # {} => /\ mqtt[evQueue[i].id] # "none"
                               /\ evQueue[i].type = "end" => mqtt[evQueue[i].id] = "ended"

\* The end that keeps a snapshot is queued.
SnapshotQueued(id) ==
  \E i \in DOMAIN evQueue :
    evQueue[i].id = id /\ evQueue[i].type = "end" /\ "snapshot" \in evQueue[i].keep

FilesFit ==
  \A id \in files :
    /\ objs[id].state # "live"
    /\ SnapshotQueued(id) \/ (db[id].state = "closed" /\ "snapshot" \in db[id].keep)

Life == MessagesInOrder /\ OneLife /\ Told /\ FilesFit

\* Nothing that the four speak of changes.
LEMMA LifeKept ==
  ASSUME Life, UNCHANGED <<evQueue, finQueue, ep, inProcess, db, objs, mqtt, files>>
  PROVE  Life'
<1>1. \A id, n : StartQueued(id, n)' <=> StartQueued(id, n)
  BY DEF StartQueued
<1>2. \A id : SnapshotQueued(id)' <=> SnapshotQueued(id)
  BY DEF SnapshotQueued
<1>3. MessagesInOrder'
  BY <1>1 DEF Life, MessagesInOrder
<1>4. OneLife'
  BY <1>1 DEF Life, OneLife
<1>5. Told' /\ FilesFit'
  BY <1>2 DEF Life, Told, FilesFit
<1> QED BY <1>3, <1>4, <1>5 DEF Life

\* A message that fits is published.
LEMMA MessagesPublish ==
  ASSUME TypeOK, MessagesInOrder, NEW m \in Message, Publish(m), ep # "absent", inProcess' = inProcess,
         m.ended <=> m.type = "end",
         m.type = "start" => m.keep = {},
         m.type # "start" => inProcess[m.id].known \/ StartQueued(m.id, Len(evQueue) + 1),
         \A i \in DOMAIN evQueue : evQueue[i].id = m.id => evQueue[i].type # "end" /\ m.type # "start"
  PROVE  /\ MessagesInOrder'
         /\ \A id \in Objects : StartQueued(id, Len(evQueue) + 1) => StartQueued(id, Len(evQueue) + 1)'
         /\ m.type = "start" => StartQueued(m.id, Len(evQueue) + 1)'
<1>1. /\ \A i \in DOMAIN evQueue' :
            \/ i \in DOMAIN evQueue /\ evQueue'[i] = evQueue[i]
            \/ i = Len(evQueue) + 1 /\ evQueue'[i] = m
      /\ \A i \in DOMAIN evQueue : i \in DOMAIN evQueue' /\ evQueue'[i] = evQueue[i]
      /\ \A i \in DOMAIN evQueue : i \in Nat /\ i <= Len(evQueue)
      /\ Len(evQueue) \in Nat
      /\ Len(evQueue) + 1 \in DOMAIN evQueue' /\ evQueue'[Len(evQueue) + 1] = m
  BY Published
<1>2. Len(evQueue') = Len(evQueue) + 1
  BY AppendInSeq DEF Publish, TypeOK
<1>3. \A id, n : StartQueued(id, n) => StartQueued(id, n)'
  BY <1>1 DEF StartQueued
<1>4. \A id : StartQueued(id, Len(evQueue) + 1) => StartQueued(id, Len(evQueue) + 1)'
  BY <1>1, <1>2 DEF StartQueued
<1>5. m.type = "start" => StartQueued(m.id, Len(evQueue) + 1)'
  BY <1>1, <1>2 DEF StartQueued
<1>6. ASSUME NEW i \in DOMAIN evQueue'
      PROVE  /\ evQueue'[i].ended <=> evQueue'[i].type = "end"
             /\ evQueue'[i].type = "start" => evQueue'[i].keep = {}
             /\ evQueue'[i].type # "start" =>
                  inProcess'[evQueue'[i].id].known \/ StartQueued(evQueue[i].id, i)'
  <2>1. CASE i \in DOMAIN evQueue /\ evQueue'[i] = evQueue[i]
    BY <2>1, <1>3 DEF MessagesInOrder
  <2>2. CASE i = Len(evQueue) + 1 /\ evQueue'[i] = m
    BY <2>2, <1>3
  <2> QED BY <2>1, <2>2, <1>1
<1>7. ASSUME NEW i \in DOMAIN evQueue', NEW j \in DOMAIN evQueue', i < j, evQueue'[i].id = evQueue'[j].id
      PROVE  evQueue'[i].type # "end" /\ evQueue'[j].type # "start"
  <2>1. i \in DOMAIN evQueue /\ evQueue'[i] = evQueue[i]
    BY <1>1, <1>7
  <2> QED BY <2>1, <1>1, <1>7 DEF MessagesInOrder
<1> QED BY <1>4, <1>5, <1>6, <1>7 DEF MessagesInOrder

\* An object is seen for the first time: nothing remembers it.
LEMMA LifeNew ==
  ASSUME TypeOK, WorkFits, Queues, Quiet, Frames, Life, NEW id \in Objects, NewObject(id)
  PROVE  Life'
<1>1. PICK m \in Message : m = [id |-> id, type |-> "start", ended |-> FALSE, keep |-> {}]
  BY DEF Message, EventTypes
<1>2. /\ Publish(m) /\ ep # "absent" /\ UNCHANGED <<finQueue, ep, inProcess, db, mqtt, files>>
      /\ objs' = [objs EXCEPT ![id] = NewObj] /\ id \in todoNew /\ objs[id].state = "absent"
  BY <1>1 DEF NewObject, outVars, storeVars, Quiet, WorkFits
<1>3. id \notin files /\ mqtt[id] = "none" /\ db[id].state = "none"
  BY <1>2 DEF Frames, NeverBack, Gone, Past, Known
<1>4. \A o \in Objects : o # id => objs'[o] = objs[o]
  BY <1>2 DEF TypeOK
<1>5. objs'[id] = NewObj
  BY <1>2 DEF TypeOK
<1>6. \A i \in DOMAIN evQueue : evQueue[i].id # id /\ evQueue[i].id \in Objects
  BY <1>2, QueuedIds DEF Life, OneLife
<1>7. /\ MessagesInOrder'
      /\ \A o \in Objects : StartQueued(o, Len(evQueue) + 1) => StartQueued(o, Len(evQueue) + 1)'
      /\ StartQueued(id, Len(evQueue) + 1)'
  BY <1>1, <1>2, <1>6, MessagesPublish DEF Life
<1>8. /\ \A i \in DOMAIN evQueue' :
            \/ i \in DOMAIN evQueue /\ evQueue'[i] = evQueue[i]
            \/ i = Len(evQueue) + 1 /\ evQueue'[i] = m
      /\ \A i \in DOMAIN evQueue : i \in DOMAIN evQueue' /\ evQueue'[i] = evQueue[i]
  BY <1>2, Published
<1>9. \A k \in DOMAIN finQueue : finQueue[k] # id
  BY <1>2 DEF Queues, FinishedIsTracked
<1>10. ASSUME NEW i \in DOMAIN evQueue'
       PROVE  /\ objs'[evQueue'[i].id].state # "absent"
              /\ \A k \in DOMAIN finQueue' : finQueue'[k] # evQueue'[i].id
              /\ db'[evQueue'[i].id].state # "closed"
  <2>1. CASE i \in DOMAIN evQueue /\ evQueue'[i] = evQueue[i]
    BY <2>1, <1>2, <1>4, <1>6 DEF Life, OneLife
  <2>2. CASE evQueue'[i] = m
    BY <2>2, <1>1, <1>2, <1>3, <1>5, <1>9 DEF NewObj
  <2> QED BY <2>1, <2>2, <1>8
<1>11. ASSUME NEW o \in Objects
       PROVE  /\ objs'[o].state = "live" =>
                   /\ inProcess'[o].known \/ StartQueued(o, Len(evQueue) + 1)'
                   /\ db'[o].state # "closed"
              /\ inProcess'[o].known => ~inProcess'[o].ended
              /\ ep' = "subscribed" => db'[o].state = "none"
  BY <1>2, <1>3, <1>4, <1>7 DEF Life, OneLife
<1>12. Told'
  BY <1>1, <1>2, <1>3, <1>4, <1>5, <1>6, <1>8 DEF Life, Told, NewObj
<1>13. \A o : SnapshotQueued(o) => SnapshotQueued(o)'
  BY <1>8 DEF SnapshotQueued
<1>14. FilesFit'
  BY <1>2, <1>3, <1>4, <1>13 DEF Life, FilesFit, TypeOK
<1> QED BY <1>7, <1>10, <1>11, <1>12, <1>14 DEF Life, OneLife

\* An object of the frame is updated: it is live, since an ended one is past.
LEMMA LifeUpdate ==
  ASSUME TypeOK, WorkFits, Queues, Quiet, Frames, Life, NEW id \in Objects, UpdateObject(id)
  PROVE  /\ Life' /\ objs[id].state = "live" /\ objs'[id].state = "live"
         /\ \A o \in Objects : o # id => objs'[o] = objs[o]
         /\ mqtt' = mqtt \/ mqtt' = [mqtt EXCEPT ![id] = "live"]
<1>1. PICK confirmed \in BOOLEAN, eligible \in SUBSET Kinds, publish \in BOOLEAN :
        LET o == [objs[id] EXCEPT !.confirmed = confirmed, !.eligible = eligible]
        IN /\ objs[id].confirmed => confirmed
           /\ eligible # {} => confirmed
           /\ publish => confirmed
           /\ confirmed /\ ~objs[id].confirmed => publish
           /\ objs' = [objs EXCEPT ![id] = o]
           /\ mqtt' = IF publish THEN [mqtt EXCEPT ![id] = "live"] ELSE mqtt
           /\ IF publish
              THEN Publish([id |-> id, type |-> "update",
                            ended |-> o.state = "ended", keep |-> Keep(o)])
              ELSE evQueue' = evQueue
  BY DEF UpdateObject
<1> DEFINE o == [objs[id] EXCEPT !.confirmed = confirmed, !.eligible = eligible]
<1>2. /\ UNCHANGED <<finQueue, ep, inProcess, db, files>>
      /\ id \in todoUpd /\ objs[id].state # "absent"
  BY DEF UpdateObject, storeVars, WorkFits
<1>3. objs[id].state = "live"
  BY <1>2 DEF Frames, NeverBack, Gone, Past, Known, TypeOK, Obj, ObjStates
<1>4. /\ o \in Obj /\ o.state = "live" /\ o.eligible = eligible /\ o.confirmed = confirmed /\ objs'[id] = o
      /\ \A x \in Objects : x # id => objs'[x] = objs[x]
  BY <1>1, <1>3 DEF TypeOK, Obj
<1>5. /\ mqtt'[id] # "ended" /\ (confirmed => mqtt'[id] = "live")
      /\ \A x \in Objects : x # id => mqtt'[x] = mqtt[x]
      /\ mqtt[id] # "none" => mqtt'[id] # "none"
  BY <1>1, <1>3 DEF Life, Told, TypeOK
<1>6. \A i \in DOMAIN evQueue : evQueue[i].id \in Objects
  BY QueuedIds
<1>7. \A x \in Objects : /\ objs'[x].eligible # {} => objs'[x].confirmed
                         /\ objs'[x].state = "live" =>
                              mqtt'[x] # "ended" /\ (objs'[x].confirmed => mqtt'[x] = "live")
  BY <1>1, <1>4, <1>5 DEF Life, Told
<1>8. \A i \in DOMAIN evQueue : evQueue[i].type = "end" => evQueue[i].id # id
  BY <1>3 DEF Queues, EndQueuedOnce
<1>9. CASE publish
  <2>1. [id |-> id, type |-> "update", ended |-> o.state = "ended", keep |-> Keep(o)] \in Message
    BY <1>4, KeepType DEF Message, EventTypes
  <2>2. PICK m \in Message :
          m = [id |-> id, type |-> "update", ended |-> o.state = "ended", keep |-> Keep(o)]
    BY <2>1
  <2>3. Publish(m) /\ ep # "absent" /\ confirmed = TRUE
    BY <1>1, <1>9, <2>2 DEF Quiet
  <2> HIDE DEF o
  <2>4. m.id = id /\ m.type = "update" /\ ~m.ended
    BY <2>2, <1>4
  <2>5. inProcess[id].known \/ StartQueued(id, Len(evQueue) + 1)
    BY <1>3 DEF Life, OneLife
  <2>6. /\ MessagesInOrder'
        /\ \A x \in Objects : StartQueued(x, Len(evQueue) + 1) => StartQueued(x, Len(evQueue) + 1)'
    BY <1>2, <1>8, <2>3, <2>4, <2>5, MessagesPublish DEF Life
  <2>7. /\ \A i \in DOMAIN evQueue' :
              \/ i \in DOMAIN evQueue /\ evQueue'[i] = evQueue[i]
              \/ i = Len(evQueue) + 1 /\ evQueue'[i] = m
        /\ \A i \in DOMAIN evQueue : i \in DOMAIN evQueue' /\ evQueue'[i] = evQueue[i]
    BY <2>3, Published
  <2>8. \A k \in DOMAIN finQueue : finQueue[k] # id
    BY <1>3 DEF Queues, FinishedIsTracked
  <2>9. ASSUME NEW i \in DOMAIN evQueue'
        PROVE  /\ objs'[evQueue'[i].id].state # "absent"
               /\ \A k \in DOMAIN finQueue' : finQueue'[k] # evQueue'[i].id
               /\ db'[evQueue'[i].id].state # "closed"
               /\ evQueue'[i].keep # {} =>
                    /\ mqtt'[evQueue'[i].id] # "none"
                    /\ evQueue'[i].type = "end" => mqtt'[evQueue'[i].id] = "ended"
    <3>1. CASE i \in DOMAIN evQueue /\ evQueue'[i] = evQueue[i]
      <4>1. /\ objs'[evQueue[i].id].state # "absent"
            /\ mqtt[evQueue[i].id] # "none" => mqtt'[evQueue[i].id] # "none"
            /\ evQueue[i].type = "end" => mqtt'[evQueue[i].id] = mqtt[evQueue[i].id]
        BY <3>1, <1>4, <1>5, <1>6, <1>8 DEF Life, OneLife
      <4> QED BY <3>1, <4>1, <1>2 DEF Life, OneLife, Told
    <3>2. CASE evQueue'[i] = m
      BY <3>2, <1>2, <1>3, <1>4, <1>5, <2>3, <2>4, <2>8 DEF Life, OneLife
    <3> QED BY <3>1, <3>2, <2>7
  <2>10. ASSUME NEW x \in Objects
         PROVE  /\ objs'[x].state = "live" =>
                     /\ inProcess'[x].known \/ StartQueued(x, Len(evQueue) + 1)'
                     /\ db'[x].state # "closed"
                /\ inProcess'[x].known => ~inProcess'[x].ended
                /\ ep' = "subscribed" => db'[x].state = "none"
    BY <1>2, <1>3, <1>4, <2>6 DEF Life, OneLife
  <2>11. \A x : SnapshotQueued(x) => SnapshotQueued(x)'
    BY <2>7 DEF SnapshotQueued
  <2>12. FilesFit'
    BY <1>2, <1>3, <1>4, <2>11 DEF Life, FilesFit, TypeOK
  <2>13. OneLife' /\ Told'
    BY <1>7, <2>9, <2>10 DEF OneLife, Told
  <2> QED BY <1>1, <1>3, <1>4, <2>6, <2>12, <2>13 DEF Life
<1>10. CASE ~publish
  <2>1. evQueue' = evQueue /\ mqtt' = mqtt
    BY <1>1, <1>10
  <2>2. \A x, n : StartQueued(x, n)' <=> StartQueued(x, n)
    BY <2>1 DEF StartQueued
  <2>3. \A x : SnapshotQueued(x)' <=> SnapshotQueued(x)
    BY <2>1 DEF SnapshotQueued
  <2>4. MessagesInOrder'
    BY <1>2, <2>1, <2>2 DEF Life, MessagesInOrder
  <2>5. OneLife'
    <3>1. \A x \in Objects : objs'[x].state = objs[x].state
      BY <1>3, <1>4
    <3> QED BY <1>2, <1>6, <2>1, <2>2, <3>1 DEF Life, OneLife
  <2>6. Told'
    BY <1>7, <2>1 DEF Life, Told
  <2>7. FilesFit'
    BY <1>2, <1>3, <1>4, <2>3 DEF Life, FilesFit, TypeOK
  <2> QED BY <1>3, <1>4, <2>1, <2>4, <2>5, <2>6, <2>7 DEF Life
<1> QED BY <1>9, <1>10

-----------------------------------------------------------------------------
\* A live object is ended; its end is the last message about it.
LEMMA LifeEnd ==
  ASSUME TypeOK, Queues, Quiet, Life, NEW id \in Objects, objs[id].state = "live", EndCallback(id),
         UNCHANGED <<finQueue, ep, inProcess, db>>
  PROVE  Life'
<1> DEFINE keep == Keep(objs[id])
<1>1. PICK m \in Message : m = [id |-> id, type |-> "end", ended |-> TRUE, keep |-> keep]
  BY KeepType DEF TypeOK, Message, EventTypes
<1>2. /\ Publish(m) /\ ep # "absent"
      /\ files' \subseteq files \cup {id}
      /\ id \in files' => id \in files \/ "snapshot" \in keep
      /\ mqtt' = IF objs[id].confirmed THEN [mqtt EXCEPT ![id] = "ended"] ELSE mqtt
      /\ objs' = [objs EXCEPT ![id].state = "ended"]
  BY <1>1 DEF EndCallback, Quiet
<1>3. /\ objs'[id].state = "ended" /\ objs'[id].eligible = objs[id].eligible
      /\ objs'[id].confirmed = objs[id].confirmed
      /\ \A o \in Objects : o # id => objs'[o] = objs[o] /\ mqtt'[o] = mqtt[o]
      /\ mqtt[id] # "none" => mqtt'[id] # "none"
      /\ objs[id].confirmed => mqtt'[id] = "ended"
  BY <1>2 DEF TypeOK, Obj
<1>4. keep # {} => mqtt'[id] = "ended"
  BY <1>3 DEF Keep, Life, Told
<1> HIDE DEF keep
<1>5. /\ \A i \in DOMAIN evQueue : evQueue[i].id \in Objects
      /\ \A i \in DOMAIN evQueue : evQueue[i].type = "end" => evQueue[i].id # id
      /\ \A k \in DOMAIN finQueue : finQueue[k] # id
  BY QueuedIds DEF Queues, EndQueuedOnce, FinishedIsTracked
<1>6. /\ inProcess[id].known \/ StartQueued(id, Len(evQueue) + 1)
      /\ db[id].state # "closed" /\ id \notin files
  BY DEF Life, OneLife, FilesFit
<1>7. /\ MessagesInOrder'
      /\ \A o \in Objects : StartQueued(o, Len(evQueue) + 1) => StartQueued(o, Len(evQueue) + 1)'
  BY <1>1, <1>2, <1>5, <1>6, MessagesPublish DEF Life
<1>8. /\ \A i \in DOMAIN evQueue' :
            \/ i \in DOMAIN evQueue /\ evQueue'[i] = evQueue[i]
            \/ i = Len(evQueue) + 1 /\ evQueue'[i] = m
      /\ \A i \in DOMAIN evQueue : i \in DOMAIN evQueue' /\ evQueue'[i] = evQueue[i]
      /\ Len(evQueue) + 1 \in DOMAIN evQueue' /\ evQueue'[Len(evQueue) + 1] = m
  BY <1>2, Published
<1>9. ASSUME NEW i \in DOMAIN evQueue'
      PROVE  /\ objs'[evQueue'[i].id].state # "absent"
             /\ \A k \in DOMAIN finQueue' : finQueue'[k] # evQueue'[i].id
             /\ db'[evQueue'[i].id].state # "closed"
             /\ evQueue'[i].keep # {} =>
                  /\ mqtt'[evQueue'[i].id] # "none"
                  /\ evQueue'[i].type = "end" => mqtt'[evQueue'[i].id] = "ended"
  <2>1. CASE i \in DOMAIN evQueue /\ evQueue'[i] = evQueue[i]
    <3>1. /\ objs'[evQueue[i].id].state # "absent"
          /\ mqtt[evQueue[i].id] # "none" => mqtt'[evQueue[i].id] # "none"
          /\ evQueue[i].type = "end" => mqtt'[evQueue[i].id] = mqtt[evQueue[i].id]
      BY <2>1, <1>3, <1>5 DEF Life, OneLife
    <3> QED BY <2>1, <3>1 DEF Life, OneLife, Told
  <2>2. CASE evQueue'[i] = m
    BY <2>2, <1>1, <1>3, <1>4, <1>5, <1>6
  <2> QED BY <1>8, <2>1, <2>2
<1>10. ASSUME NEW o \in Objects
       PROVE  /\ objs'[o].state = "live" =>
                   /\ inProcess'[o].known \/ StartQueued(o, Len(evQueue) + 1)'
                   /\ db'[o].state # "closed"
              /\ inProcess'[o].known => ~inProcess'[o].ended
              /\ ep' = "subscribed" => db'[o].state = "none"
              /\ objs'[o].eligible # {} => objs'[o].confirmed
              /\ objs'[o].state = "live" =>
                   mqtt'[o] # "ended" /\ (objs'[o].confirmed => mqtt'[o] = "live")
  BY <1>3, <1>7 DEF Life, OneLife, Told
<1>11. \A o : SnapshotQueued(o) => SnapshotQueued(o)'
  BY <1>8 DEF SnapshotQueued
<1>12. "snapshot" \in keep => SnapshotQueued(id)'
  BY <1>1, <1>8 DEF SnapshotQueued
<1>13. FilesFit'
  BY <1>2, <1>3, <1>6, <1>11, <1>12 DEF Life, FilesFit, TypeOK
<1> QED BY <1>7, <1>9, <1>10, <1>13 DEF Life, OneLife, Told

\* A finalized object leaves the table.
LEMMA LifeFinish ==
  ASSUME TypeOK, Queues, Life, Finish
  PROVE  /\ Life'
         /\ \A id \in Objects : objs'[id] = objs[id] \/ (objs[id].state = "ended" /\ objs'[id] = NoObj)
<1> DEFINE gone == Head(finQueue)
<1>0. /\ finQueue' = Tail(finQueue) /\ finQueue # <<>> /\ objs' = [objs EXCEPT ![gone] = NoObj]
      /\ UNCHANGED <<evQueue, ep, inProcess, db, mqtt, files>>
  BY DEF Finish, storeVars, outVars
<1>1. /\ gone = finQueue[1] /\ 1 \in DOMAIN finQueue /\ gone \in Objects
      /\ \A k \in DOMAIN finQueue' : k + 1 \in DOMAIN finQueue /\ finQueue'[k] = finQueue[k + 1]
  BY <1>0, TailInSeq DEF TypeOK
<1>2. /\ \A id \in Objects : id # gone => objs'[id] = objs[id]
      /\ objs[gone].state = "ended" /\ objs'[gone] = NoObj
  BY <1>0, <1>1 DEF TypeOK, Queues, FinishedIsTracked
<1>3. \A i \in DOMAIN evQueue : evQueue[i].id \in Objects /\ evQueue[i].id # gone
  BY <1>1, QueuedIds DEF Life, OneLife
<1> HIDE DEF gone
<1>4. \A id, n : StartQueued(id, n)' <=> StartQueued(id, n)
  BY <1>0 DEF StartQueued
<1>5. \A id : SnapshotQueued(id)' <=> SnapshotQueued(id)
  BY <1>0 DEF SnapshotQueued
<1>6. MessagesInOrder'
  BY <1>0, <1>4 DEF Life, MessagesInOrder
<1>7. OneLife'
  <2>1. ASSUME NEW i \in DOMAIN evQueue'
        PROVE  /\ objs'[evQueue'[i].id].state # "absent"
               /\ \A k \in DOMAIN finQueue' : finQueue'[k] # evQueue'[i].id
               /\ db'[evQueue'[i].id].state # "closed"
    BY <2>1, <1>0, <1>1, <1>2, <1>3 DEF Life, OneLife
  <2>2. ASSUME NEW id \in Objects
        PROVE  /\ objs'[id].state = "live" =>
                    /\ inProcess'[id].known \/ StartQueued(id, Len(evQueue) + 1)'
                    /\ db'[id].state # "closed"
               /\ inProcess'[id].known => ~inProcess'[id].ended
               /\ ep' = "subscribed" => db'[id].state = "none"
    BY <1>0, <1>2, <1>4 DEF Life, OneLife, NoObj
  <2> QED BY <2>1, <2>2 DEF OneLife
<1>8. Told'
  BY <1>0, <1>2, <1>3 DEF Life, Told, NoObj
<1>9. FilesFit'
  BY <1>0, <1>2, <1>5 DEF Life, FilesFit, NoObj, TypeOK
<1> QED BY <1>2, <1>6, <1>7, <1>8, <1>9 DEF Life

\* What the event processor does with the first message: a start is stored, an update is stored
\* or saved, an end closes the row if anything is kept.
LEMMA ReceiveCases ==
  ASSUME TypeOK, Queues, Life, EpReceive
  PROVE  LET m == Head(evQueue) IN
         /\ m \in Message /\ m.id \in Objects
         /\ \A id \in Objects : id # m.id => db'[id] = db[id] /\ inProcess'[id] = inProcess[id]
         /\ \/ /\ m.type = "start" /\ db' = db /\ finQueue' = finQueue
               /\ inProcess'[m.id].known /\ ~inProcess'[m.id].ended
            \/ /\ m.type = "update" /\ finQueue' = finQueue
               /\ inProcess'[m.id].known /\ ~inProcess'[m.id].ended
               /\ \/ db' = db
                  \/ m.keep # {} /\ db'[m.id].state = "open"
            \/ /\ m.type = "end" /\ finQueue' = Append(finQueue, m.id)
               /\ inProcess'[m.id] = NotStored
               /\ \/ m.keep = {} /\ db' = db
                  \/ m.keep # {} /\ db'[m.id].state = "closed" /\ m.keep \subseteq db'[m.id].keep
<1> DEFINE m == Head(evQueue)
<1>1. /\ evQueue # <<>> /\ evQueue' = Tail(evQueue)
  BY DEF EpReceive
<1>2. m = evQueue[1] /\ 1 \in DOMAIN evQueue /\ m \in Message /\ \A i \in DOMAIN evQueue : i \in Nat \ {0}
  BY <1>1, Received
<1>3. m.id \in Objects /\ m.ended \in BOOLEAN /\ m.type \in {"start", "update", "end"}
  BY <1>2 DEF Message, EventTypes
<1>4. /\ m.ended <=> m.type = "end"
      /\ m.type # "start" => inProcess[m.id].known
      /\ inProcess[m.id].known => ~inProcess[m.id].ended
  BY <1>2, <1>3 DEF Life, MessagesInOrder, OneLife, StartQueued
<1>5. CASE m.type = "start"
  <2>1. /\ inProcess' = [inProcess EXCEPT ![m.id] =
                            [known |-> TRUE, ended |-> m.ended, keep |-> m.keep]]
        /\ db' = db /\ finQueue' = finQueue
    BY <1>5, Zenon DEF EpReceive
  <2> HIDE DEF m
  <2>2. /\ inProcess'[m.id].known /\ ~inProcess'[m.id].ended
        /\ \A id \in Objects : id # m.id => inProcess'[id] = inProcess[id]
    BY <2>1, <1>3, <1>4, <1>5 DEF TypeOK
  <2> QED BY <2>1, <2>2, <1>2, <1>3, <1>5 DEF m
<1>6. CASE m.type # "start"
  <2>1. PICK differs \in BOOLEAN, stateDiffers \in BOOLEAN :
           HandleObjectDetection(m, differs, stateDiffers)
    BY <1>4, <1>6 DEF EpReceive
  <2> DEFINE prev == inProcess[m.id]
             save == ShouldUpdateDb(prev, m, differs)
             keep == IF save THEN m.keep \cup prev.keep ELSE m.keep
  <2>2. /\ db' = IF save THEN [db EXCEPT ![m.id] =
                                 [state |-> IF m.ended THEN "closed" ELSE "open", keep |-> keep]]
                 ELSE db
        /\ inProcess' = IF m.type = "end" THEN [inProcess EXCEPT ![m.id] = NotStored]
                        ELSE IF save \/ stateDiffers
                        THEN [inProcess EXCEPT ![m.id] =
                                [known |-> TRUE, ended |-> m.ended, keep |-> keep]]
                        ELSE inProcess
        /\ finQueue' = IF m.type = "end" THEN Append(finQueue, m.id) ELSE finQueue
    BY <2>1 DEF HandleObjectDetection
  <2>3. /\ save => m.keep # {} /\ m.keep \subseteq keep
        /\ m.keep # {} /\ m.type = "end" => save
    BY <1>3, <1>4 DEF ShouldUpdateDb
  <2> HIDE DEF save, keep, m
  <2>4. /\ \A id \in Objects : id # m.id => db'[id] = db[id] /\ inProcess'[id] = inProcess[id]
        /\ save => db'[m.id] = [state |-> IF m.ended THEN "closed" ELSE "open", keep |-> keep]
        /\ ~save => db' = db
    BY <2>2, <1>3 DEF TypeOK
  <2>5. CASE m.type = "end"
    <3>1. inProcess'[m.id] = NotStored
      BY <2>2, <2>5, <1>3 DEF TypeOK
    <3> QED BY <3>1, <2>2, <2>3, <2>4, <2>5, <1>2, <1>3, <1>4 DEF m
  <2>6. CASE m.type = "update"
    <3>1. inProcess'[m.id].known /\ ~inProcess'[m.id].ended
      BY <2>2, <2>6, <1>3, <1>4 DEF TypeOK
    <3> QED BY <3>1, <2>2, <2>3, <2>4, <2>6, <1>2, <1>3, <1>4 DEF m
  <2> QED BY <2>5, <2>6, <1>3, <1>6
<1> QED BY <1>5, <1>6

LEMMA LifeReceive ==
  ASSUME TypeOK, Queues, Life, EpReceive
  PROVE  Life'
<1> DEFINE m == Head(evQueue)
<1>0. /\ evQueue # <<>> /\ evQueue' = Tail(evQueue) /\ ep = "running"
      /\ UNCHANGED <<objs, mqtt, files, ep>>
  BY DEF EpReceive, outVars
<1>1. /\ m = evQueue[1] /\ 1 \in DOMAIN evQueue
      /\ \A i \in DOMAIN evQueue' :
           i \in Nat \ {0} /\ i + 1 \in DOMAIN evQueue /\ evQueue'[i] = evQueue[i + 1]
      /\ \A i \in DOMAIN evQueue : i # 1 => i - 1 \in DOMAIN evQueue' /\ evQueue'[i - 1] = evQueue[i]
      /\ \A i \in DOMAIN evQueue : i \in Nat \ {0}
  BY <1>0, Received
<1>2. /\ m \in Message /\ m.id \in Objects
      /\ \A id \in Objects : id # m.id => db'[id] = db[id] /\ inProcess'[id] = inProcess[id]
      /\ \/ /\ m.type = "start" /\ db' = db /\ finQueue' = finQueue
            /\ inProcess'[m.id].known /\ ~inProcess'[m.id].ended
         \/ /\ m.type = "update" /\ finQueue' = finQueue
            /\ inProcess'[m.id].known /\ ~inProcess'[m.id].ended
            /\ \/ db' = db
               \/ m.keep # {} /\ db'[m.id].state = "open"
         \/ /\ m.type = "end" /\ finQueue' = Append(finQueue, m.id)
            /\ inProcess'[m.id] = NotStored
            /\ \/ m.keep = {} /\ db' = db
               \/ m.keep # {} /\ db'[m.id].state = "closed" /\ m.keep \subseteq db'[m.id].keep
  BY ReceiveCases
<1> HIDE DEF m
<1>3. \A i \in DOMAIN evQueue' :
        evQueue'[i].id \in Objects /\ (evQueue'[i].id = m.id => m.type # "end")
  BY <1>1, QueuedIds DEF Life, MessagesInOrder
<1>4. m.type = "end" => objs[m.id].state = "ended"
  BY <1>1 DEF Queues, EndQueuedOnce
<1>5. Len(evQueue') + 1 = Len(evQueue)
  BY <1>0 DEF TypeOK
<1>6. \A id \in Objects, n \in Nat :
        StartQueued(id, n + 1) => StartQueued(id, n)' \/ (id = m.id /\ m.type = "start")
  <2> SUFFICES ASSUME NEW id \in Objects, NEW n \in Nat, StartQueued(id, n + 1),
                      ~(id = m.id /\ m.type = "start")
               PROVE  StartQueued(id, n)'
    OBVIOUS
  <2>1. PICK i \in DOMAIN evQueue : i < n + 1 /\ evQueue[i].id = id /\ evQueue[i].type = "start"
    BY DEF StartQueued
  <2>2. i # 1 /\ i \in Nat
    BY <2>1, <1>1
  <2>3. i - 1 \in DOMAIN evQueue' /\ evQueue'[i - 1] = evQueue[i] /\ i - 1 < n
    BY <2>1, <2>2, <1>1
  <2> QED BY <2>1, <2>3 DEF StartQueued
<1>7. \A id \in Objects : inProcess[id].known => inProcess'[id].known \/ (id = m.id /\ m.type = "end")
  BY <1>2
<1>8. MessagesInOrder'
  <2>1. ASSUME NEW i \in DOMAIN evQueue'
        PROVE  /\ evQueue'[i].ended <=> evQueue'[i].type = "end"
               /\ evQueue'[i].type = "start" => evQueue'[i].keep = {}
               /\ evQueue'[i].type # "start" =>
                    inProcess'[evQueue'[i].id].known \/ StartQueued(evQueue[i].id, i)'
    <3>1. evQueue'[i].type # "start" =>
            inProcess[evQueue'[i].id].known \/ StartQueued(evQueue'[i].id, i + 1)
      BY <1>1 DEF Life, MessagesInOrder
    <3>2. evQueue'[i].type # "start" =>
            inProcess'[evQueue'[i].id].known \/ StartQueued(evQueue[i].id, i)'
      <4>1. StartQueued(evQueue'[i].id, i + 1) =>
              StartQueued(evQueue[i].id, i)' \/ (evQueue'[i].id = m.id /\ m.type = "start")
        BY <1>1, <1>3, <1>6 DEF StartQueued
      <4> QED BY <3>1, <4>1, <1>2, <1>3, <1>7
    <3>3. /\ evQueue'[i].ended <=> evQueue'[i].type = "end"
          /\ evQueue'[i].type = "start" => evQueue'[i].keep = {}
      BY <1>1 DEF Life, MessagesInOrder
    <3> QED BY <3>2, <3>3
  <2>2. ASSUME NEW i \in DOMAIN evQueue', NEW j \in DOMAIN evQueue', i < j,
               evQueue'[i].id = evQueue'[j].id
        PROVE  evQueue'[i].type # "end" /\ evQueue'[j].type # "start"
    BY <1>1, <2>2 DEF Life, MessagesInOrder
  <2> QED BY <2>1, <2>2 DEF MessagesInOrder
<1>9. \A k \in DOMAIN finQueue' :
        \/ finQueue'[k] = m.id /\ m.type = "end"
        \/ k \in DOMAIN finQueue /\ finQueue'[k] = finQueue[k]
  <2>1. CASE finQueue' = finQueue
    BY <2>1
  <2>2. CASE finQueue' = Append(finQueue, m.id) /\ m.type = "end"
    <3>1. /\ DOMAIN finQueue' = DOMAIN finQueue \cup {Len(finQueue) + 1}
          /\ \A k \in DOMAIN finQueue : finQueue'[k] = finQueue[k]
          /\ finQueue'[Len(finQueue) + 1] = m.id
      BY <1>2, <2>2, AppendInSeq DEF TypeOK
    <3> QED BY <2>2, <3>1
  <2> QED BY <2>1, <2>2, <1>2
<1>10. \A id \in Objects : \/ db'[id] = db[id]
                           \/ id = m.id /\ db'[id].state = "open" /\ m.type = "update" /\ m.keep # {}
                           \/ id = m.id /\ db'[id].state = "closed" /\ m.type = "end"
  BY <1>2
<1>11. ASSUME NEW i \in DOMAIN evQueue'
       PROVE  /\ objs'[evQueue'[i].id].state # "absent"
              /\ \A k \in DOMAIN finQueue' : finQueue'[k] # evQueue'[i].id
              /\ db'[evQueue'[i].id].state # "closed"
  <2>1. /\ objs[evQueue'[i].id].state # "absent"
        /\ \A k \in DOMAIN finQueue : finQueue[k] # evQueue'[i].id
        /\ db[evQueue'[i].id].state # "closed"
    BY <1>1 DEF Life, OneLife
  <2> QED BY <2>1, <1>0, <1>3, <1>9, <1>10
<1>12. ASSUME NEW id \in Objects
       PROVE  /\ objs'[id].state = "live" =>
                   /\ inProcess'[id].known \/ StartQueued(id, Len(evQueue) + 1)'
                   /\ db'[id].state # "closed"
              /\ inProcess'[id].known => ~inProcess'[id].ended
              /\ ep' = "subscribed" => db'[id].state = "none"
  <2>1. inProcess'[id].known => ~inProcess'[id].ended
    BY <1>2 DEF Life, OneLife, NotStored
  <2>2. ASSUME objs'[id].state = "live" PROVE db'[id].state # "closed"
    BY <2>2, <1>0, <1>4, <1>10 DEF Life, OneLife
  <2>3. ASSUME objs'[id].state = "live"
        PROVE  inProcess'[id].known \/ StartQueued(id, Len(evQueue) + 1)'
    <3>1. inProcess[id].known \/ StartQueued(id, Len(evQueue) + 1)
      BY <2>3, <1>0 DEF Life, OneLife
    <3>2. CASE inProcess[id].known
      BY <3>2, <2>3, <1>0, <1>4, <1>7
    <3>3. CASE StartQueued(id, Len(evQueue) + 1)
      <4>1. Len(evQueue) \in Nat
        BY DEF TypeOK
      <4>2. StartQueued(id, Len(evQueue) + 1)' \/ (id = m.id /\ m.type = "start")
        <5>1. PICK n \in Nat : n = Len(evQueue)
          BY <4>1
        <5>2. StartQueued(id, n)' \/ (id = m.id /\ m.type = "start")
          BY <5>1, <3>3, <1>6
        <5>3. StartQueued(id, n)' => StartQueued(id, Len(evQueue) + 1)'
          BY <5>1, <1>5, <1>1 DEF StartQueued
        <5> QED BY <5>2, <5>3
      <4> QED BY <4>2, <1>2
    <3> QED BY <3>1, <3>2, <3>3
  <2> QED BY <2>1, <2>2, <2>3, <1>0
<1>13. Told'
  <2>1. \A i \in DOMAIN evQueue' :
           evQueue'[i].keep # {} => /\ mqtt[evQueue'[i].id] # "none"
                                    /\ evQueue'[i].type = "end" => mqtt[evQueue'[i].id] = "ended"
    BY <1>1 DEF Life, Told
  <2> QED BY <2>1, <1>0 DEF Life, Told
<1>14. FilesFit'
  <2> SUFFICES ASSUME NEW id \in files', NEW o \in Objects, o = id
               PROVE  /\ objs'[id].state # "live"
                      /\ SnapshotQueued(id)' \/ (db'[id].state = "closed" /\ "snapshot" \in db'[id].keep)
    BY <1>0 DEF FilesFit, TypeOK
  <2>1. CASE db[id].state = "closed" /\ "snapshot" \in db[id].keep
    <3>1. id # m.id
      BY <2>1, <1>1 DEF Life, OneLife
    <3> QED BY <2>1, <3>1, <1>0, <1>2 DEF Life, FilesFit
  <2>2. CASE SnapshotQueued(id)
    <3>1. PICK i \in DOMAIN evQueue :
             evQueue[i].id = id /\ evQueue[i].type = "end" /\ "snapshot" \in evQueue[i].keep
      BY <2>2 DEF SnapshotQueued
    <3>2. CASE i = 1
      BY <3>1, <3>2, <1>0, <1>1, <1>2 DEF Life, FilesFit
    <3>3. CASE i # 1
      <4>1. SnapshotQueued(id)'
        BY <3>1, <3>3, <1>1 DEF SnapshotQueued
      <4> QED BY <4>1, <1>0 DEF Life, FilesFit
    <3> QED BY <3>2, <3>3
  <2> QED BY <2>1, <2>2, <1>0 DEF Life, FilesFit
<1> QED BY <1>8, <1>11, <1>12, <1>13, <1>14 DEF Life, OneLife

LEMMA FramesNext ==
  ASSUME TypeOK, WorkFits, Queues, Quiet, Frames, Life, [Next]_vars, ~Crash
  PROVE  Frames'
<1> USE DEF controlVars, trackerVars, procVars, outVars, storeVars
<1>0. ~TrackerReadsConfig
  BY DEF Quiet, TrackerReadsConfig
<1>1. CASE UNCHANGED <<tracked, born, detQueue, todoNew, todoUpd, todoEnd, objs, files, mqtt, db>>
  BY <1>1, FramesKept DEF Seen, Past, Known
<1>2. ASSUME NEW id \in Objects, NewObject(id) PROVE Frames'
  <2>1. /\ UNCHANGED <<tracked, born, detQueue, todoUpd, todoEnd, files, mqtt, db>>
        /\ todoNew' = todoNew \ {id} /\ id \in todoNew /\ objs[id].state = "absent"
        /\ objs' = [objs EXCEPT ![id] = NewObj]
    BY <1>2 DEF NewObject, WorkFits
  <2>2. /\ objs'[id].state = "live"
        /\ \A o \in Objects : o # id => objs'[o] = objs[o]
    BY <2>1 DEF TypeOK, NewObj
  <2> QED BY <2>1, <2>2, FramesKept DEF Seen, Past, Known
<1>3. ASSUME NEW id \in Objects, UpdateObject(id) PROVE Frames'
  <2>1. /\ objs[id].state = "live" /\ objs'[id].state = "live"
        /\ \A o \in Objects : o # id => objs'[o] = objs[o]
        /\ mqtt' = mqtt \/ mqtt' = [mqtt EXCEPT ![id] = "live"]
    BY <1>3, LifeUpdate
  <2>2. /\ UNCHANGED <<tracked, born, detQueue, todoNew, todoEnd, files, db>>
        /\ todoUpd' \subseteq todoUpd
    BY <1>3 DEF UpdateObject
  <2>3. \A o \in Objects : o # id => mqtt'[o] = mqtt[o]
    BY <2>1 DEF TypeOK
  <2> QED BY <2>1, <2>2, <2>3, FramesKept DEF Seen, Past, Known
<1>4. ASSUME NEW id \in Objects, RemoveObject(id) PROVE Frames'
  <2>1. /\ UNCHANGED <<tracked, born, detQueue, todoNew, todoUpd, db>>
        /\ todoEnd' \subseteq todoEnd /\ id \in todoEnd
    BY <1>4 DEF RemoveObject
  <2>2. CASE objs[id].state = "live"
    <3>1. /\ files' \subseteq files \cup {id}
          /\ objs'[id].state = "ended"
          /\ \A o \in Objects : o # id => objs'[o] = objs[o] /\ mqtt'[o] = mqtt[o]
      BY <1>4, <2>2 DEF RemoveObject, EndCallback, TypeOK, Obj
    <3> QED BY <2>1, <3>1, FramesKept DEF Seen, Past, Known
  <2>3. CASE objs[id].state # "live"
    <3>1. UNCHANGED <<objs, mqtt, files>>
      BY <1>4, <2>3 DEF RemoveObject
    <3> QED BY <2>1, <3>1, FramesKept DEF Seen, Past, Known
  <2> QED BY <2>2, <2>3
<1>5. ASSUME NEW id \in Objects, ForceEnd(id) PROVE FALSE
  BY <1>5 DEF ForceEnd, Quiet
<1>6. CASE Finish
  <2>1. \A id \in Objects : objs'[id] = objs[id] \/ (objs[id].state = "ended" /\ objs'[id] = NoObj)
    BY <1>6, LifeFinish
  <2>2. UNCHANGED <<tracked, born, detQueue, todoNew, todoUpd, todoEnd, files, mqtt, db>>
    BY <1>6 DEF Finish
  <2> QED BY <2>1, <2>2, FramesKept DEF Seen, Past, Known, NoObj
<1>7. CASE EpReceive
  <2>1. UNCHANGED <<tracked, born, detQueue, todoNew, todoUpd, todoEnd, objs, files, mqtt>>
    BY <1>7 DEF EpReceive
  <2>2. \A id \in Objects : db'[id] = db[id] \/ id = Head(evQueue).id
    BY <1>7, ReceiveCases
  <2>3. objs[Head(evQueue).id].state # "absent"
    BY <1>7, Received DEF EpReceive, Life, OneLife
  <2>4. \A id \in Objects : Past(id)' => Past(id)
    BY <2>1, <2>2, <2>3 DEF Past, Known, TypeOK, Obj, ObjStates
  <2> QED BY <2>1, <2>4, FramesKept DEF Seen
<1>8. CASE EpStart
  <2>1. UNCHANGED <<tracked, born, detQueue, todoNew, todoUpd, todoEnd, objs, files, mqtt>>
    BY <1>8 DEF EpStart
  <2>2. db' = [id \in Objects |->
                 IF db[id].state = "open" THEN [db[id] EXCEPT !.state = "closed"] ELSE db[id]]
    BY <1>8 DEF EpStart
  <2>3. \A id \in Objects : db[id].state = "none" => db'[id].state = "none"
    BY <2>2
  <2> QED BY <2>1, <2>3, FramesKept DEF Seen, Past, Known
<1>9. CASE ReadConfig \/ ConfigDone \/ ManageEnabled \/ GetTimeout \/ GetOtherFrame \/ DrainDone
  <2>1. CASE ManageEnabled
    <3>1. UNCHANGED <<tracked, born, detQueue, todoNew, todoUpd, objs, files, mqtt, db>> /\ todoEnd' = {}
      BY <2>1 DEF ManageEnabled, Quiet
    <3> QED BY <3>1, FramesKept DEF Seen, Past, Known
  <2> QED BY <1>1, <1>9, <2>1 DEF ReadConfig, ConfigDone, GetTimeout, GetOtherFrame, DrainDone
<1>10. CASE Dispatcher \/ EpSubscribe \/ UNCHANGED vars
  BY <1>1, <1>10 DEF Dispatcher, EnabledCommand, PublishEnabled, RetentionCommand, EpSubscribe, vars
<1> QED
  BY <1>0, <1>2, <1>3, <1>4, <1>5, <1>6, <1>7, <1>8, <1>9, <1>10, FramesTracked, FramesTaken
     DEF Next, Tracker, Processor, EpStep

LEMMA LifeNext ==
  ASSUME TypeOK, WorkFits, Queues, Quiet, Frames, Life, [Next]_vars, ~Crash
  PROVE  Life'
<1> USE DEF controlVars, trackerVars, procVars, outVars, storeVars
<1>1. CASE UNCHANGED <<evQueue, finQueue, ep, inProcess, db, objs, mqtt, files>>
  BY <1>1, LifeKept
<1>2. ASSUME NEW id \in Objects, RemoveObject(id) PROVE Life'
  <2>1. CASE objs[id].state = "live"
    BY <1>2, <2>1, LifeEnd DEF RemoveObject
  <2>2. CASE objs[id].state # "live"
    BY <1>1, <1>2, <2>2 DEF RemoveObject
  <2> QED BY <2>1, <2>2
<1>3. ASSUME NEW id \in Objects, ForceEnd(id) PROVE FALSE
  BY <1>3 DEF ForceEnd, Quiet
<1>4. CASE EpStart
  <2>1. /\ ep = "subscribed" /\ ep' = "running" /\ UNCHANGED <<evQueue, finQueue, inProcess, objs, mqtt, files>>
        /\ db' = [id \in Objects |->
                    IF db[id].state = "open" THEN [db[id] EXCEPT !.state = "closed"] ELSE db[id]]
    BY <1>4 DEF EpStart
  <2>2. \A id \in Objects : db[id].state = "none"
    BY <2>1 DEF Life, OneLife
  <2>3. db' = db
    BY <2>1, <2>2 DEF TypeOK
  <2>4. \A id, n : StartQueued(id, n)' <=> StartQueued(id, n)
    BY <2>1 DEF StartQueued
  <2>5. \A id : SnapshotQueued(id)' <=> SnapshotQueued(id)
    BY <2>1 DEF SnapshotQueued
  <2>6. MessagesInOrder'
    BY <2>1, <2>4 DEF Life, MessagesInOrder
  <2>7. OneLife' /\ Told' /\ FilesFit'
    BY <2>1, <2>3, <2>4, <2>5 DEF Life, OneLife, Told, FilesFit
  <2> QED BY <2>6, <2>7 DEF Life
<1>5. CASE EpSubscribe
  BY <1>5 DEF EpSubscribe, Quiet
<1>6. CASE \/ ReadConfig \/ ConfigDone \/ ManageEnabled \/ GetTimeout \/ GetFrame \/ GetOtherFrame
           \/ DrainDone
  BY <1>1, <1>6 DEF ReadConfig, ConfigDone, ManageEnabled, GetTimeout, GetFrame, GetOtherFrame, DrainDone
<1>7. CASE Tracker \/ Dispatcher \/ UNCHANGED vars
  BY <1>1, <1>7 DEF Tracker, TrackerReadsConfig, TrackerFrame, Dispatcher, EnabledCommand,
     PublishEnabled, RetentionCommand, vars
<1> QED
  BY <1>2, <1>3, <1>4, <1>5, <1>6, <1>7, LifeNew, LifeUpdate, LifeFinish, LifeReceive
     DEF Next, Processor, EpStep

\* Together they are inductive.
LifeInv == IInv /\ Quiet /\ Frames /\ Life

LEMMA LifeInvInit ==
  ASSUME LateSubscriber = FALSE, Init
  PROVE  LifeInv
<1>1. IInv
  BY IInvInit
<1>2. Quiet
  BY DEF Init, FirstEp, Quiet
<1>3. Frames
  BY DEF Init, Frames, FramesInOrder, NeverBack, Seen, Past, Known, NoObj, NoRow
<1>4. Life
  BY DEF Init, Life, MessagesInOrder, OneLife, Told, FilesFit, NoObj, NoRow, NotStored
<1> QED BY <1>1, <1>2, <1>3, <1>4 DEF LifeInv

LEMMA LifeInvNext ==
  ASSUME MaxCommands = 0, MaxCrashes = 0, LifeInv, [Next]_vars
  PROVE  LifeInv'
<1>1. IInv'
  BY IInvNext DEF LifeInv
<1>2. TypeOK /\ WorkFits /\ Queues /\ Quiet /\ Frames /\ Life
  BY DEF LifeInv, IInv, Queues
<1>3. Quiet' /\ ~Crash
  BY <1>2, QuietNext
<1> QED BY <1>1, <1>2, <1>3, FramesNext, LifeNext DEF LifeInv

\* A snapshot on the disk has a row that says so, or the end that will: as long as the camera
\* is not turned off and the program runs, whatever becomes of the settings.
THEOREM SnapshotFilesHaveRows ==
  ASSUME MaxCommands = 0, MaxCrashes = 0, LateSubscriber = FALSE
  PROVE  Spec => []SnapshotFileHasRow
<1>1. Init => LifeInv
  BY LifeInvInit
<1>2. LifeInv /\ [Next]_vars => LifeInv'
  BY LifeInvNext
<1>3. LifeInv => SnapshotFileHasRow
  BY DEF LifeInv, Life, FilesFit, SnapshotQueued, SnapshotFileHasRow, EndQueued
<1> QED BY <1>1, <1>2, <1>3, PTL DEF Spec

-----------------------------------------------------------------------------
(* The pipeline implements the life of an event *)

LEMMA LifecycleStep ==
  ASSUME LifeInv, [Next]_vars, ~Crash
  PROVE  [Lifecycle!Next]_(Lifecycle!vars)
<1> DEFINE row == [id \in Objects |-> db[id].state]
<1>0. TypeOK /\ WorkFits /\ Queues /\ Quiet /\ Frames /\ Life
  BY DEF LifeInv, IInv, Queues
<1>1. CASE UNCHANGED <<mqtt, db>>
  BY <1>1 DEF Lifecycle!vars
<1>2. ASSUME NEW id \in Objects, UpdateObject(id) PROVE [Lifecycle!Next]_(Lifecycle!vars)
  <2>1. /\ objs[id].state = "live"
        /\ mqtt' = mqtt \/ mqtt' = [mqtt EXCEPT ![id] = "live"]
    BY <1>0, <1>2, LifeUpdate
  <2>2. row' = row
    BY <1>2 DEF UpdateObject, storeVars
  <2>3. mqtt[id] = "none" \/ mqtt[id] = "live"
    BY <1>0, <2>1 DEF Life, Told, TypeOK
  <2>4. CASE mqtt[id] = "none" /\ mqtt' # mqtt
    BY <2>1, <2>2, <2>4 DEF Lifecycle!Next, Lifecycle!Announce
  <2>5. CASE mqtt[id] = "live" \/ mqtt' = mqtt
    <3>1. mqtt' = mqtt
      BY <2>1, <2>5, <1>0 DEF TypeOK
    <3> QED BY <2>2, <3>1 DEF Lifecycle!vars
  <2> QED BY <2>3, <2>4, <2>5
<1>3. ASSUME NEW id \in Objects, RemoveObject(id) PROVE [Lifecycle!Next]_(Lifecycle!vars)
  <2>1. row' = row
    BY <1>3 DEF RemoveObject, storeVars
  <2>2. CASE objs[id].state = "live" /\ objs[id].confirmed
    <3>1. mqtt' = [mqtt EXCEPT ![id] = "ended"]
      BY <1>3, <2>2 DEF RemoveObject, EndCallback
    <3>2. mqtt[id] = "live"
      BY <1>0, <2>2 DEF Life, Told
    <3> QED BY <2>1, <3>1, <3>2 DEF Lifecycle!Next, Lifecycle!End
  <2>3. CASE ~(objs[id].state = "live" /\ objs[id].confirmed)
    <3>1. mqtt' = mqtt
      BY <1>3, <2>3 DEF RemoveObject, EndCallback, outVars
    <3> QED BY <2>1, <3>1 DEF Lifecycle!vars
  <2> QED BY <2>2, <2>3
<1>4. CASE EpReceive
  <2> DEFINE m == Head(evQueue)
  <2>1. mqtt' = mqtt
    BY <1>4 DEF EpReceive, outVars
  <2>2. /\ m = evQueue[1] /\ 1 \in DOMAIN evQueue
    BY <1>0, <1>4, Received DEF EpReceive
  <2>3. /\ m.id \in Objects
        /\ \A id \in Objects : id # m.id => db'[id] = db[id]
        /\ \/ db' = db
           \/ m.type = "update" /\ m.keep # {} /\ db'[m.id].state = "open"
           \/ m.type = "end" /\ m.keep # {} /\ db'[m.id].state = "closed"
    BY <1>0, <1>4, ReceiveCases
  <2>4. /\ db[m.id].state # "closed"
        /\ m.keep # {} => /\ mqtt[m.id] # "none"
                          /\ m.type = "end" => mqtt[m.id] = "ended"
    BY <1>0, <2>2 DEF Life, OneLife, Told
  <2> HIDE DEF m
  <2>5. \A s : db'[m.id].state = s => row' = [row EXCEPT ![m.id] = s]
    BY <2>3
  <2>6. CASE db' = db
    BY <2>1, <2>6 DEF Lifecycle!vars
  <2>7. CASE m.type = "update" /\ m.keep # {} /\ db'[m.id].state = "open"
    <3>1. CASE db[m.id].state = "none"
      <4>1. PICK id \in Objects : id = m.id
        BY <2>3
      <4>2. Lifecycle!Save(id)
        BY <2>1, <2>3, <2>4, <2>5, <2>7, <3>1, <4>1 DEF Lifecycle!Save
      <4> QED BY <4>2 DEF Lifecycle!Next
    <3>2. CASE db[m.id].state = "open"
      <4>1. \A id \in Objects : db'[id].state = db[id].state
        BY <2>3, <2>7, <3>2
      <4>2. row' = row
        BY <4>1
      <4> QED BY <2>1, <4>2 DEF Lifecycle!vars
    <3> QED BY <1>0, <2>3, <2>4, <3>1, <3>2 DEF TypeOK, Row
  <2>8. CASE m.type = "end" /\ m.keep # {} /\ db'[m.id].state = "closed"
    <3>1. PICK id \in Objects : id = m.id
      BY <2>3
    <3>2. Lifecycle!Close(id)
      BY <2>1, <2>3, <2>4, <2>5, <2>8, <3>1 DEF Lifecycle!Close
    <3> QED BY <3>2 DEF Lifecycle!Next
  <2> QED BY <2>3, <2>6, <2>7, <2>8
<1>5. CASE EpStart
  <2>1. /\ mqtt' = mqtt /\ ep = "subscribed"
        /\ db' = [id \in Objects |->
                    IF db[id].state = "open" THEN [db[id] EXCEPT !.state = "closed"] ELSE db[id]]
    BY <1>5 DEF EpStart, outVars
  <2>2. \A id \in Objects : db[id].state = "none" /\ db'[id].state = "none"
    BY <1>0, <2>1 DEF Life, OneLife
  <2>3. row' = row
    BY <2>2
  <2> QED BY <2>1, <2>3 DEF Lifecycle!vars
<1>6. ASSUME NEW id \in Objects, ForceEnd(id) PROVE FALSE
  BY <1>0, <1>6 DEF ForceEnd, Quiet
<1>7. CASE \/ ReadConfig \/ ConfigDone \/ ManageEnabled \/ GetTimeout \/ GetFrame \/ GetOtherFrame
           \/ DrainDone \/ Finish \/ EpSubscribe \/ \E id \in Objects : NewObject(id)
  BY <1>1, <1>7 DEF ReadConfig, ConfigDone, ManageEnabled, GetTimeout, GetFrame, GetOtherFrame, DrainDone,
     Finish, EpSubscribe, NewObject, outVars, storeVars
<1>8. CASE Tracker \/ Dispatcher \/ UNCHANGED vars
  BY <1>1, <1>8 DEF Tracker, TrackerReadsConfig, TrackerFrame, Dispatcher, EnabledCommand,
     PublishEnabled, RetentionCommand, vars, outVars, storeVars
<1> QED
  BY <1>2, <1>3, <1>4, <1>5, <1>6, <1>7, <1>8 DEF Next, Processor, EpStep

\* As long as the camera is not turned off and the program runs, the threads and queues together
\* do what EventLifecycle says: an event is announced once, ended once and never heard of again;
\* its row appears after the announcement, is closed by the end only, and stays closed.
THEOREM PipelineImplementsLifecycle ==
  ASSUME MaxCommands = 0, MaxCrashes = 0, LateSubscriber = FALSE
  PROVE  Spec => ImplementsLifecycle
<1>1. Init => LifeInv
  BY LifeInvInit
<1>2. LifeInv /\ [Next]_vars => LifeInv'
  BY LifeInvNext
<1>3. Init => Lifecycle!Init
  BY DEF Init, Lifecycle!Init, NoRow
<1>4. LifeInv /\ [Next]_vars => [Lifecycle!Next]_(Lifecycle!vars)
  <2> SUFFICES ASSUME LifeInv, [Next]_vars PROVE [Lifecycle!Next]_(Lifecycle!vars)
    OBVIOUS
  <2>1. ~Crash
    BY QuietNext DEF LifeInv, IInv
  <2> QED BY <2>1, LifecycleStep
<1> QED BY <1>1, <1>2, <1>3, <1>4, PTL DEF Spec, ImplementsLifecycle, Lifecycle!Spec
=============================================================================
