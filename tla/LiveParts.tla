------------------------------- MODULE LiveParts -------------------------------
(***************************************************************************)
(* The parts behind one live camera of the web interface: the player that  *)
(* receives a stream (MsePlayer), the choice of the player that is shown   *)
(* (LivePlayer) and what the websocket tells about the camera              *)
(* (CameraActivity).  Each part already takes what the others tell it as   *)
(* choices of its environment -- an error of the player, activity or its   *)
(* absence, a stream that is enabled or not -- so a behaviour moves one    *)
(* part: part names it and never changes.                                  *)
(***************************************************************************)
EXTENDS MsePlayer, LivePlayer, CameraActivity

VARIABLE part
livePartVars == <<part, mseVars, livePlayerVars, activityVars>>

Parts == {"mse", "player", "activity"}

\* What a part that does not move starts as is of no importance.
Starts(p, S) == IF part = p THEN S ELSE {CHOOSE x \in S : TRUE}

LivePartsInit ==
  /\ part \in Parts
  /\ view \in Starts("player", {"dashboard", "camera"})
  /\ restreamed \in Starts("player", BOOLEAN) /\ activity \in Starts("player", BOOLEAN)
  /\ cameraOn \in Starts("player", BOOLEAN)
  /\ MseInit /\ LivePlayerInit /\ ActivityInit

Mse(A) == part = "mse" /\ A /\ UNCHANGED <<part, livePlayerVars, activityVars>>
Shown(A) == part = "player" /\ A /\ UNCHANGED <<part, mseVars, activityVars>>
Told(A) == part = "activity" /\ A /\ UNCHANGED <<part, mseVars, livePlayerVars>>

LivePartsNext == Mse(MseNext) \/ Shown(LivePlayerNext) \/ Told(ActivityNext)

\* What MseFairness, LivePlayerFairness and ActivityFairness say, of the part that moves:
\* timers expire, the browser answers and the server answers while the link is open;
\* nothing is said of the user, of errors or of the link's own fate.
LivePartsFairness ==
  /\ WF_livePartVars(Mse(SourceOpen)) /\ WF_livePartVars(Mse(AnswerTimeout))
  /\ WF_livePartVars(Mse(BufferTimeout)) /\ WF_livePartVars(Mse(UpdateEnd))
  /\ WF_livePartVars(Mse(Reconnect))
  /\ WF_livePartVars(Shown(InactiveTimeout))
  /\ WF_livePartVars(Told(OnWsOpen)) /\ WF_livePartVars(Told(AnswerConnect))
  /\ WF_livePartVars(Told(OnWsMessage)) /\ WF_livePartVars(Told(Render))

LivePartsSpec == LivePartsInit /\ [][LivePartsNext]_livePartVars /\ LivePartsFairness
================================================================================
