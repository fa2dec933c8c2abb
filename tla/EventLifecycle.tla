--------------------------- MODULE EventLifecycle ---------------------------
(***************************************************************************)
(* What the event pipeline promises about each event, whatever its threads *)
(* and queues do: it is announced once, ended once and never heard of      *)
(* again; its database row appears only after the announcement, is closed  *)
(* only by its end (or by the program being restarted), and stays closed.  *)
(* TrackedEvents implements it as long as the camera is not turned off.    *)
(***************************************************************************)
CONSTANT Events

VARIABLES
  phase,  \* what the subscribers of frigate/events were told: none, live, ended
  row     \* the row in the Event table: none, open, closed

vars == <<phase, row>>

Phases == {"none", "live", "ended"}
RowStates == {"none", "open", "closed"}

TypeOK == phase \in [Events -> Phases] /\ row \in [Events -> RowStates]

Init == phase = [e \in Events |-> "none"] /\ row = [e \in Events |-> "none"]

Announce(e) ==
  /\ phase[e] = "none"
  /\ phase' = [phase EXCEPT ![e] = "live"]
  /\ UNCHANGED row

End(e) ==
  /\ phase[e] = "live"
  /\ phase' = [phase EXCEPT ![e] = "ended"]
  /\ UNCHANGED row

\* A row of a running event; the writer may lag behind the end.
Save(e) ==
  /\ phase[e] # "none" /\ row[e] = "none"
  /\ row' = [row EXCEPT ![e] = "open"]
  /\ UNCHANGED phase

Close(e) ==
  /\ phase[e] = "ended" /\ row[e] # "closed"
  /\ row' = [row EXCEPT ![e] = "closed"]
  /\ UNCHANGED phase

\* A restarted program gives up the events it finds open.
GiveUp ==
  /\ row' = [e \in Events |-> IF row[e] = "open" THEN "closed" ELSE row[e]]
  /\ UNCHANGED phase

Next ==
  \/ \E e \in Events : Announce(e) \/ End(e) \/ Save(e) \/ Close(e)
  \/ GiveUp

Spec == Init /\ [][Next]_vars
=============================================================================
