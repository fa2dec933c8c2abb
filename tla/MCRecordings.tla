----------------------------- MODULE MCRecordings -----------------------------
(* Recordings on small instances. *)
EXTENDS Recordings

PerSeverity(a, d) == [v \in Severities |-> IF v = "alert" THEN a ELSE d]

\* Only what reviews need, with differing captures, modes and days.
ReviewsOnly ==
  [days |-> 0, mode |-> "all", kinds |-> Severities,
   reviewMode |-> PerSeverity("all", "active"),
   pre |-> PerSeverity(2, 1), post |-> PerSeverity(0, 2), reviewDays |-> PerSeverity(6, 3)]

\* Active segments are recorded continuously for a while.
Continuous ==
  [days |-> 4, mode |-> "active", kinds |-> {"alert"},
   reviewMode |-> PerSeverity("all", "all"),
   pre |-> PerSeverity(2, 2), post |-> PerSeverity(1, 1), reviewDays |-> PerSeverity(5, 5)]

RecordConfigs == {ReviewsOnly, Continuous}

SavedEvents == {[start |-> 1, end |-> 1]}
===============================================================================
