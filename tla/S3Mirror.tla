------------------------------ MODULE S3Mirror ------------------------------
(***************************************************************************)
(* S3SnapshotMirror, a thread that looks every few seconds for ended       *)
(* events with a snapshot and hands their files to S3Api, whose pool of    *)
(* workers uploads them and whose retry queue holds those S3 could not be  *)
(* reached for.  It remembers what it handed over (uploaded_events) and    *)
(* what it could not (failed_events), in memory and in two files.          *)
(*                                                                         *)
(* _ensure_db_connection imports Event in its except clause, so that Event *)
(* is a local variable of the function and its first use always raises     *)
(* UnboundLocalError.  EventShadowed says whether it does: TRUE is the     *)
(* code as it stands, FALSE the same code with that one import removed.    *)
(***************************************************************************)
EXTENDS Integers, FiniteSets

CONSTANTS
  Events,            \* ids
  EventShadowed,     \* see above
  BatchSize,         \* S3_BATCH_SIZE
  MaxFailedRetries,  \* S3_MAX_FAILED_RETRIES
  MaxOutages,        \* bound: changes of S3's reachability
  MaxDbErrors,       \* bound: failures of the database
  MaxRestarts        \* bound: stops and crashes of the program

ASSUME MirrorAssumption ==
  /\ EventShadowed \in BOOLEAN
  /\ BatchSize \in Nat \ {0} /\ MaxFailedRetries \in Nat \ {0}
  /\ MaxOutages \in Nat /\ MaxDbErrors \in Nat /\ MaxRestarts \in Nat
  /\ IsFiniteSet(Events)

VARIABLES
  ended,      \* events that have an end_time
  rows,       \* those whose row, with has_snapshot, can be read
  file,       \* the snapshot file of each event
  reachable,  \* whether S3 answers
  pc,         \* where the mirror's thread is
  todo,       \* the events its current loop has left to look at
  asOf,       \* those that had ended at current_time of the check
  old,        \* those whose end_time is not after last_check_time
  uploaded,   \* uploaded_events
  failed,     \* failed_events (0: not in it)
  savedUploaded, savedFailed,  \* the two state files
  healthy,    \* _is_healthy of S3Api
  jobs,       \* of each event, the number of uploads in each place
  wiped,      \* events a cleanup removed from uploaded_events
  crashed,    \* the program was killed at least once
  outages, dbErrors, restarts

Places == {"pool", "retry", "bucket", "refused", "dropped"}

envVars  == <<ended, rows, file, reachable, outages>>
saved    == <<savedUploaded, savedFailed>>
checkVars == <<todo, asOf, old>>
runVars  == <<wiped, crashed, restarts>>
vars == <<ended, rows, file, reachable, pc, todo, asOf, old, uploaded, failed, savedUploaded,
          savedFailed, healthy, jobs, wiped, crashed, outages, dbErrors, restarts>>

None == [id \in Events |-> 0]

Init ==
  /\ ended = {} /\ rows = {} /\ file = [id \in Events |-> "none"]
  /\ reachable = TRUE
  /\ pc = "start" /\ todo = {} /\ asOf = {} /\ old = {}
  /\ uploaded = {} /\ failed = None
  /\ savedUploaded = {} /\ savedFailed = None
  /\ healthy = TRUE
  /\ jobs = [id \in Events |-> [p \in Places |-> 0]]
  /\ wiped = {} /\ crashed = FALSE
  /\ outages = 0 /\ dbErrors = 0 /\ restarts = 0

-----------------------------------------------------------------------------
(* The rest of the program, and S3                                          *)

\* An object's end_time is the time of its last frame; its row gets it later.
EndEvent(id) ==
  /\ id \notin ended
  /\ ended' = ended \cup {id}
  /\ UNCHANGED <<rows, file, reachable, outages, pc, checkVars, uploaded, failed, saved,
                 healthy, jobs, runVars, dbErrors>>

WriteRow(id, snapshot) ==
  /\ id \in ended \ rows /\ file[id] = "none"
  /\ rows' = rows \cup {id}
  /\ file' = [file EXCEPT ![id] = snapshot]
  /\ UNCHANGED <<ended, reachable, outages, pc, checkVars, uploaded, failed, saved, healthy,
                 jobs, runVars, dbErrors>>

\* The event cleanup deletes the file, then clears has_snapshot or deletes the row.
Expire(id) ==
  /\ id \in rows
  /\ rows' = rows \ {id}
  /\ file' = [file EXCEPT ![id] = "missing"]
  /\ UNCHANGED <<ended, reachable, outages, pc, checkVars, uploaded, failed, saved, healthy,
                 jobs, runVars, dbErrors>>

Outage ==
  /\ outages < MaxOutages
  /\ outages' = outages + 1
  /\ reachable' = ~reachable
  /\ UNCHANGED <<ended, rows, file, pc, checkVars, uploaded, failed, saved, healthy, jobs,
                 runVars, dbErrors>>

-----------------------------------------------------------------------------
(* S3Api                                                                    *)

Add(id, place, count) == [jobs[id] EXCEPT ![place] = @ + count]
Move(id, from, to) == [jobs[id] EXCEPT ![from] = @ - 1, ![to] = @ + 1]
Empty(from, to) ==
  [id \in Events |-> [jobs[id] EXCEPT ![to] = @ + jobs[id][from], ![from] = 0]]

\* Mutant: the health check leaves the retry queue alone.
IsActive_NoRetry(due) ==
  IF due \/ ~healthy
  THEN [healthy |-> reachable, jobs |-> jobs]
  ELSE [healthy |-> TRUE, jobs |-> jobs]

\* is_active: the state after the health check, which is due five minutes after
\* the last that succeeded and hands the retry queue to the pool if it succeeds.
IsActive(due) ==
  IF due \/ ~healthy
  THEN [healthy |-> reachable, jobs |-> IF reachable THEN Empty("retry", "pool") ELSE jobs]
  ELSE [healthy |-> TRUE, jobs |-> jobs]

\* _upload_with_retry, in a worker: five attempts while S3 can not be reached,
\* and no more after any other error or without the file.
Upload(id) ==
  /\ jobs[id]["pool"] > 0
  /\ \/ /\ reachable /\ file[id] # "missing"
        /\ jobs' = [jobs EXCEPT ![id] = Move(id, "pool", "bucket")]
     \/ jobs' = [jobs EXCEPT ![id] = Move(id, "pool", "refused")]
     \/ /\ ~reachable /\ file[id] # "missing"
        /\ jobs' = [jobs EXCEPT ![id] = Move(id, "pool", "retry")]
  /\ UNCHANGED <<envVars, pc, checkVars, uploaded, failed, saved, healthy, runVars, dbErrors>>

-----------------------------------------------------------------------------
(* _process_snapshot                                                        *)

\* Mutant: the upload is queued but not recorded.
Submit_Forgotten(id, api) ==
  /\ healthy' = api.healthy
  /\ IF api.healthy
     THEN /\ jobs' = [api.jobs EXCEPT ![id]["pool"] = @ + 1]
          /\ failed' = [failed EXCEPT ![id] = 0]
          /\ uploaded' = uploaded
     ELSE /\ failed' = [failed EXCEPT ![id] = @ + 1]
          /\ UNCHANGED <<uploaded, jobs>>

\* upload_snapshot, asynchronous, and what its answer changes.
Submit(id, api) ==
  /\ healthy' = api.healthy
  /\ IF api.healthy
     THEN /\ jobs' = [api.jobs EXCEPT ![id]["pool"] = @ + 1]
          /\ failed' = [failed EXCEPT ![id] = 0]
          /\ uploaded' = uploaded \cup {id}
     ELSE /\ failed' = [failed EXCEPT ![id] = @ + 1]
          /\ UNCHANGED <<uploaded, jobs>>

Skipped == UNCHANGED <<uploaded, failed, jobs, healthy>>

\* Without a file the event counts as uploaded; a file that looks incomplete is
\* left for a next time.
ProcessSnapshot(id) ==
  \/ (id \in uploaded \/ failed[id] = MaxFailedRetries) /\ Skipped
  \/ /\ id \notin uploaded /\ failed[id] < MaxFailedRetries
     /\ \/ /\ file[id] = "missing" /\ uploaded' = uploaded \cup {id}
           /\ UNCHANGED <<failed, jobs, healthy>>
        \/ file[id] = "small" /\ Skipped
        \/ file[id] = "complete" /\ \E due \in BOOLEAN : Submit(id, IsActive(due))

-----------------------------------------------------------------------------
(* The thread                                                               *)

\* __init__ and the first is_active of run: a mirror that can not reach S3 when
\* it starts ends.  The saved retry queue is read, deleted, and forgotten.
Start ==
  /\ pc = "start"
  /\ pc' = IF reachable THEN "check" ELSE "over"
  /\ healthy' = reachable
  /\ uploaded' = savedUploaded /\ failed' = savedFailed
  /\ jobs' = Empty("retry", "dropped")
  /\ UNCHANGED <<envVars, checkVars, saved, runVars, dbErrors>>

\* Five seconds later.
Wake(due) ==
  LET api == IsActive(due) IN
  /\ pc = "wait"
  /\ healthy' = api.healthy /\ jobs' = api.jobs
  /\ pc' = IF api.healthy THEN "check" ELSE "wait"
  /\ UNCHANGED <<envVars, checkVars, uploaded, failed, saved, runVars, dbErrors>>

DbError == dbErrors < MaxDbErrors /\ dbErrors' = dbErrors + 1

\* Mutant: what failed is not tried again.
CheckRetries_None ==
  /\ todo' = {} /\ asOf' = ended /\ pc' = "retry" /\ UNCHANGED <<old, dbErrors>>

CheckRetries ==
  /\ todo' = {id \in Events : failed[id] > 0} /\ asOf' = ended /\ pc' = "retry"
  /\ UNCHANGED <<old, dbErrors>>

\* _check_for_new_snapshots up to its first loop.  The exception for the local
\* Event ends the iteration in run.
BeginCheck ==
  /\ pc = "check"
  /\ \/ EventShadowed /\ pc' = "wait" /\ UNCHANGED <<checkVars, dbErrors>>
     \/ ~EventShadowed /\ DbError /\ pc' = "periodic" /\ UNCHANGED checkVars
     \/ ~EventShadowed /\ CheckRetries
  /\ UNCHANGED <<envVars, uploaded, failed, saved, healthy, jobs, runVars>>

\* Failed events; get_by_id finds no row if the cleanup deleted it.
Retry(id) ==
  /\ pc = "retry" /\ id \in todo
  /\ todo' = todo \ {id}
  /\ \/ failed[id] = MaxFailedRetries /\ Skipped
     \/ failed[id] < MaxFailedRetries /\ ProcessSnapshot(id)
     \/ /\ failed[id] < MaxFailedRetries /\ id \notin rows
        /\ failed' = [failed EXCEPT ![id] = 0]
        /\ UNCHANGED <<uploaded, jobs, healthy>>
  /\ UNCHANGED <<envVars, pc, asOf, old, saved, runVars, dbErrors>>

\* The query: the latest events that ended after last_check_time, at most a batch.
Query ==
  /\ pc = "retry" /\ todo = {}
  /\ pc' = "batch"
  /\ \E batch \in SUBSET (rows \ old) :
       /\ Cardinality(batch) <= BatchSize
       /\ batch = rows \ old \/ Cardinality(batch) = BatchSize
       /\ todo' = batch
  /\ UNCHANGED <<envVars, asOf, old, uploaded, failed, saved, healthy, jobs, runVars,
                 dbErrors>>

\* A queried event; those of cameras that are off count as uploaded.
NewSnapshot(id) ==
  /\ pc = "batch" /\ id \in todo
  /\ todo' = todo \ {id}
  /\ \/ ProcessSnapshot(id)
     \/ uploaded' = uploaded \cup {id} /\ UNCHANGED <<failed, jobs, healthy>>
  /\ UNCHANGED <<envVars, pc, asOf, old, saved, runVars, dbErrors>>

\* The check is complete, or an error of the database ends it before
\* last_check_time is set.
EndCheck ==
  /\ pc' = "periodic" /\ todo' = {} /\ asOf' = {}
  /\ \/ pc = "batch" /\ todo = {} /\ old' = asOf /\ UNCHANGED dbErrors
     \/ pc \in {"retry", "batch"} /\ DbError /\ UNCHANGED old
  /\ UNCHANGED <<envVars, uploaded, failed, saved, healthy, jobs, runVars>>

\* _cleanup_old_events, hourly: of what is not in the table or older than a week,
\* and of everything if the database can not be reached, nothing is remembered.
Cleanup(recent) ==
  /\ pc = "periodic"
  /\ wiped' = wiped \cup (uploaded \ recent)
  /\ uploaded' = uploaded \cap recent
  /\ failed' = [id \in Events |-> IF id \in recent THEN failed[id] ELSE 0]
  /\ UNCHANGED <<envVars, pc, checkVars, saved, healthy, jobs, crashed, restarts, dbErrors>>

\* Every minute the state is saved, which truncates each file before writing it.
Save ==
  /\ \/ /\ pc \in {"periodic", "final"}
        /\ pc' = IF pc = "final" THEN "finalTruncated" ELSE "truncated"
        /\ savedUploaded' = {} /\ UNCHANGED savedFailed
     \/ /\ pc \in {"truncated", "finalTruncated"}
        /\ pc' = IF pc = "truncated" THEN "written" ELSE "finalWritten"
        /\ savedUploaded' = uploaded /\ savedFailed' = None
     \/ /\ pc \in {"written", "finalWritten"}
        /\ pc' = IF pc = "written" THEN "wait" ELSE "shutdown"
        /\ savedFailed' = failed /\ UNCHANGED savedUploaded
  /\ UNCHANGED <<envVars, checkVars, uploaded, failed, healthy, jobs, runVars, dbErrors>>

\* Neither is due, as after the check at the start.
NotDue ==
  /\ pc = "periodic"
  /\ pc' = "wait"
  /\ UNCHANGED <<envVars, checkVars, uploaded, failed, saved, healthy, jobs, runVars,
                 dbErrors>>

\* The program stops: the loop ends and the state is saved.
Stop ==
  /\ pc = "wait" /\ restarts < MaxRestarts
  /\ restarts' = restarts + 1
  /\ pc' = "final"
  /\ UNCHANGED <<envVars, checkVars, uploaded, failed, saved, healthy, jobs, wiped, crashed,
                 dbErrors>>

\* Another program starts, with the initial values of __init__.
Restarted ==
  /\ pc' = "start"
  /\ todo' = {} /\ asOf' = {} /\ old' = {}
  /\ uploaded' = {} /\ failed' = None
  /\ healthy' = TRUE
  /\ UNCHANGED <<envVars, saved, wiped, dbErrors>>

\* shutdown waits for the pool and saves the retry queue.
Shutdown ==
  /\ pc = "shutdown" /\ \A id \in Events : jobs[id]["pool"] = 0
  /\ Restarted
  /\ UNCHANGED <<jobs, crashed, restarts>>

\* The program stops when the thread has already ended.
StopEnded ==
  /\ pc = "over" /\ restarts < MaxRestarts
  /\ restarts' = restarts + 1
  /\ Restarted
  /\ UNCHANGED <<jobs, crashed>>

\* The program is killed, by the ten seconds patched_stop waits among others.
Crash ==
  /\ restarts < MaxRestarts
  /\ restarts' = restarts + 1
  /\ crashed' = TRUE
  /\ jobs' = Empty("pool", "dropped")
  /\ Restarted

-----------------------------------------------------------------------------
Environment ==
  \/ \E id \in Events :
       \/ EndEvent(id) \/ Expire(id)
       \/ \E snapshot \in {"missing", "small", "complete"} : WriteRow(id, snapshot)
  \/ Outage

Check ==
  \/ BeginCheck \/ Query \/ EndCheck
  \/ \E id \in Events : Retry(id) \/ NewSnapshot(id)

Thread ==
  \/ Start \/ Check \/ Save \/ NotDue \/ Shutdown
  \/ \E due \in BOOLEAN : Wake(due)

Next ==
  \/ Environment \/ Thread \/ Stop \/ StopEnded \/ Crash
  \/ \E id \in Events : Upload(id)
  \/ \E recent \in SUBSET Events : Cleanup(recent)

Spec == Init /\ [][Next]_vars

\* The thread and the workers run, and now and then a health check is due.
FairSpec ==
  /\ Spec
  /\ WF_vars(Thread) /\ SF_vars(Wake(TRUE))
  /\ \A id \in Events : WF_vars(Upload(id))

-----------------------------------------------------------------------------
(* Properties *)

Uploads(id) == jobs[id]["pool"] + jobs[id]["retry"] + jobs[id]["bucket"]
               + jobs[id]["refused"] + jobs[id]["dropped"]

\* "State Persistence: Survives container restarts without re-uploading"
\* (README_s3_mirror.md): however checks, retries, failures, health checks and
\* stops interleave, a snapshot is handed to S3 once, unless the program was killed
\* or a cleanup forgot the event.
UploadedOnce == \A id \in Events : ~crashed /\ id \notin wiped => Uploads(id) <= 1

MirrorRuns == reachable /\ pc # "over"

\* Once S3 stays reachable, the retry queue is handed to the pool and drains.
RetryQueueDrains ==
  <>[]MirrorRuns => []<>(\A id \in Events : jobs[id]["retry"] = 0)

\* Once S3 stays reachable, an event that failed is tried again until it is handed
\* over, its row is gone, or it has failed too often.
FailedIsRetried ==
  \A id \in Events :
    <>[]MirrorRuns => []<>(failed[id] \in {0, MaxFailedRetries} \/ id \in uploaded)

\* "Mirror Frigate snapshots to S3 storage with maximum reliability": the complete
\* snapshot of an ended event gets to the bucket, unless it expires or S3 refuses it.
SnapshotIsMirrored ==
  \A id \in Events :
    id \in rows /\ file[id] = "complete"
      ~> id \notin rows \/ jobs[id]["bucket"] + jobs[id]["refused"] > 0
=============================================================================
