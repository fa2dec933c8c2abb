---------------------------- MODULE S3Mirror_proofs ----------------------------
(***************************************************************************)
(* The mirror hands a snapshot to S3 once, whatever checks, outages,       *)
(* database errors and orderly restarts come between, for any events and   *)
(* any bounds.  UploadedOnce is not inductive: an upload must also be      *)
(* remembered, by the thread while it runs and by its file while it does   *)
(* not.                                                                    *)
(***************************************************************************)
EXTENDS S3Mirror, TLAPS

Counts == [Places -> Nat]
JobsType == jobs \in [Events -> Counts]

Sum(counts) == counts["pool"] + counts["retry"] + counts["bucket"] + counts["refused"]
               + counts["dropped"]

\* Where the next thread will look for what was handed over.
InFile == pc \in {"start", "over", "finalWritten", "shutdown"}

Remembered(id) == /\ pc # "start" => id \in uploaded
                  /\ InFile => id \in savedUploaded

HandedOnce(id) == ~crashed /\ id \notin wiped => Sum(jobs[id]) = 0 \/ (Sum(jobs[id]) = 1 /\ Remembered(id))

MirrorInv == JobsType /\ \A id \in Events : HandedOnce(id)

-----------------------------------------------------------------------------
(* Moving uploads between the places neither makes nor loses one.           *)

LEMMA SumIsNat == ASSUME NEW c \in Counts PROVE Sum(c) \in Nat
BY DEF Counts, Sum, Places

\* Emptying one place into another keeps the number of uploads of every event.
LEMMA EmptyKeeps ==
  ASSUME JobsType, NEW from \in {"retry", "pool"}, NEW to \in {"pool", "dropped"}, from # to
  PROVE  /\ Empty(from, to) \in [Events -> Counts]
         /\ \A id \in Events : Sum(Empty(from, to)[id]) = Sum(jobs[id])
<1> SUFFICES ASSUME NEW id \in Events
             PROVE  /\ Empty(from, to)[id] \in Counts
                    /\ Sum(Empty(from, to)[id]) = Sum(jobs[id])
  BY DEF Empty
<1> DEFINE c == jobs[id]
           d == [c EXCEPT ![to] = @ + c[from], ![from] = 0]
<1>1. c \in Counts BY DEF JobsType
<1>2. Empty(from, to)[id] = d BY DEF Empty
<1>5. \A p \in Places : c[p] \in Nat BY <1>1 DEF Counts
<1>3. d \in Counts BY <1>1, <1>5 DEF Counts, Places
<1>4. /\ d[to] = c[to] + c[from] /\ d[from] = 0
      /\ \A p \in Places : p # to /\ p # from => d[p] = c[p]
  BY <1>1 DEF Counts, Places
<1> HIDE DEF c, d
<1>6. Sum(d) = Sum(c)
  <2>1. CASE from = "retry" /\ to = "pool" BY <2>1, <1>4, <1>5 DEF Sum, Places
  <2>2. CASE from = "retry" /\ to = "dropped" BY <2>2, <1>4, <1>5 DEF Sum, Places
  <2>3. CASE from = "pool" /\ to = "dropped" BY <2>3, <1>4, <1>5 DEF Sum, Places
  <2> QED BY <2>1, <2>2, <2>3
<1> QED BY <1>2, <1>3, <1>6 DEF c

\* A worker moves one upload out of the pool.
LEMMA MoveKeeps ==
  ASSUME JobsType, NEW id \in Events, jobs[id]["pool"] > 0,
         NEW to \in Places, to # "pool",
         jobs' = [jobs EXCEPT ![id] = Move(id, "pool", to)]
  PROVE  JobsType' /\ \A other \in Events : Sum(jobs[other])' = Sum(jobs[other])
<1> DEFINE c == jobs[id]
           d == [c EXCEPT !["pool"] = @ - 1, ![to] = @ + 1]
<1>1. c \in Counts BY DEF JobsType
<1>2. jobs' = [jobs EXCEPT ![id] = d] BY DEF Move
<1>5. \A p \in Places : c[p] \in Nat BY <1>1 DEF Counts
<1>3. d \in Counts BY <1>1, <1>5 DEF Counts, Places
<1>4. /\ d[to] = c[to] + 1 /\ d["pool"] = c["pool"] - 1
      /\ \A p \in Places : p # to /\ p # "pool" => d[p] = c[p]
  BY <1>1 DEF Counts, Places
<1>7. jobs'[id] = d /\ \A other \in Events \ {id} : jobs'[other] = jobs[other]
  BY <1>2 DEF JobsType
<1>8. JobsType' BY <1>2, <1>3 DEF JobsType
<1> HIDE DEF d
<1>6. Sum(d) = Sum(c) BY <1>4, <1>5 DEF Sum, Places
<1> QED BY <1>6, <1>7, <1>8

\* The health check only hands the retry queue over.
LEMMA ActiveKeeps ==
  ASSUME JobsType, NEW due
  PROVE  /\ IsActive(due).jobs \in [Events -> Counts]
         /\ \A id \in Events : Sum(IsActive(due).jobs[id]) = Sum(jobs[id])
<1>1. IsActive(due).jobs = jobs \/ IsActive(due).jobs = Empty("retry", "pool")
  BY DEF IsActive
<1>2. /\ Empty("retry", "pool") \in [Events -> Counts]
      /\ \A id \in Events : Sum(Empty("retry", "pool")[id]) = Sum(jobs[id])
  BY EmptyKeeps DEF Places
<1> QED BY <1>1, <1>2 DEF JobsType

-----------------------------------------------------------------------------
(* The steps *)

\* A step that makes no upload, forgets none and starts or stops nothing.
LEMMA QuietStep ==
  ASSUME MirrorInv, JobsType',
         \A id \in Events : Sum(jobs[id])' = Sum(jobs[id]),
         crashed' = crashed, wiped' = wiped,
         \A id \in Events : Remembered(id) => Remembered(id)'
  PROVE  MirrorInv'
BY DEF MirrorInv, HandedOnce

\* What is handed over was not uploaded before, so it is the first time.
LEMMA ProcessKeeps ==
  ASSUME MirrorInv, NEW id \in Events, ProcessSnapshot(id),
         pc \notin {"start", "over", "finalWritten", "shutdown"}, pc' = pc,
         savedUploaded' = savedUploaded, crashed' = crashed, wiped' = wiped
  PROVE  MirrorInv'
<1> JobsType BY DEF MirrorInv
<1>1. CASE UNCHANGED jobs /\ (uploaded' = uploaded \/ uploaded' = uploaded \cup {id})
  BY <1>1 DEF MirrorInv, JobsType, HandedOnce, Remembered, InFile
<1>2. CASE id \notin uploaded /\ \E due \in BOOLEAN : Submit(id, IsActive(due))
  <2> PICK due \in BOOLEAN : Submit(id, IsActive(due)) BY <1>2
  <2> DEFINE now == IsActive(due).jobs
  <2>1. now \in [Events -> Counts] /\ \A other \in Events : Sum(now[other]) = Sum(jobs[other])
    BY ActiveKeeps
  <2>2. CASE IsActive(due).healthy
    <3>1. /\ jobs' = [now EXCEPT ![id] = [now[id] EXCEPT !["pool"] = @ + 1]]
          /\ uploaded' = uploaded \cup {id}
      BY <2>2 DEF Submit
    <3> DEFINE d == [now[id] EXCEPT !["pool"] = @ + 1]
    <3> HIDE DEF now
    <3>2. now[id] \in Counts BY <2>1
    <3>3. d \in Counts /\ Sum(d) = Sum(now[id]) + 1
      BY <3>2 DEF Counts, Sum, Places
    <3>4. jobs'[id] = d /\ \A other \in Events \ {id} : jobs'[other] = now[other]
      BY <2>1, <3>1
    <3>5. JobsType' BY <2>1, <3>1, <3>3 DEF JobsType
    <3> HIDE DEF d
    <3>6. ASSUME NEW other \in Events PROVE HandedOnce(other)'
      <4>1. CASE other = id
        <5>1. HandedOnce(id) BY DEF MirrorInv
        <5>2. ~crashed /\ id \notin wiped => Sum(jobs[id]) = 0
          BY <5>1, <1>2 DEF HandedOnce, Remembered
        <5>3. ~crashed /\ id \notin wiped => Sum(jobs'[id]) = 1
          BY <5>2, <2>1, <3>3, <3>4
        <5>4. Remembered(id)' BY <3>1 DEF Remembered, InFile
        <5> QED BY <5>3, <5>4, <4>1 DEF HandedOnce
      <4>2. CASE other # id
        <5>1. HandedOnce(other) BY DEF MirrorInv
        <5>2. Sum(jobs'[other]) = Sum(jobs[other]) BY <4>2, <3>4, <2>1
        <5>3. Remembered(other) => Remembered(other)' BY <3>1 DEF Remembered, InFile
        <5> QED BY <5>1, <5>2, <5>3 DEF HandedOnce
      <4> QED BY <4>1, <4>2
    <3> QED BY <3>5, <3>6 DEF MirrorInv
  <2>3. CASE ~IsActive(due).healthy
    <3>1. UNCHANGED <<uploaded, jobs>> BY <2>3 DEF Submit
    <3> QED BY <3>1 DEF MirrorInv, JobsType, HandedOnce, Remembered, InFile
  <2> QED BY <2>2, <2>3
<1> QED BY <1>1, <1>2 DEF ProcessSnapshot, Skipped

\* What the thread does outside of its checks, and what the rest of the program does.
LEMMA OthersKeep ==
  ASSUME MirrorInv, Environment \/ BeginCheck \/ Query \/ EndCheck \/ NotDue \/ Stop
  PROVE  MirrorInv'
<1>1. UNCHANGED <<uploaded, savedUploaded, jobs, wiped, crashed>>
  BY DEF Environment, EndEvent, Expire, WriteRow, Outage, BeginCheck, Query, EndCheck, NotDue,
         Stop, saved, runVars
<1>2. pc' = pc \/ (pc \in {"check", "retry", "batch", "periodic", "wait"}
                   /\ pc' \in {"wait", "periodic", "retry", "batch", "final"})
  BY DEF Environment, EndEvent, Expire, WriteRow, Outage, BeginCheck, Query, EndCheck, NotDue,
         Stop, CheckRetries
<1>3. \A id \in Events : Remembered(id) => Remembered(id)'
  BY <1>1, <1>2 DEF Remembered, InFile
<1> QED BY <1>1, <1>3, QuietStep DEF MirrorInv, JobsType

LEMMA UploadKeeps ==
  ASSUME MirrorInv, NEW id \in Events, Upload(id)
  PROVE  MirrorInv'
<1>1. UNCHANGED <<pc, uploaded, savedUploaded, wiped, crashed>> /\ jobs[id]["pool"] > 0
  BY DEF Upload, saved, runVars
<1>2. PICK to \in {"bucket", "refused", "retry"} : jobs' = [jobs EXCEPT ![id] = Move(id, "pool", to)]
  BY DEF Upload
<1>3. to \in Places /\ to # "pool" BY <1>2 DEF Places
<1>4. JobsType' /\ \A other \in Events : Sum(jobs[other])' = Sum(jobs[other])
  BY <1>1, <1>2, <1>3, MoveKeeps DEF MirrorInv
<1> QED BY <1>1, <1>4, QuietStep DEF Remembered, InFile

\* A thread that starts remembers what its file holds.
LEMMA StartKeeps == ASSUME MirrorInv, Start PROVE MirrorInv'
<1>1. /\ pc = "start" /\ pc' \in {"check", "over"} /\ uploaded' = savedUploaded
      /\ jobs' = Empty("retry", "dropped") /\ UNCHANGED <<savedUploaded, wiped, crashed>>
  BY DEF Start, saved, runVars
<1>2. JobsType' /\ \A id \in Events : Sum(jobs[id])' = Sum(jobs[id])
  BY <1>1, EmptyKeeps DEF MirrorInv, JobsType
<1> QED BY <1>1, <1>2, QuietStep DEF Remembered, InFile

LEMMA WakeKeeps == ASSUME MirrorInv, NEW due \in BOOLEAN, Wake(due) PROVE MirrorInv'
<1>1. /\ pc = "wait" /\ pc' \in {"check", "wait"} /\ jobs' = IsActive(due).jobs
      /\ UNCHANGED <<uploaded, savedUploaded, wiped, crashed>>
  BY DEF Wake, saved, runVars
<1>2. JobsType' /\ \A id \in Events : Sum(jobs[id])' = Sum(jobs[id])
  BY <1>1, ActiveKeeps DEF MirrorInv, JobsType
<1> QED BY <1>1, <1>2, QuietStep DEF Remembered, InFile

LEMMA CheckKeeps ==
  ASSUME MirrorInv, NEW id \in Events, Retry(id) \/ NewSnapshot(id)
  PROVE  MirrorInv'
<1>1. /\ pc \in {"retry", "batch"} /\ pc' = pc
      /\ UNCHANGED <<savedUploaded, wiped, crashed>>
  BY DEF Retry, NewSnapshot, saved, runVars
<1>2. CASE ProcessSnapshot(id)
  BY <1>1, <1>2, ProcessKeeps
<1>3. CASE jobs' = jobs /\ (uploaded' = uploaded \/ uploaded' = uploaded \cup {id})
  BY <1>1, <1>3, QuietStep DEF MirrorInv, JobsType, Remembered, InFile
<1> QED BY <1>2, <1>3 DEF Retry, NewSnapshot, Skipped

\* An event the cleanup forgets is wiped, which is not what is claimed about.
LEMMA CleanupKeeps == ASSUME MirrorInv, NEW recent \in SUBSET Events, Cleanup(recent) PROVE MirrorInv'
<1>1. /\ pc = "periodic" /\ UNCHANGED <<pc, jobs, savedUploaded, crashed>>
      /\ wiped' = wiped \cup (uploaded \ recent) /\ uploaded' = uploaded \cap recent
  BY DEF Cleanup, saved
<1> QED BY <1>1 DEF MirrorInv, JobsType, HandedOnce, Remembered, InFile

\* The file is rewritten before its content is relied on.
LEMMA SaveKeeps == ASSUME MirrorInv, Save PROVE MirrorInv'
<1>1. UNCHANGED <<uploaded, jobs, wiped, crashed>>
  BY DEF Save, runVars
<1>2. \/ pc \in {"periodic", "final"} /\ pc' \in {"truncated", "finalTruncated"}
      \/ pc \in {"truncated", "finalTruncated"} /\ pc' \in {"written", "finalWritten"}
         /\ savedUploaded' = uploaded
      \/ pc = "written" /\ pc' = "wait" /\ savedUploaded' = savedUploaded
      \/ pc = "finalWritten" /\ pc' = "shutdown" /\ savedUploaded' = savedUploaded
  BY DEF Save
<1>3. \A id \in Events : Remembered(id) => Remembered(id)'
  BY <1>1, <1>2 DEF Remembered, InFile
<1> QED BY <1>1, <1>3, QuietStep DEF MirrorInv, JobsType

LEMMA StopsKeep == ASSUME MirrorInv, Shutdown \/ StopEnded PROVE MirrorInv'
<1>1. /\ pc \in {"shutdown", "over"} /\ pc' = "start"
      /\ UNCHANGED <<jobs, savedUploaded, wiped, crashed>>
  BY DEF Shutdown, StopEnded, Restarted, saved
<1> QED BY <1>1, QuietStep DEF MirrorInv, JobsType, Remembered, InFile

\* Of a program that was killed nothing but the number of uploads is claimed.
LEMMA CrashKeeps == ASSUME MirrorInv, Crash PROVE MirrorInv'
<1>1. crashed' = TRUE /\ jobs' = Empty("pool", "dropped") BY DEF Crash
<1>2. JobsType' BY <1>1, EmptyKeeps DEF MirrorInv, JobsType
<1> QED BY <1>1, <1>2 DEF MirrorInv, HandedOnce

LEMMA MirrorKept == ASSUME MirrorInv, [Next]_vars PROVE MirrorInv'
<1>1. CASE UNCHANGED vars
  BY <1>1 DEF vars, MirrorInv, JobsType, HandedOnce, Remembered, InFile
<1>2. CASE Environment \/ BeginCheck \/ Query \/ EndCheck \/ NotDue \/ Stop
  BY <1>2, OthersKeep
<1>3. CASE \E id \in Events : Retry(id) \/ NewSnapshot(id)
  BY <1>3, CheckKeeps
<1>4. CASE Start \/ Save \/ Shutdown \/ StopEnded \/ Crash
  BY <1>4, StartKeeps, SaveKeeps, StopsKeep, CrashKeeps
<1>5. CASE \E due \in BOOLEAN : Wake(due)
  BY <1>5, WakeKeeps
<1>6. CASE \E id \in Events : Upload(id)
  BY <1>6, UploadKeeps
<1>7. CASE \E recent \in SUBSET Events : Cleanup(recent)
  BY <1>7, CleanupKeeps
<1> QED
  BY <1>1, <1>2, <1>3, <1>4, <1>5, <1>6, <1>7 DEF Next, Thread, Check

\* A snapshot is handed to S3 at most once while the program is not killed and no cleanup
\* forgets the event, across orderly restarts (s3_snapshot_mirror.py, save_state and
\* _process_snapshot).
THEOREM HandedOverOnce == Spec => []UploadedOnce
<1>1. Init => MirrorInv
  <2> SUFFICES ASSUME Init PROVE MirrorInv
    OBVIOUS
  <2>1. JobsType BY DEF Init, JobsType, Counts
  <2>2. \A id \in Events : Sum(jobs[id]) = 0
    BY DEF Init, Sum, Places
  <2> QED BY <2>1, <2>2 DEF MirrorInv, HandedOnce
<1>2. MirrorInv /\ [Next]_vars => MirrorInv'
  BY MirrorKept
<1>3. MirrorInv => UploadedOnce
  BY DEF MirrorInv, HandedOnce, UploadedOnce, Uploads, Sum
<1> QED
  BY <1>1, <1>2, <1>3, PTL DEF Spec
===============================================================================
