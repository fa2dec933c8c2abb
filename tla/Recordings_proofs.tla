--------------------------- MODULE Recordings_proofs ---------------------------
(***************************************************************************)
(* Theorems about Recordings, for any numbers of segments, frames,         *)
(* reviews, settings, failures and runs of the threads that delete.        *)
(*                                                                         *)
(* Rows and files agree, but for those that are being written or deleted   *)
(* (RecordingInv): a segment is in the cache, or written in this pass, or  *)
(* in the table, never in two of these, so a file is never written again   *)
(* for a recording that is being deleted.                                  *)
(*                                                                         *)
(* A review has its segments (WantedInv): it is among those the recorder   *)
(* read, or it ended before the segments listed, or it was begun by frames *)
(* later than those a segment is dropped for; and of the windows a segment *)
(* meets the scan finds the first, whatever it skipped for earlier ones.   *)
(*                                                                         *)
(* Retained recordings go last (ForcedInv): where too little was freed all *)
(* was freed that the scan did not cover, and it covers what is retained.  *)
(***************************************************************************)
EXTENDS Recordings, WellFoundedInduction, FiniteSetTheorems, TLAPS

\* The records of the three threads have the fields their steps change.
Fields ==
  /\ {"pc", "enabled", "read", "info", "todo", "known", "moving", "stored"}
       \subseteq DOMAIN recorder
  /\ {"pc", "expireDate", "deleted"} \subseteq DOMAIN cleanup
  /\ {"pc", "offered", "deleted"} \subseteq DOMAIN storage

\* A segment that ffmpeg closes is a new one.
Past ==
  /\ filmed \in Nat
  /\ cached \cup files \cup DOMAIN rows \cup cleanup.deleted \cup storage.deleted
       \subseteq 0 .. filmed - 1

\* The recorder works on cached segments, which have no rows, and has rows to insert only
\* for files that have none; between two passes it has nothing in its hands.
PassFits ==
  /\ recorder.todo \subseteq cached /\ recorder.moving \subseteq cached
  /\ recorder.todo \cap recorder.moving = {}
  /\ recorder.stored \subseteq files
  /\ recorder.stored \cap (cached \cup DOMAIN rows) = {}
  /\ cached \cap DOMAIN rows = {}
  /\ recorder.pc # "validate" => recorder.moving = {} /\ recorder.stored = {}

\* A recording that is being deleted has lost its file, is not in the cache, and is
\* forgotten with its row.
DeletionFits ==
  /\ cleanup.deleted \cap (cached \cup files) = {}
  /\ storage.deleted \cap (cached \cup files) = {}
  /\ cleanup.pc # "rows" => cleanup.deleted = {}
  /\ storage.pc = "wait" => storage.deleted = {}

RecordingInv == Fields /\ Past /\ PassFits /\ DeletionFits /\ RowsMatchFiles

-----------------------------------------------------------------------------
(* Helpers: what their parts of the state become.                           *)

LEMMA TrimmedIsPart ==
  ASSUME NEW S, NEW info
  PROVE  Trimmed(S, info) \subseteq S
<1>1. \A T : Newest(T) \subseteq T
  BY DEF Newest
<1> QED BY <1>1 DEF Trimmed

LEMMA OldestIsPart ==
  ASSUME NEW S, NEW freed
  PROVE  Oldest(S, freed) \subseteq S \cap files
BY DEF Oldest

LEMMA RowsLeft ==
  ASSUME NEW S
  PROVE  DOMAIN WithoutRows(S) = DOMAIN rows \ S
BY DEF WithoutRows

\* Everything RecordingInv speaks of stays as it is.
LEMMA SameKeeps ==
  ASSUME RecordingInv,
         UNCHANGED <<filmed, cached, files, rows, recorder, cleanup, storage>>,
         failed => failed'
  PROVE  RecordingInv'
BY DEF RecordingInv, Fields, Past, PassFits, DeletionFits, RowsMatchFiles

-----------------------------------------------------------------------------
(* The world.                                                               *)

LEMMA CloseKeeps == ASSUME RecordingInv, CloseSegment PROVE RecordingInv'
<1>1. /\ filmed' = filmed + 1 /\ cached' = cached \cup {filmed}
      /\ UNCHANGED <<files, rows, recorder, cleanup, storage, failed>>
  BY DEF CloseSegment, history
<1>2. /\ filmed \in Nat
      /\ filmed \notin files \cup DOMAIN rows \cup cleanup.deleted \cup storage.deleted
  BY DEF RecordingInv, Past
<1>3. Past'
  BY <1>1, <1>2 DEF RecordingInv, Past
<1>4. PassFits'
  BY <1>1, <1>2 DEF RecordingInv, PassFits
<1>5. DeletionFits'
  BY <1>1, <1>2 DEF RecordingInv, DeletionFits
<1>6. Fields' /\ RowsMatchFiles'
  BY <1>1 DEF RecordingInv, Fields, RowsMatchFiles
<1> QED BY <1>3, <1>4, <1>5, <1>6 DEF RecordingInv

-----------------------------------------------------------------------------
(* The recorder.                                                            *)

LEMMA BeginKeeps == ASSUME RecordingInv, BeginPass PROVE RecordingInv'
<1>1. /\ recorder.pc = "wait"
      /\ UNCHANGED <<filmed, files, rows, cleanup, storage, failed>>
  BY DEF BeginPass, others, recorded, world, history
<1>2. PICK on \in BOOLEAN :
        LET info == IF on THEN recorder.info \cup (recorder.read .. frames - 1)
                    ELSE recorder.info
            listed == Trimmed(cached, info)
        IN /\ cached' = listed
           /\ recorder' = [recorder EXCEPT
                !.pc = IF listed = {} THEN "wait" ELSE "query",
                !.enabled = on, !.read = frames, !.todo = listed,
                !.info = IF listed = {} THEN info
                         ELSE {f \in info : \E s \in listed : FrameTime(f) >= Start(s)}]
  BY Zenon DEF BeginPass
<1> DEFINE info == IF on THEN recorder.info \cup (recorder.read .. frames - 1)
                   ELSE recorder.info
           listed == Trimmed(cached, info)
           left == IF listed = {} THEN info
                   ELSE {f \in info : \E s \in listed : FrameTime(f) >= Start(s)}
<1>3. /\ cached' = listed
      /\ recorder' = [recorder EXCEPT
           !.pc = IF listed = {} THEN "wait" ELSE "query",
           !.enabled = on, !.read = frames, !.todo = listed, !.info = left]
  BY <1>2
<1>4. listed \subseteq cached
  BY TrimmedIsPart
<1> HIDE DEF info, listed, left
<1>5. /\ cached' \subseteq cached /\ recorder'.todo = cached'
      /\ recorder'.moving = recorder.moving /\ recorder'.stored = recorder.stored
      /\ recorder'.pc # "validate" /\ recorder.pc # "validate"
      /\ DOMAIN recorder' = DOMAIN recorder
  BY <1>1, <1>3, <1>4 DEF RecordingInv, Fields
<1>6. Fields' /\ Past'
  BY <1>1, <1>5 DEF RecordingInv, Fields, Past
<1>7. PassFits'
  BY <1>1, <1>5 DEF RecordingInv, PassFits
<1>8. DeletionFits'
  BY <1>1, <1>5 DEF RecordingInv, DeletionFits
<1>9. RowsMatchFiles'
  BY <1>1, <1>5 DEF RecordingInv, RowsMatchFiles
<1> QED BY <1>6, <1>7, <1>8, <1>9 DEF RecordingInv

LEMMA QueryKeeps == ASSUME RecordingInv, QueryReviews PROVE RecordingInv'
<1>1. /\ UNCHANGED <<filmed, cached, files, rows, cleanup, storage, failed>>
      /\ recorder'.todo = recorder.todo /\ recorder'.moving = recorder.moving
      /\ recorder'.stored = recorder.stored /\ DOMAIN recorder' = DOMAIN recorder
      /\ recorder'.pc = "validate"
  BY DEF QueryReviews, others, recorded, world, history, RecordingInv, Fields
<1> QED BY <1>1 DEF RecordingInv, Fields, Past, PassFits, DeletionFits, RowsMatchFiles

\* The three ways a listed segment leaves the list: dropped, left for the next pass, or
\* on its way to the disk.
LEMMA DropKeeps ==
  ASSUME RecordingInv, NEW s \in recorder.todo, NEW how, Drop(s, how),
         UNCHANGED <<filmed, files, rows, cleanup, storage>>, failed => failed'
  PROVE  RecordingInv'
<1>1. /\ cached' = cached \ {s} /\ recorder'.todo = recorder.todo \ {s}
      /\ recorder'.moving = recorder.moving /\ recorder'.stored = recorder.stored
      /\ recorder'.pc = recorder.pc /\ DOMAIN recorder' = DOMAIN recorder
  BY DEF Drop, Validated, RecordingInv, Fields
<1> QED BY <1>1 DEF RecordingInv, Fields, Past, PassFits, DeletionFits, RowsMatchFiles

LEMMA WaitKeeps ==
  ASSUME RecordingInv, NEW s \in recorder.todo, Wait(s),
         UNCHANGED <<filmed, files, rows, cleanup, storage, failed>>
  PROVE  RecordingInv'
<1>1. /\ cached' = cached /\ recorder'.todo = recorder.todo \ {s}
      /\ recorder'.moving = recorder.moving /\ recorder'.stored = recorder.stored
      /\ recorder'.pc = recorder.pc /\ DOMAIN recorder' = DOMAIN recorder
  BY DEF Wait, Validated, RecordingInv, Fields
<1> QED BY <1>1 DEF RecordingInv, Fields, Past, PassFits, DeletionFits, RowsMatchFiles

LEMMA MoveKeeps ==
  ASSUME RecordingInv, recorder.pc = "validate", NEW s \in recorder.todo, NEW mode, NEW how,
         MoveSegment(s, mode, how),
         UNCHANGED <<filmed, files, rows, cleanup, storage, failed>>
  PROVE  RecordingInv'
<1>1. CASE Drop(s, how)
  BY <1>1, DropKeeps
<1>2. CASE Wait(s)
  BY <1>2, WaitKeeps
<1>3. CASE /\ s \notin files
           /\ recorder' = [Validated(s) EXCEPT !.moving = @ \cup {s}]
           /\ UNCHANGED <<cached, fate>>
  <2>1. /\ cached' = cached /\ recorder'.todo = recorder.todo \ {s}
        /\ recorder'.moving = recorder.moving \cup {s} /\ recorder'.stored = recorder.stored
        /\ recorder'.pc = "validate" /\ DOMAIN recorder' = DOMAIN recorder
    BY <1>3 DEF Validated, RecordingInv, Fields
  <2> QED BY <2>1 DEF RecordingInv, Fields, Past, PassFits, DeletionFits, RowsMatchFiles
<1> QED BY <1>1, <1>2, <1>3 DEF MoveSegment

LEMMA ValidateKeeps ==
  ASSUME RecordingInv, NEW s \in Seg, Validate(s)
  PROVE  RecordingInv'
<1>1. /\ recorder.pc = "validate" /\ s \in recorder.todo
      /\ UNCHANGED <<filmed, files, rows, cleanup, storage, failed>>
  BY DEF Validate, others, recorded, world, history
<1>2. CASE Drop(s, "") \/ Drop(s, "dropped") \/ Drop(s, "inactive")
  BY <1>1, <1>2, DropKeeps
<1>3. CASE Wait(s)
  BY <1>1, <1>3, WaitKeeps
<1>4. CASE \E mode, how : MoveSegment(s, mode, how)
  BY <1>1, <1>4, MoveKeeps
<1>5. ReviewBranch(s) =>
        \/ Drop(s, "dropped") \/ Wait(s) \/ \E mode, how : MoveSegment(s, mode, how)
  BY DEF ReviewBranch
<1>6. ContinuousBranch(s) => Wait(s) \/ \E mode, how : MoveSegment(s, mode, how)
  BY DEF ContinuousBranch
<1> QED BY <1>2, <1>3, <1>4, <1>5, <1>6 DEF Validate

LEMMA CorruptKeeps ==
  ASSUME RecordingInv, NEW s \in Seg, Corrupt(s)
  PROVE  RecordingInv'
<1>1. /\ s \in recorder.todo /\ Drop(s, "") /\ failed'
      /\ UNCHANGED <<filmed, files, rows, cleanup, storage>>
  BY DEF Corrupt, others, recorded, world
<1> QED BY <1>1, DropKeeps

LEMMA MovedKeeps ==
  ASSUME RecordingInv, NEW s \in Seg, Moved(s)
  PROVE  RecordingInv'
<1>1. /\ s \in recorder.moving
      /\ files' = files \cup {s} /\ cached' = cached \ {s}
      /\ recorder'.moving = recorder.moving \ {s}
      /\ recorder'.stored = recorder.stored \cup {s}
      /\ recorder'.todo = recorder.todo /\ recorder'.pc = recorder.pc
      /\ DOMAIN recorder' = DOMAIN recorder
      /\ UNCHANGED <<filmed, rows, cleanup, storage, failed>>
  BY DEF Moved, others, world, history, RecordingInv, Fields
<1>2. s \in cached /\ s \notin DOMAIN rows /\ s \notin recorder.todo
  BY <1>1 DEF RecordingInv, PassFits
<1>3. Fields' /\ Past'
  BY <1>1, <1>2 DEF RecordingInv, Fields, Past
<1>4. PassFits'
  BY <1>1, <1>2 DEF RecordingInv, PassFits
<1>5. DeletionFits'
  BY <1>1, <1>2 DEF RecordingInv, DeletionFits
<1>6. RowsMatchFiles'
  BY <1>1, <1>2 DEF RecordingInv, RowsMatchFiles
<1> QED BY <1>3, <1>4, <1>5, <1>6 DEF RecordingInv

LEMMA MoveFailsKeeps ==
  ASSUME RecordingInv, NEW s \in Seg, MoveFails(s)
  PROVE  RecordingInv'
<1>1. /\ s \in recorder.moving /\ failed'
      /\ recorder'.moving = recorder.moving \ {s} /\ recorder'.stored = recorder.stored
      /\ recorder'.todo = recorder.todo /\ recorder'.pc = recorder.pc
      /\ DOMAIN recorder' = DOMAIN recorder
      /\ UNCHANGED <<filmed, rows, cleanup, storage>>
  BY DEF MoveFails, others, world, RecordingInv, Fields
<1>2. s \in cached /\ s \notin DOMAIN rows /\ s \notin recorder.todo
  BY <1>1 DEF RecordingInv, PassFits
<1>3. \/ files' \in {files, files \cup {s}} /\ cached' = cached
      \/ cached' = cached \ {s} /\ files' = files
  BY DEF MoveFails
<1>4. Fields' /\ Past'
  BY <1>1, <1>2, <1>3 DEF RecordingInv, Fields, Past
<1>5. PassFits'
  BY <1>1, <1>2, <1>3 DEF RecordingInv, PassFits
<1>6. DeletionFits'
  BY <1>1, <1>2, <1>3 DEF RecordingInv, DeletionFits
<1>7. RowsMatchFiles'
  BY <1>1, <1>2, <1>3 DEF RecordingInv, RowsMatchFiles
<1> QED BY <1>4, <1>5, <1>6, <1>7 DEF RecordingInv

LEMMA SendKeeps == ASSUME RecordingInv, SendRows PROVE RecordingInv'
<1>1. /\ recorder.moving = {} /\ recorder.todo = {}
      /\ recorder'.pc = "wait" /\ recorder'.stored = {}
      /\ recorder'.todo = recorder.todo /\ recorder'.moving = recorder.moving
      /\ DOMAIN recorder' = DOMAIN recorder
      /\ UNCHANGED <<filmed, cached, files, cleanup, storage, failed>>
  BY DEF SendRows, others, world, history, RecordingInv, Fields
<1>2. DOMAIN rows' = recorder.stored \cup DOMAIN rows
  BY DEF SendRows
<1>3. Fields' /\ Past'
  BY <1>1, <1>2 DEF RecordingInv, Fields, Past, PassFits
<1>4. PassFits'
  BY <1>1, <1>2 DEF RecordingInv, PassFits
<1>5. DeletionFits'
  BY <1>1 DEF RecordingInv, DeletionFits
<1>6. RowsMatchFiles'
  BY <1>1, <1>2 DEF RecordingInv, RowsMatchFiles, PassFits
<1> QED BY <1>3, <1>4, <1>5, <1>6 DEF RecordingInv

-----------------------------------------------------------------------------
(* The threads that delete.                                                 *)

\* One of them deletes files of recordings, which it notes, or forgets what it noted
\* with the rows.
LEMMA FilesDeletedKeeps ==
  ASSUME RecordingInv, Fields', NEW S, S \subseteq DOMAIN rows,
         files' = files \ S,
         UNCHANGED <<filmed, cached, rows, recorder, failed>>,
         \/ /\ cleanup.pc # "rows" /\ cleanup'.pc = "rows" /\ cleanup'.deleted = S
            /\ storage' = storage
         \/ /\ storage'.pc # "wait" /\ storage'.deleted = storage.deleted \cup S
            /\ cleanup' = cleanup
  PROVE  RecordingInv'
<1>1. /\ cleanup'.deleted \cup storage'.deleted = cleanup.deleted \cup storage.deleted \cup S
      /\ cleanup'.deleted \cap cached = {} /\ storage'.deleted \cap cached = {}
      /\ cleanup'.deleted \cap files' = {} /\ storage'.deleted \cap files' = {}
  BY DEF RecordingInv, DeletionFits, PassFits
<1>2. Past'
  BY <1>1 DEF RecordingInv, Past
<1>3. PassFits'
  BY DEF RecordingInv, PassFits
<1>4. DeletionFits'
  BY <1>1 DEF RecordingInv, DeletionFits
<1>5. RowsMatchFiles'
  BY <1>1 DEF RecordingInv, RowsMatchFiles
<1> QED BY <1>2, <1>3, <1>4, <1>5 DEF RecordingInv

LEMMA RowsDeletedKeeps ==
  ASSUME RecordingInv, Fields', NEW S, DOMAIN rows' = DOMAIN rows \ S,
         UNCHANGED <<filmed, cached, files, recorder, failed>>,
         \/ S = cleanup.deleted /\ cleanup'.deleted = {} /\ storage' = storage
         \/ S = storage.deleted /\ storage'.deleted = {} /\ cleanup' = cleanup
  PROVE  RecordingInv'
<1>1. S \cap files = {}
  BY DEF RecordingInv, DeletionFits
<1>2. Past'
  BY DEF RecordingInv, Past
<1>3. PassFits'
  BY DEF RecordingInv, PassFits
<1>4. DeletionFits'
  BY DEF RecordingInv, DeletionFits
<1>5. RowsMatchFiles'
  BY <1>1 DEF RecordingInv, RowsMatchFiles
<1> QED BY <1>2, <1>3, <1>4, <1>5 DEF RecordingInv

LEMMA CleanupKeeps ==
  ASSUME RecordingInv, ExpireReviews \/ ExpireFiles \/ ExpireRows
  PROVE  RecordingInv'
<1>1. CASE ExpireReviews
  <2>1. /\ cleanup.pc = "wait" /\ cleanup'.pc = "expire" /\ cleanup'.deleted = cleanup.deleted
        /\ DOMAIN cleanup' = DOMAIN cleanup
        /\ UNCHANGED <<filmed, cached, files, rows, recorder, storage, failed>>
    BY <1>1 DEF ExpireReviews, world, recorded, RecordingInv, Fields
  <2> QED BY <2>1 DEF RecordingInv, Fields, Past, PassFits, DeletionFits, RowsMatchFiles
<1>2. CASE ExpireFiles
  <2>1. PICK unreviewed, inactive :
          /\ unreviewed \subseteq DOMAIN rows /\ inactive \subseteq DOMAIN rows
          /\ cleanup' = [pc |-> "rows", expireDate |-> 0, deleted |-> unreviewed \cup inactive]
          /\ files' = files \ (unreviewed \cup inactive)
    BY <1>2 DEF ExpireFiles
  <2>2. /\ cleanup.pc # "rows"
        /\ UNCHANGED <<filmed, cached, rows, recorder, storage, failed>>
    BY <1>2 DEF ExpireFiles, world, history
  <2>3. Fields'
    BY <2>1, <2>2 DEF RecordingInv, Fields
  <2> QED BY <2>1, <2>2, <2>3, FilesDeletedKeeps
<1>3. CASE ExpireRows
  <2>1. /\ DOMAIN rows' = DOMAIN rows \ cleanup.deleted /\ cleanup'.deleted = {}
        /\ DOMAIN cleanup' = DOMAIN cleanup
        /\ UNCHANGED <<filmed, cached, files, recorder, storage, failed>>
    BY <1>3, RowsLeft DEF ExpireRows, world, history, RecordingInv, Fields
  <2>2. Fields'
    BY <2>1 DEF RecordingInv, Fields
  <2> QED BY <2>1, <2>2, RowsDeletedKeeps
<1> QED BY <1>1, <1>2, <1>3

LEMMA StorageKeeps ==
  ASSUME RecordingInv, Reclaim \/ ReclaimRetained \/ ReclaimRows
  PROVE  RecordingInv'
<1>1. CASE Reclaim
  <2> DEFINE freed == Oldest(DOMAIN rows \ Covered(Scan(DOMAIN rows, EventWindows)), 0)
             pc == IF Size(freed) < Bandwidth THEN "force" ELSE "rows"
  <2>1. /\ files' = files \ freed
        /\ storage' = [pc |-> pc, offered |-> DOMAIN rows, deleted |-> freed]
    BY <1>1 DEF Reclaim
  <2>4. freed \subseteq DOMAIN rows /\ pc \in {"force", "rows"}
    BY OldestIsPart
  <2> HIDE DEF freed, pc
  <2>2. /\ storage.deleted = {}
        /\ UNCHANGED <<filmed, cached, rows, recorder, cleanup, failed>>
    BY <1>1 DEF Reclaim, world, RecordingInv, DeletionFits
  <2>3. Fields'
    BY <2>1, <2>2 DEF RecordingInv, Fields
  <2> QED BY <2>1, <2>2, <2>3, <2>4, FilesDeletedKeeps
<1>2. CASE ReclaimRetained
  <2>1. PICK freed :
          /\ freed \subseteq DOMAIN rows /\ files' = files \ freed
          /\ storage' = [storage EXCEPT !.pc = "rows", !.deleted = @ \cup freed]
    BY <1>2, OldestIsPart DEF ReclaimRetained
  <2>2. UNCHANGED <<filmed, cached, rows, recorder, cleanup, failed>>
    BY <1>2 DEF ReclaimRetained, world, history
  <2>3. /\ storage'.pc = "rows" /\ storage'.deleted = storage.deleted \cup freed
        /\ DOMAIN storage' = DOMAIN storage
    BY <2>1 DEF RecordingInv, Fields
  <2>4. Fields'
    BY <2>2, <2>3 DEF RecordingInv, Fields
  <2> QED BY <2>1, <2>2, <2>3, <2>4, FilesDeletedKeeps
<1>3. CASE ReclaimRows
  <2>1. /\ DOMAIN rows' = DOMAIN rows \ storage.deleted
        /\ storage' = [pc |-> "wait", offered |-> {}, deleted |-> {}]
        /\ UNCHANGED <<filmed, cached, files, recorder, cleanup, failed>>
    BY <1>3, RowsLeft DEF ReclaimRows, world, history
  <2>2. Fields'
    BY <2>1 DEF RecordingInv, Fields
  <2> QED BY <2>1, <2>2, RowsDeletedKeeps
<1> QED BY <1>1, <1>2, <1>3

-----------------------------------------------------------------------------
LEMMA RecordingsKept ==
  ASSUME RecordingInv, [Next]_vars
  PROVE  RecordingInv'
<1>1. CASE UNCHANGED vars
  BY <1>1, SameKeeps DEF vars, world, history
<1>2. CASE PublishFrame \/ ReviewFrame \/ \E e \in Events : Retain(e)
  BY <1>2, SameKeeps DEF PublishFrame, ReviewFrame, Retain, history
<1>3. CASE CloseSegment
  BY <1>3, CloseKeeps
<1>4. CASE BeginPass \/ QueryReviews \/ SendRows
  BY <1>4, BeginKeeps, QueryKeeps, SendKeeps
<1>5. CASE \E s \in Seg : Validate(s) \/ Corrupt(s) \/ Moved(s) \/ MoveFails(s)
  BY <1>5, ValidateKeeps, CorruptKeeps, MovedKeeps, MoveFailsKeeps
<1>6. CASE ExpireReviews \/ ExpireFiles \/ ExpireRows
  BY <1>6, CleanupKeeps
<1>7. CASE Reclaim \/ ReclaimRetained \/ ReclaimRows
  BY <1>7, StorageKeeps
<1> QED BY <1>1, <1>2, <1>3, <1>4, <1>5, <1>6, <1>7 DEF Next, Recorder

LEMMA StartsWell == ASSUME Init PROVE RecordingInv
<1>1. filmed = 0 /\ cached = {} /\ files = {} /\ rows = <<>>
  BY Zenon DEF Init
<1>2. DOMAIN rows = {}
  BY <1>1
<1>3. /\ recorder.pc = "wait" /\ recorder.todo = {} /\ recorder.moving = {}
      /\ recorder.stored = {}
      /\ cleanup.pc = "wait" /\ cleanup.deleted = {}
      /\ storage.pc = "wait" /\ storage.deleted = {}
      /\ Fields
  BY DEF Init, Fields
<1> QED BY <1>1, <1>3, <1>2 DEF RecordingInv, Past, PassFits, DeletionFits, RowsMatchFiles

\* Between the recorder, the expiry and the storage cleanup, whatever their order, a row
\* without a file is one that is being deleted, and unless something failed a file
\* without a row is one that is being recorded (record/maintainer.py:442-499,
\* record/cleanup.py:176-189, storage.py:169-215).
THEOREM FilesHaveRows == Spec => []RowsMatchFiles
<1>1. Init => RecordingInv
  BY StartsWell
<1>2. RecordingInv /\ [Next]_vars => RecordingInv'
  BY RecordingsKept
<1>3. RecordingInv => RowsMatchFiles
  BY DEF RecordingInv
<1> QED BY <1>1, <1>2, <1>3, PTL DEF Spec

-----------------------------------------------------------------------------
(* What is decided.                                                         *)

IsReview(r) == r \in [start : Nat, end : Nat, severity : Severities] /\ r.end <= Ongoing

Progress ==
  /\ config \in Configs
  /\ frames \in 0 .. Frames /\ reviewed \in 0 .. frames /\ frames <= reviewed + ReviewLag
  /\ busy \subseteq 0 .. frames - 1
  /\ recorder.read \in 0 .. frames /\ recorder.info \subseteq 0 .. recorder.read - 1
  /\ \A r \in recorder.known \cup reviews : IsReview(r)
  /\ cleanup.expireDate \in Int

\* A segment whose time was reviewed and that no review meets.
Unwanted(s) == End(s) < FrameTime(reviewed) /\ \A r \in reviews : ~Meets(r, s, 0)
UnwantedLate(s) ==
  End(s) < FrameTime(reviewed) /\ \A r \in reviews : ~Meets(r, s, config.post[r.severity])

\* A decision is the right one.
Fits(s, how) ==
  /\ how = "dropped" => Unwanted(s)
  /\ how = "expired" => UnwantedLate(s)
  /\ how = "inactive" /\ ~toggled => s < frames /\ s \notin busy

\* The recorder knows of a review, unless it ended before the listed segments or was begun
\* after the frames that were read.
Knows(r) ==
  \/ \E k \in recorder.known : k.start = r.start /\ k.severity = r.severity /\ r.end <= k.end
  \/ \A s \in recorder.todo : r.end < Start(s)
  \/ r.start >= FrameTime(recorder.read - ReviewLag)

\* While recording is on, it remembers the frames of what is cached and what is to come.
Remembers ==
  /\ recorder.enabled
  /\ \A s \in Seg, f \in 0 .. recorder.read - 1 :
       (s \in cached \/ filmed <= s) /\ s <= f => f \in recorder.info

WantedInv ==
  /\ Progress
  /\ \A s \in Seg : Fits(s, fate[s])
  /\ recorder.pc = "validate" => \A r \in reviews : Knows(r)
  /\ ~toggled => Remembers

\* A set of natural numbers has a least one, and one that is bounded a greatest.
LEMMA LeastIs ==
  ASSUME NEW S, S \subseteq Nat, S # {}
  PROVE  \E m \in S : \A x \in S : m <= x
<1> DEFINE R == {p \in Nat \X Nat : p[1] < p[2]}
<1>1. OpToRel(<, Nat) = R
  BY DEF OpToRel
<1>2. IsWellFoundedOn(R, Nat)
  BY <1>1, NatLessThanWellFounded
<1> HIDE DEF R
<1>3. PICK m \in S : \A x \in S : ~(<<x, m>> \in R)
  BY <1>2, WFMin
<1>4. ASSUME NEW x \in S PROVE m <= x
  <2>1. x \in Nat /\ m \in Nat /\ ~(<<x, m>> \in R)
    BY <1>3
  <2> QED BY <2>1 DEF R
<1> QED BY <1>4

LEMMA GreatestIs ==
  ASSUME NEW n \in Nat, NEW S, S \subseteq 0 .. n, S # {}
  PROVE  Max(S) \in S /\ \A x \in S : x <= Max(S)
<1> DEFINE D == {n - x : x \in S}
<1>1. \A x \in S : x \in Nat /\ n - x \in Nat /\ n - x \in D
  OBVIOUS
<1>2. D \subseteq Nat /\ D # {}
  BY <1>1
<1>3. \A d \in D : \E x \in S : d = n - x
  OBVIOUS
<1> HIDE DEF D
<1>4. PICK d \in D : \A e \in D : d <= e
  BY <1>2, LeastIs
<1>5. PICK m \in S : d = n - m
  BY <1>3
<1>6. \A x \in S : m >= x
  BY <1>1, <1>4, <1>5
<1> QED BY <1>1, <1>6 DEF Max

\* The time of the last frame: no later than the last one that was read, and one of theirs.
LEMMA LatestIs ==
  ASSUME NEW n \in Nat, NEW info, info \subseteq 0 .. n - 1
  PROVE  /\ Latest(info) \in Nat
         /\ Latest(info) # 0 => \E f \in info : Latest(info) = FrameTime(f)
<1>1. CASE info = {}
  BY <1>1 DEF Latest
<1>2. CASE info # {}
  <2>0. n \in Nat /\ info \subseteq 0 .. n
    OBVIOUS
  <2>1. Max(info) \in info
    BY <1>2, <2>0, GreatestIs, Zenon
  <2>2. Latest(info) = FrameTime(Max(info))
    BY <1>2 DEF Latest
  <2>3. \A f \in info : f \in Nat
    OBVIOUS
  <2>4. Max(info) \in Nat
    BY <2>1, <2>3
  <2> QED BY <2>1, <2>2, <2>4 DEF FrameTime
<1> QED BY <1>1, <1>2

LEMMA PreCaptureIs ==
  ASSUME config \in Configs
  PROVE  EventPreCapture \in Nat /\ \A v \in Severities : config.pre[v] \in Nat /\ config.pre[v] <= EventPreCapture
<1> DEFINE a == config.pre["alert"]
           d == config.pre["detection"]
           S == {config.pre[v] : v \in Severities}
<1>1. config.pre \in [Severities -> Nat]
  BY RecordingsAssumption, SMTT(30)
<1>2. a \in Nat /\ d \in Nat /\ S = {a, d}
  BY <1>1 DEF Severities
<1> HIDE DEF a, d
<1>3. \E m \in S : \A x \in S : m >= x
  BY <1>2
<1>4. Max(S) \in S /\ \A x \in S : x <= Max(S)
  BY <1>2, <1>3 DEF Max
<1> HIDE DEF S
<1>5. EventPreCapture = Max(S)
  BY DEF EventPreCapture, S
<1> QED BY <1>1, <1>2, <1>4, <1>5 DEF S

-----------------------------------------------------------------------------
(* The scan.                                                                *)

IsWindow(w) == w.start \in Nat /\ w.from \in Int /\ w.to \in Int /\ w.from <= w.start

\* A segment that a window meets is kept, by it or by an earlier one; the pointer, which
\* leaves out what was skipped for earlier segments, makes no difference.
LEMMA MetIsKept ==
  ASSUME NEW windows, \A w \in windows : IsWindow(w), NEW s \in Nat,
         NEW earlier, \A t \in earlier : t \in Nat /\ t < s,
         NEW w \in windows, w.start <= End(s), w.to >= Start(s)
  PROVE  KeptFor(From(windows, earlier), s) # {}
<1> DEFINE stops == Stops(windows, s)
           starts == {v.start : v \in stops}
<1>1. w \in stops /\ \A v \in stops : v \in windows /\ IsWindow(v) /\ (Future(v, s) \/ v.to >= Start(s))
  BY DEF Stops
<1>2. starts \subseteq Nat /\ starts # {}
  BY <1>1 DEF IsWindow
<1>3. PICK n \in starts : \A k \in starts : n <= k
  BY <1>2, LeastIs
<1>4. PICK m \in stops : m.start = n
  BY <1>3
<1>5. \A v \in stops : m.start <= v.start
  BY <1>3, <1>4
<1> HIDE DEF stops, starts
<1>6. ~Future(m, s)
  BY <1>1, <1>4, <1>5 DEF Future, IsWindow, End
<1>7. m \in From(windows, earlier)
  <2> SUFFICES ASSUME NEW t \in earlier, NEW v \in Skipped(windows, t), ~(m.start >= v.start) PROVE FALSE
    BY <1>1, <1>4 DEF From
  <2>1. v \in windows /\ IsWindow(v) /\ IsWindow(m) /\ m \in windows /\ m.start < v.start
    BY <1>1, <1>4 DEF Skipped, IsWindow
  <2>2. m \notin Stops(windows, t)
    BY <2>1 DEF Skipped, IsWindow
  <2>3. ~Future(m, t) /\ ~(m.to >= Start(t))
    BY <2>1, <2>2 DEF Stops
  <2> QED BY <1>1, <1>4, <1>6, <2>1, <2>3 DEF Future, IsWindow, Start, End
<1>8. m \in Stops(From(windows, earlier), s)
  BY <1>1, <1>4, <1>6, <1>7 DEF Stops
<1>9. \A v \in Stops(From(windows, earlier), s) : v \in stops
  BY DEF Stops, From, stops
<1> QED BY <1>5, <1>6, <1>8, <1>9 DEF KeptFor

\* The same where the loop begins with the first window.
LEMMA MetIsKeptAtOnce ==
  ASSUME NEW windows, \A w \in windows : IsWindow(w), NEW s \in Nat,
         NEW w \in windows, w.start <= End(s), w.to >= Start(s)
  PROVE  KeptFor(windows, s) # {}
<1>1. From(windows, {}) = windows
  BY DEF From
<1> QED BY <1>1, MetIsKept

LEMMA ReviewWindowsAre ==
  ASSUME config \in Configs, NEW revs, \A r \in revs : IsReview(r)
  PROVE  /\ \A w \in ReviewWindows(revs) : IsWindow(w)
         /\ \A r \in revs : \E w \in ReviewWindows(revs) :
              w.start = r.start /\ w.to = r.end + config.post[r.severity]
<1>1. config.pre \in [Severities -> Nat] /\ config.post \in [Severities -> Nat]
  BY RecordingsAssumption
<1>2. \A r \in revs : /\ r.start \in Nat /\ r.end \in Nat /\ r.severity \in Severities
                      /\ config.pre[r.severity] \in Nat /\ config.post[r.severity] \in Nat
  BY <1>1 DEF IsReview
<1>3. ASSUME NEW w \in ReviewWindows(revs) PROVE IsWindow(w)
  BY <1>2 DEF ReviewWindows, IsWindow
<1>4. ASSUME NEW r \in revs
      PROVE  \E w \in ReviewWindows(revs) :
               w.start = r.start /\ w.to = r.end + config.post[r.severity]
  <2> DEFINE w == [start |-> r.start, from |-> r.start - config.pre[r.severity],
                   to |-> r.end + config.post[r.severity],
                   mode |-> config.reviewMode[r.severity]]
  <2>1. w \in ReviewWindows(revs)
    BY DEF ReviewWindows
  <2>2. w.start = r.start /\ w.to = r.end + config.post[r.severity]
    OBVIOUS
  <2> HIDE DEF w
  <2> QED BY <2>1, <2>2
<1> QED BY <1>3, <1>4


-----------------------------------------------------------------------------
(* What the steps decide.                                                   *)

LEMMA NowIs ==
  ASSUME WantedInv, RecordingInv
  PROVE  Now \in Int
<1>1. filmed \in Nat /\ frames \in Nat
  BY RecordingsAssumption DEF WantedInv, Progress, RecordingInv, Past
<1> DEFINE a == 2 * filmed + 1
           b == 2 * frames
<1>2. a \in Int /\ b \in Int
  BY <1>1
<1> HIDE DEF a, b
<1>3. \E m \in {a, b} : \A x \in {a, b} : m >= x
  BY <1>2
<1>4. Max({a, b}) \in {a, b}
  BY <1>3 DEF Max
<1> QED BY <1>2, <1>4 DEF Now, a, b

\* Steps that neither close a segment nor read or publish frames: of the reviews some may
\* be deleted, of the cache and the list something may go.
Narrows ==
  /\ UNCHANGED <<config, filmed, frames, busy, reviewed>>
  /\ reviews' \subseteq reviews /\ cached' \subseteq cached
  /\ recorder'.read = recorder.read /\ recorder'.info = recorder.info
  /\ recorder'.enabled = recorder.enabled /\ recorder'.todo \subseteq recorder.todo
  /\ \/ recorder'.known = recorder.known
     \/ recorder'.known = {} /\ recorder'.pc = "wait"
  /\ recorder'.pc = "validate" => recorder.pc = "validate"
  /\ cleanup'.expireDate \in Int /\ (toggled => toggled')

LEMMA DecidedKeeps ==
  ASSUME WantedInv, Narrows, \A s \in Seg : Fits(s, fate'[s])
  PROVE  WantedInv'
<1>1. Progress'
  BY DEF WantedInv, Progress, IsReview, Narrows
<1>2. \A s \in Seg : Fits(s, fate[s])'
  BY DEF Fits, Unwanted, UnwantedLate, Meets, Narrows
<1>3. ASSUME recorder'.pc = "validate", NEW r \in reviews' PROVE Knows(r)'
  <2>1. Knows(r) /\ recorder'.known = recorder.known
    BY <1>3 DEF WantedInv, Narrows
  <2> QED BY <2>1 DEF Knows, Narrows
<1>4. ~toggled' => Remembers'
  BY DEF WantedInv, Remembers, Narrows
<1> QED BY <1>1, <1>2, <1>3, <1>4 DEF WantedInv

\* What is decided of one segment.
LEMMA DecideOne ==
  ASSUME WantedInv, NEW S, NEW how, Decide(S, how), \A s \in Seg \cap S : Fits(s, how)
  PROVE  \A s \in Seg : Fits(s, fate'[s])
<1> SUFFICES ASSUME NEW s \in Seg PROVE Fits(s, fate'[s])
  OBVIOUS
<1>1. fate'[s] = IF s \in S THEN how ELSE fate[s]
  BY DEF Decide
<1>2. Fits(s, fate[s])
  BY DEF WantedInv
<1> QED BY <1>1, <1>2

LEMMA CloseWanted == ASSUME WantedInv, RecordingInv, CloseSegment PROVE WantedInv'
<1>1. /\ filmed \in Nat /\ filmed' = filmed + 1 /\ cached' = cached \cup {filmed}
      /\ UNCHANGED <<config, frames, busy, reviewed, reviews, fate, recorder, cleanup, toggled>>
  BY DEF CloseSegment, history, RecordingInv, Past
<1>2. Progress' /\ (\A s \in Seg : Fits(s, fate[s])')
  BY <1>1 DEF WantedInv, Progress, IsReview, Fits, Unwanted, UnwantedLate, Meets
<1>3. recorder'.pc = "validate" => \A r \in reviews' : Knows(r)'
  BY <1>1 DEF WantedInv, Knows
<1>4. ~toggled' => Remembers'
  <2> SUFFICES ASSUME ~toggled', NEW s \in Seg, NEW f \in 0 .. recorder.read - 1,
                      s \in cached \cup {filmed} \/ filmed + 1 <= s, s <= f
               PROVE  f \in recorder.info
    BY <1>1 DEF WantedInv, Remembers
  <2>1. s \in cached \/ filmed <= s
    BY <1>1, RecordingsAssumption DEF Seg
  <2> QED BY <1>1, <2>1 DEF WantedInv, Remembers
<1> QED BY <1>1, <1>2, <1>3, <1>4 DEF WantedInv

LEMMA PublishWanted == ASSUME WantedInv, PublishFrame PROVE WantedInv'
<1>1. /\ frames < Frames /\ frames < reviewed + ReviewLag
      /\ frames' = frames + 1 /\ busy \subseteq busy' /\ busy' \subseteq busy \cup {frames}
      /\ UNCHANGED <<config, filmed, reviewed, reviews, cached, fate, recorder, cleanup, toggled>>
  BY DEF PublishFrame, history
<1>2. Progress'
  BY <1>1, RecordingsAssumption DEF WantedInv, Progress, IsReview
<1>3. ASSUME NEW s \in Seg PROVE Fits(s, fate[s])'
  <2>1. frames \in Nat /\ s \in Nat /\ Fits(s, fate[s])
    BY RecordingsAssumption DEF WantedInv, Progress, Seg
  <2> QED BY <1>1, <2>1 DEF Fits, Unwanted, UnwantedLate, Meets
<1>4. recorder'.pc = "validate" => \A r \in reviews' : Knows(r)'
  BY <1>1 DEF WantedInv, Knows
<1>5. ~toggled' => Remembers'
  BY <1>1 DEF WantedInv, Remembers
<1> QED BY <1>1, <1>2, <1>3, <1>4, <1>5 DEF WantedInv

\* What the review maintainer writes: a review of now, or an end for the one in progress.
LEMMA ReviewWritten ==
  ASSUME WantedInv, reviewed < frames, NEW r \in UNION ReviewChanges
  PROVE  /\ IsReview(r)
         /\ \/ r.start = FrameTime(reviewed)
            \/ \E q \in reviews : q.start = r.start /\ q.severity = r.severity /\ r.end <= q.end
<1>1. /\ frames \in Nat /\ reviewed \in Nat /\ frames <= Frames /\ Frames \in Nat
      /\ busy \subseteq Nat /\ Segments \in Nat /\ config.kinds \subseteq Severities
  BY RecordingsAssumption DEF WantedInv, Progress
<1>2. \A q \in reviews : IsReview(q)
  BY DEF WantedInv, Progress
<1>3. CASE r \in reviews
  BY <1>2, <1>3 DEF IsReview
<1>4. CASE \E v \in config.kinds :
             r = [start |-> FrameTime(reviewed), end |-> Ongoing, severity |-> v]
  BY <1>1, <1>4 DEF IsReview, FrameTime, Ongoing
<1>5. CASE \E q \in InProgress : \E t \in {FrameTime(f) : f \in {reviewed} \cup LastActivity} :
             r = [q EXCEPT !.end = t]
  <2>1. PICK q \in InProgress, f \in {reviewed} \cup LastActivity :
          r = [q EXCEPT !.end = FrameTime(f)]
    BY <1>5
  <2>2. q \in reviews /\ q.end = Ongoing /\ IsReview(q)
    BY <1>2 DEF InProgress
  <2>3. f \in Nat /\ f <= reviewed
    BY <1>1 DEF LastActivity
  <2>4. FrameTime(f) \in Nat /\ FrameTime(f) <= Ongoing
    BY <1>1, <2>3 DEF FrameTime, Ongoing
  <2>5. r.start = q.start /\ r.severity = q.severity /\ r.end = FrameTime(f) /\ IsReview(r)
    BY <2>1, <2>2, <2>4 DEF IsReview
  <2> QED BY <2>2, <2>4, <2>5
<1> QED BY <1>3, <1>4, <1>5 DEF ReviewChanges

LEMMA ReviewWanted == ASSUME WantedInv, RecordingInv, ReviewFrame PROVE WantedInv'
<1>1. /\ reviewed < frames /\ reviewed' = reviewed + 1 /\ reviews' \in ReviewChanges
      /\ UNCHANGED <<config, filmed, frames, busy, cached, fate, recorder, cleanup, toggled>>
  BY DEF ReviewFrame, history
<1>2. /\ frames \in Nat /\ reviewed \in Nat /\ ReviewLag \in Nat
      /\ frames <= reviewed + ReviewLag
      /\ recorder.read \in Nat /\ recorder.read <= frames
      /\ recorder.todo \subseteq Nat
  BY RecordingsAssumption DEF WantedInv, Progress, RecordingInv, PassFits, Past
<1>3. \A r \in reviews' :
        /\ IsReview(r)
        /\ \/ r.start = FrameTime(reviewed)
           \/ \E q \in reviews : q.start = r.start /\ q.severity = r.severity /\ r.end <= q.end
  BY <1>1, ReviewWritten
<1>4. \A q \in reviews : IsReview(q) /\ q.start \in Nat /\ q.end \in Nat /\ q.severity \in Severities
  BY DEF WantedInv, Progress, IsReview
<1>5. \A r \in reviews' : r.start \in Nat /\ r.end \in Nat /\ r.severity \in Severities
  BY <1>3 DEF IsReview
<1>6. \A r \in reviews' : IsReview(r)'
  BY <1>3 DEF IsReview
<1>7. Progress'
  BY <1>1, <1>2, <1>6 DEF WantedInv, Progress, IsReview
<1>8. ASSUME NEW s \in Seg PROVE Fits(s, fate[s])'
  <2>1. s \in Nat /\ Fits(s, fate[s])
    BY RecordingsAssumption DEF WantedInv, Seg
  <2>2. \A v \in Severities : config.post[v] \in Nat
    BY RecordingsAssumption DEF WantedInv, Progress
  <2>3. Unwanted(s) => Unwanted(s)'
    BY <1>1, <1>2, <1>3, <1>4, <1>5, <2>1 DEF Unwanted, Meets, End, Start, FrameTime
  <2>4. UnwantedLate(s) => UnwantedLate(s)'
    BY <1>1, <1>2, <1>3, <1>4, <1>5, <2>1, <2>2 DEF UnwantedLate, Meets, End, Start, FrameTime
  <2> QED BY <1>1, <2>1, <2>3, <2>4 DEF Fits
<1>9. ASSUME recorder'.pc = "validate", NEW r \in reviews' PROVE Knows(r)'
  <2>1. CASE r.start = FrameTime(reviewed)
    BY <1>1, <1>2, <2>1 DEF Knows, FrameTime
  <2>2. CASE \E q \in reviews : q.start = r.start /\ q.severity = r.severity /\ r.end <= q.end
    <3>1. PICK q \in reviews : q.start = r.start /\ q.severity = r.severity /\ r.end <= q.end
      BY <2>2
    <3>2. Knows(q)
      BY <1>1, <1>9 DEF WantedInv
    <3>3. \A k \in recorder.known : k.end \in Nat
      BY DEF WantedInv, Progress, IsReview
    <3>4. \A s \in recorder.todo : Start(s) \in Nat
      BY <1>2 DEF Start
    <3> QED BY <1>1, <1>4, <1>5, <3>1, <3>2, <3>3, <3>4 DEF Knows
  <2> QED BY <1>3, <2>1, <2>2
<1>10. ~toggled' => Remembers'
  BY <1>1 DEF WantedInv, Remembers
<1> QED BY <1>1, <1>7, <1>8, <1>9, <1>10 DEF WantedInv

LEMMA BeginWanted == ASSUME WantedInv, RecordingInv, BeginPass PROVE WantedInv'
<1>1. UNCHANGED <<config, filmed, frames, busy, reviewed, reviews, fate, cleanup>>
  BY DEF BeginPass, others, world
<1>2. PICK on \in BOOLEAN :
        /\ \/ on = recorder.enabled /\ toggled' = toggled
           \/ toggled' = TRUE
        /\ LET info == IF on THEN recorder.info \cup (recorder.read .. frames - 1)
                       ELSE recorder.info
               listed == Trimmed(cached, info)
           IN /\ cached' = listed
              /\ recorder' = [recorder EXCEPT
                   !.pc = IF listed = {} THEN "wait" ELSE "query",
                   !.enabled = on, !.read = frames, !.todo = listed,
                   !.info = IF listed = {} THEN info
                            ELSE {f \in info : \E s \in listed : FrameTime(f) >= Start(s)}]
  BY Zenon DEF BeginPass, history
<1> DEFINE info == IF on THEN recorder.info \cup (recorder.read .. frames - 1)
                   ELSE recorder.info
           listed == Trimmed(cached, info)
           left == IF listed = {} THEN info
                   ELSE {f \in info : \E s \in listed : FrameTime(f) >= Start(s)}
<1>3. /\ cached' = listed
      /\ recorder' = [recorder EXCEPT
           !.pc = IF listed = {} THEN "wait" ELSE "query",
           !.enabled = on, !.read = frames, !.todo = listed, !.info = left]
  BY <1>2
<1>4. listed \subseteq cached
  BY TrimmedIsPart
<1>5. /\ info \subseteq recorder.info \cup (recorder.read .. frames - 1)
      /\ on => info = recorder.info \cup (recorder.read .. frames - 1)
      /\ left \subseteq info
      /\ \A f \in info : (listed = {} \/ \E s \in listed : FrameTime(f) >= Start(s)) => f \in left
  OBVIOUS
<1> HIDE DEF info, listed, left
<1>6. /\ recorder'.pc # "validate" /\ recorder'.enabled = on /\ recorder'.read = frames
      /\ recorder'.info = left /\ recorder'.known = recorder.known
  BY <1>3 DEF RecordingInv, Fields
<1>7. frames \in Nat /\ recorder.read \in 0 .. frames /\ recorder.info \subseteq 0 .. recorder.read - 1
  BY RecordingsAssumption DEF WantedInv, Progress
<1>8. left \subseteq 0 .. frames - 1
  BY <1>5, <1>7
<1>9. Progress'
  BY <1>1, <1>6, <1>7, <1>8 DEF WantedInv, Progress, IsReview
<1>10. \A s \in Seg : Fits(s, fate[s])'
  BY <1>1, <1>2 DEF WantedInv, Fits, Unwanted, UnwantedLate, Meets
<1>11. ASSUME ~toggled' PROVE Remembers'
  <2>1. on /\ recorder.enabled /\ Remembers
    BY <1>2, <1>11 DEF WantedInv, Remembers
  <2> SUFFICES ASSUME NEW s \in Seg, NEW f \in 0 .. frames - 1,
                      s \in listed \/ filmed <= s, s <= f
               PROVE  f \in left
    BY <1>1, <1>3, <1>6, <2>1 DEF Remembers
  <2>2. s \in Nat /\ filmed \in Nat /\ listed \subseteq 0 .. filmed - 1
    BY <1>4, RecordingsAssumption DEF Seg, RecordingInv, Past
  <2>3. f \in info
    <3>1. CASE f < recorder.read
      BY <1>4, <1>5, <1>7, <2>1, <3>1 DEF Remembers
    <3>2. CASE ~(f < recorder.read)
      BY <1>5, <1>7, <2>1, <3>2
    <3> QED BY <3>1, <3>2
  <2>4. \A t \in listed : t <= f => FrameTime(f) >= Start(t)
    BY <2>2 DEF FrameTime, Start
  <2>5. listed = {} \/ \E t \in listed : t <= f
    <3>1. CASE s \in listed
      BY <3>1
    <3>2. CASE filmed <= s
      BY <2>2, <3>2
    <3> QED BY <3>1, <3>2
  <2> QED BY <1>5, <2>3, <2>4, <2>5
<1> QED BY <1>6, <1>9, <1>10, <1>11 DEF WantedInv

LEMMA QueryWanted == ASSUME WantedInv, RecordingInv, QueryReviews PROVE WantedInv'
<1>1. /\ UNCHANGED <<config, filmed, frames, busy, reviewed, reviews, cached, fate, cleanup, toggled>>
      /\ recorder'.todo = recorder.todo /\ recorder'.read = recorder.read
      /\ recorder'.info = recorder.info /\ recorder'.enabled = recorder.enabled
      /\ recorder'.known = {r \in reviews : \E s \in recorder.todo : r.end >= Start(s)}
  BY DEF QueryReviews, others, recorded, world, history, RecordingInv, Fields
<1>2. Progress'
  BY <1>1 DEF WantedInv, Progress, IsReview
<1>3. \A s \in Seg : Fits(s, fate[s])'
  BY <1>1 DEF WantedInv, Fits, Unwanted, UnwantedLate, Meets
<1>4. ASSUME NEW r \in reviews PROVE Knows(r)'
  <2>1. r.end \in Nat
    BY DEF WantedInv, Progress, IsReview
  <2>2. \A s \in recorder.todo : Start(s) \in Nat
    BY DEF RecordingInv, PassFits, Past, Start
  <2>3. CASE r \in recorder'.known
    BY <2>1, <2>3 DEF Knows
  <2>4. CASE r \notin recorder'.known
    BY <1>1, <2>1, <2>2, <2>4 DEF Knows
  <2> QED BY <2>3, <2>4
<1>5. ~toggled' => Remembers'
  BY <1>1 DEF WantedInv, Remembers
<1> QED BY <1>1, <1>2, <1>3, <1>4, <1>5 DEF WantedInv

\* No window of a review that the recorder knows of is met by a segment that is dropped, so
\* no review meets it: those it does not know of begin after it.
LEMMA DroppedIsUnwanted ==
  ASSUME WantedInv, RecordingInv, recorder.pc = "validate", NEW s \in recorder.todo,
         2 * (ReviewLag - 1) <= EventPreCapture,
         KeptFor(ReviewWindows(recorder.known), s) = {},
         End(s) < Latest(recorder.info) - EventPreCapture
  PROVE  Unwanted(s)
<1>1. /\ frames \in Nat /\ reviewed \in Nat /\ ReviewLag \in Nat
      /\ frames <= reviewed + ReviewLag
      /\ recorder.read \in Nat /\ recorder.read <= frames
      /\ recorder.info \subseteq 0 .. recorder.read - 1
      /\ config \in Configs
  BY RecordingsAssumption DEF WantedInv, Progress
<1>2. s \in Nat
  BY DEF RecordingInv, PassFits, Past
<1>3. EventPreCapture \in Nat
  BY <1>1, PreCaptureIs
<1>4. Latest(recorder.info) \in Nat
  BY <1>1, LatestIs
<1>5. PICK f \in recorder.info : Latest(recorder.info) = FrameTime(f)
  <2>1. Latest(recorder.info) # 0
    BY <1>2, <1>3, <1>4 DEF End
  <2> QED BY <1>1, <2>1, LatestIs
<1>6. f \in Nat /\ f <= recorder.read - 1
  BY <1>1
<1>7. End(s) < FrameTime(recorder.read - ReviewLag) /\ End(s) < FrameTime(reviewed)
  BY <1>1, <1>2, <1>3, <1>5, <1>6 DEF End, FrameTime
<1>8. ASSUME NEW r \in reviews, Meets(r, s, 0) PROVE FALSE
  <2>1. r.start \in Nat /\ r.end \in Nat /\ r.severity \in Severities
    BY DEF WantedInv, Progress, IsReview
  <2>2. r.start <= End(s) /\ r.end >= Start(s)
    BY <1>8, <2>1 DEF Meets
  <2>3. Knows(r)
    BY DEF WantedInv
  <2>4. ~(r.start >= FrameTime(recorder.read - ReviewLag))
    BY <1>1, <1>2, <1>7, <2>1, <2>2 DEF End, FrameTime
  <2>5. ~ \A t \in recorder.todo : r.end < Start(t)
    BY <1>2, <2>1, <2>2 DEF Start
  <2>6. PICK k \in recorder.known :
          k.start = r.start /\ k.severity = r.severity /\ r.end <= k.end
    BY <2>3, <2>4, <2>5 DEF Knows
  <2>7. \A q \in recorder.known : IsReview(q)
    BY DEF WantedInv, Progress
  <2>8. k.end \in Nat /\ config.post[k.severity] \in Nat
    BY <1>1, <2>1, <2>6, <2>7, RecordingsAssumption DEF IsReview
  <2>9. \A w \in ReviewWindows(recorder.known) : IsWindow(w)
    BY <1>1, <2>7, ReviewWindowsAre
  <2>10. PICK w \in ReviewWindows(recorder.known) :
           w.start = k.start /\ w.to = k.end + config.post[k.severity]
    BY <1>1, <2>7, ReviewWindowsAre
  <2>11. w.start <= End(s) /\ w.to >= Start(s)
    BY <1>2, <2>1, <2>2, <2>6, <2>8, <2>10 DEF Start
  <2> QED BY <1>2, <2>9, <2>11, MetIsKeptAtOnce
<1> QED BY <1>7, <1>8 DEF Unwanted

\* An inactive segment is dropped when later frames were read: those of the segment were
\* read before, remembered, and without activity.
LEMMA InactiveIsInactive ==
  ASSUME WantedInv, RecordingInv, NEW s \in Seg, s \in recorder.todo,
         Latest(recorder.info) >= End(s), ~Active(s), ~toggled
  PROVE  s < frames /\ s \notin busy
<1>1. /\ frames \in Nat /\ recorder.read \in Nat /\ recorder.read <= frames
      /\ recorder.info \subseteq 0 .. recorder.read - 1
      /\ busy \subseteq 0 .. frames - 1 /\ frames \in Nat
  BY RecordingsAssumption DEF WantedInv, Progress
<1>2. s \in Nat /\ s \in cached
  BY DEF RecordingInv, PassFits, Past
<1>3. Latest(recorder.info) \in Nat
  BY <1>1, LatestIs
<1>4. PICK f \in recorder.info : Latest(recorder.info) = FrameTime(f)
  <2>1. Latest(recorder.info) # 0
    BY <1>2, <1>3 DEF End
  <2> QED BY <1>1, <2>1, LatestIs
<1>5. s < f /\ f < recorder.read
  BY <1>1, <1>2, <1>4 DEF End, FrameTime
<1>6. s \in recorder.info
  BY <1>1, <1>2, <1>5 DEF WantedInv, Remembers
<1>7. FrameTime(s) \in Start(s) .. End(s)
  BY <1>2 DEF FrameTime, Start, End
<1>8. s \notin busy
  BY <1>6, <1>7 DEF Active
<1> QED BY <1>1, <1>2, <1>5, <1>8

LEMMA DropWanted ==
  ASSUME WantedInv, RecordingInv, recorder.pc = "validate", NEW s \in recorder.todo,
         NEW how, Drop(s, how), Fits(s, how),
         UNCHANGED others, toggled => toggled'
  PROVE  WantedInv'
<1>1. Decide({s}, how) /\ Narrows
  BY DEF Drop, Validated, others, world, RecordingInv, Fields, Narrows, WantedInv, Progress
<1>2. \A t \in Seg : Fits(t, fate'[t])
  BY <1>1, DecideOne
<1> QED BY <1>1, <1>2, DecidedKeeps

\* Nothing is decided of a segment that waits or is on its way to the disk.
LEMMA UndecidedKeeps ==
  ASSUME WantedInv, Narrows, fate' = fate
  PROVE  WantedInv'
<1>1. \A s \in Seg : Fits(s, fate'[s])
  BY DEF WantedInv
<1> QED BY <1>1, DecidedKeeps

LEMMA WaitWanted ==
  ASSUME WantedInv, RecordingInv, NEW s \in recorder.todo, Wait(s),
         UNCHANGED others, toggled => toggled'
  PROVE  WantedInv'
<1>1. Narrows /\ fate' = fate
  BY DEF Wait, Validated, others, world, RecordingInv, Fields, Narrows, WantedInv, Progress
<1> QED BY <1>1, UndecidedKeeps

LEMMA MoveWanted ==
  ASSUME WantedInv, RecordingInv, recorder.pc = "validate", NEW s \in recorder.todo,
         NEW mode, NEW how, MoveSegment(s, mode, how), ~Active(s) => Fits(s, how),
         UNCHANGED others, toggled => toggled'
  PROVE  WantedInv'
<1>1. CASE ~Active(s) /\ Drop(s, how)
  BY <1>1, DropWanted
<1>2. CASE Wait(s)
  BY <1>2, WaitWanted
<1>3. CASE /\ recorder' = [Validated(s) EXCEPT !.moving = @ \cup {s}]
           /\ UNCHANGED <<cached, fate>>
  <2>1. Narrows /\ fate' = fate
    BY <1>3 DEF Validated, others, world, RecordingInv, Fields, Narrows, WantedInv, Progress
  <2> QED BY <2>1, UndecidedKeeps
<1> QED BY <1>1, <1>2, <1>3 DEF MoveSegment

LEMMA ValidateWanted ==
  ASSUME WantedInv, RecordingInv, NEW s \in Seg, Validate(s),
         2 * (ReviewLag - 1) <= EventPreCapture
  PROVE  WantedInv'
<1>1. /\ recorder.pc = "validate" /\ s \in recorder.todo
      /\ UNCHANGED others /\ toggled' = toggled
  BY DEF Validate, history
<1>2. Fits(s, "")
  BY DEF Fits
<1>3. CASE Drop(s, "")
  BY <1>1, <1>2, <1>3, DropWanted
<1>4. CASE ReviewBranch(s)
  <2> DEFINE kept == KeptFor(ReviewWindows(recorder.known), s)
             over == End(s) < Latest(recorder.info) - EventPreCapture
  <2>1. CASE \E w \in kept : MoveSegment(s, w.mode, "")
    BY <1>1, <1>2, <2>1, MoveWanted
  <2>2. CASE kept = {} /\ over /\ Drop(s, "dropped")
    <3>1. Unwanted(s)
      BY <1>1, <2>2, DroppedIsUnwanted
    <3>2. Fits(s, "dropped")
      BY <3>1 DEF Fits
    <3> QED BY <1>1, <2>2, <3>2, DropWanted
  <2>3. CASE Wait(s)
    BY <1>1, <2>3, WaitWanted
  <2> QED BY <1>4, <2>1, <2>2, <2>3 DEF ReviewBranch
<1>5. CASE ContinuousBranch(s)
  <2>1. CASE Latest(recorder.info) >= End(s) /\ MoveSegment(s, config.mode, "inactive")
    <3>1. ~Active(s) => Fits(s, "inactive")
      BY <1>1, <2>1, InactiveIsInactive DEF Fits
    <3> QED BY <1>1, <2>1, <3>1, MoveWanted
  <2>2. CASE Wait(s)
    BY <1>1, <2>2, WaitWanted
  <2> QED BY <1>5, <2>1, <2>2 DEF ContinuousBranch
<1> QED BY <1>3, <1>4, <1>5 DEF Validate

LEMMA RecorderWanted ==
  ASSUME WantedInv, RecordingInv, Recorder, 2 * (ReviewLag - 1) <= EventPreCapture
  PROVE  WantedInv'
<1>1. CASE BeginPass \/ QueryReviews
  BY <1>1, BeginWanted, QueryWanted
<1>2. CASE SendRows
  <2>1. Narrows /\ fate' = fate
    BY <1>2 DEF SendRows, others, world, history, RecordingInv, Fields, Narrows, WantedInv, Progress
  <2> QED BY <2>1, UndecidedKeeps
<1>3. CASE \E s \in Seg : Validate(s)
  BY <1>3, ValidateWanted
<1>4. CASE \E s \in Seg : Corrupt(s)
  <2>1. PICK s \in Seg : Corrupt(s)
    BY <1>4
  <2>2. Fits(s, "")
    BY DEF Fits
  <2> QED BY <2>1, <2>2, DropWanted DEF Corrupt
<1>5. CASE \E s \in Seg : Moved(s) \/ MoveFails(s)
  <2>1. PICK s \in Seg : Moved(s) \/ MoveFails(s)
    BY <1>5
  <2>2. /\ cached' \subseteq cached /\ fate' = fate /\ toggled' = toggled
        /\ UNCHANGED <<config, filmed, frames, busy, reviewed, reviews, cleanup>>
    BY <2>1 DEF Moved, MoveFails, others, world, history
  <2>3. Narrows
    BY <2>1, <2>2 DEF Moved, MoveFails, RecordingInv, Fields, Narrows, WantedInv, Progress
  <2> QED BY <2>2, <2>3, UndecidedKeeps
<1> QED BY <1>1, <1>2, <1>3, <1>4, <1>5 DEF Recorder

\* No review in the table keeps a recording that expires.
LEMMA ExpiredIsUnwanted ==
  ASSUME WantedInv, RecordingInv, ExpireFiles
  PROVE  \A s \in Seg : Fits(s, fate'[s])
<1> DEFINE old == {s \in DOMAIN rows : End(s) < cleanup.expireDate}
           revs == {r \in reviews : r.start < cleanup.expireDate}
           kept == Scan(old, ReviewWindows(revs))
           lost == {s \in {t \in old : kept[t] = {}} \cap files : End(s) < FrameTime(reviewed)}
<1>1. Decide(lost, "expired")
  BY DEF ExpireFiles
<1>2. DOMAIN rows \subseteq Nat /\ config \in Configs /\ cleanup.expireDate \in Int
  BY DEF RecordingInv, Past, WantedInv, Progress
<1>3. \A r \in revs : IsReview(r)
  BY DEF WantedInv, Progress
<1>4. \A w \in ReviewWindows(revs) : IsWindow(w)
  BY <1>2, <1>3, ReviewWindowsAre
<1>5. ASSUME NEW s \in lost PROVE UnwantedLate(s)
  <2>1. /\ s \in Nat /\ s \in old /\ End(s) < cleanup.expireDate /\ End(s) < FrameTime(reviewed)
        /\ kept[s] = {}
    BY <1>2
  <2>2. kept[s] = KeptFor(From(ReviewWindows(revs), {t \in old : t < s}), s)
    BY <2>1 DEF Scan
  <2>3. \A t \in {t \in old : t < s} : t \in Nat /\ t < s
    BY <1>2
  <2> SUFFICES ASSUME NEW r \in reviews, Meets(r, s, config.post[r.severity]) PROVE FALSE
    BY <2>1 DEF UnwantedLate
  <2>4. /\ r.start \in Nat /\ r.start <= End(s)
        /\ r.end + config.post[r.severity] >= Start(s)
    BY DEF Meets, WantedInv, Progress, IsReview
  <2>5. r \in revs
    BY <1>2, <2>1, <2>4 DEF End
  <2> HIDE DEF old, revs, kept, lost
  <2>6. PICK w \in ReviewWindows(revs) :
          w.start = r.start /\ w.to = r.end + config.post[r.severity]
    BY <1>2, <1>3, <2>5, ReviewWindowsAre
  <2>7. w.start <= End(s) /\ w.to >= Start(s)
    BY <2>4, <2>6
  <2>8. KeptFor(From(ReviewWindows(revs), {t \in old : t < s}), s) # {}
    BY <1>4, <2>1, <2>3, <2>7, MetIsKept
  <2> QED BY <2>1, <2>2, <2>8
<1>6. \A s \in Seg \cap lost : Fits(s, "expired")
  BY <1>5 DEF Fits
<1> QED BY <1>1, <1>6, DecideOne

LEMMA DeletersWanted ==
  ASSUME WantedInv, RecordingInv,
         \/ ExpireReviews \/ ExpireFiles \/ ExpireRows
         \/ Reclaim \/ ReclaimRetained \/ ReclaimRows
  PROVE  WantedInv'
<1>1. /\ UNCHANGED <<config, filmed, frames, busy, reviewed, cached, recorder, toggled>>
      /\ reviews' \subseteq reviews
  BY DEF ExpireReviews, ExpireFiles, ExpireRows, Reclaim, ReclaimRetained, ReclaimRows,
         world, history
<1>2. cleanup'.expireDate \in Int
  <2>1. CASE ExpireReviews
    <3>1. Now \in Int /\ config.days \in Nat
      BY NowIs, RecordingsAssumption DEF WantedInv, Progress
    <3> QED BY <2>1, <3>1 DEF ExpireReviews, RecordingInv, Fields
  <2>2. CASE ExpireFiles
    BY <2>2 DEF ExpireFiles
  <2>3. CASE ExpireRows
    BY <2>3 DEF ExpireRows, RecordingInv, Fields, WantedInv, Progress
  <2>4. CASE Reclaim \/ ReclaimRetained \/ ReclaimRows
    BY <2>4 DEF Reclaim, ReclaimRetained, ReclaimRows, WantedInv, Progress
  <2> QED BY <2>1, <2>2, <2>3, <2>4
<1>3. \A s \in Seg : Fits(s, fate'[s])
  <2>1. CASE ExpireFiles
    BY <2>1, ExpiredIsUnwanted
  <2>2. CASE ~ExpireFiles
    <3>1. fate' = fate
      BY <2>2 DEF ExpireReviews, ExpireRows, Reclaim, ReclaimRetained, ReclaimRows
    <3> QED BY <3>1 DEF WantedInv
  <2> QED BY <2>1, <2>2
<1>4. Narrows
  BY <1>1, <1>2 DEF Narrows
<1> QED BY <1>3, <1>4, DecidedKeeps

LEMMA WantedKept ==
  ASSUME WantedInv, RecordingInv, [Next]_vars, 2 * (ReviewLag - 1) <= EventPreCapture
  PROVE  WantedInv'
<1>1. CASE UNCHANGED vars \/ \E e \in Events : Retain(e)
  <2>1. Narrows /\ fate' = fate
    BY <1>1 DEF vars, world, history, Retain, Narrows, WantedInv, Progress
  <2> QED BY <2>1, UndecidedKeeps
<1>2. CASE CloseSegment \/ PublishFrame \/ ReviewFrame
  BY <1>2, CloseWanted, PublishWanted, ReviewWanted
<1>3. CASE Recorder
  BY <1>3, RecorderWanted
<1>4. CASE \/ ExpireReviews \/ ExpireFiles \/ ExpireRows
           \/ Reclaim \/ ReclaimRetained \/ ReclaimRows
  BY <1>4, DeletersWanted
<1> QED BY <1>1, <1>2, <1>3, <1>4 DEF Next

\* The review maintainer lags by no more than the slack of event_pre_capture, whatever the
\* setting (WantedIsKept); the default, 5 seconds, are many frames.
LagIsCovered == \A c \in Configs : \E v \in Severities : 2 * (ReviewLag - 1) <= c.pre[v]

\* Every review in the table has the segments the code decided on while it was there, and
\* no active segment is deleted as inactive (record/maintainer.py:272-368,
\* record/cleanup.py:99-189), if the review maintainer lags by no more than the slack.
THEOREM ReviewsHaveRecordings ==
  ASSUME LagIsCovered
  PROVE  Spec => []WantedIsKept
<1>1. Init => RecordingInv /\ WantedInv
  <2> SUFFICES ASSUME Init PROVE WantedInv
    BY StartsWell
  <2>1. config \in Configs /\ reviews = {} /\ fate = [s \in Seg |-> ""]
    BY DEF Init
  <2>2. frames = 0 /\ reviewed = 0 /\ busy = {}
    BY DEF Init
  <2>3. recorder.pc = "wait" /\ recorder.enabled
    BY DEF Init
  <2>4. recorder.read = 0 /\ recorder.info = {} /\ recorder.known = {} /\ cleanup.expireDate = 0
    BY DEF Init
  <2>5. ReviewLag \in Nat /\ Frames \in Nat
    BY RecordingsAssumption
  <2>6. Progress
    <3>1. frames \in 0 .. Frames /\ reviewed \in 0 .. frames /\ frames <= reviewed + ReviewLag
      BY <2>2, <2>5
    <3>2. recorder.read \in 0 .. frames /\ cleanup.expireDate \in Int
      BY <2>2, <2>4
    <3>3. busy = {} /\ recorder.info = {} /\ recorder.known \cup reviews = {}
      BY <2>1, <2>2, <2>4
    <3> QED BY <2>1, <3>1, <3>2, <3>3, Zenon DEF Progress
  <2>7. \A s \in Seg : Fits(s, fate[s])
    BY <2>1 DEF Fits
  <2>8. \A f \in 0 .. recorder.read - 1 : FALSE
    BY <2>4
  <2>9. Remembers
    BY <2>3, <2>8 DEF Remembers
  <2> QED BY <2>3, <2>6, <2>7, <2>9 DEF WantedInv
<1>2. RecordingInv /\ WantedInv /\ [Next]_vars => RecordingInv' /\ WantedInv'
  <2> SUFFICES ASSUME RecordingInv, WantedInv, [Next]_vars PROVE RecordingInv' /\ WantedInv'
    OBVIOUS
  <2>1. config \in Configs
    BY DEF WantedInv, Progress
  <2>2. PICK v \in Severities : 2 * (ReviewLag - 1) <= config.pre[v]
    BY <2>1 DEF LagIsCovered
  <2>3. 2 * (ReviewLag - 1) <= EventPreCapture
    BY <2>1, <2>2, PreCaptureIs, RecordingsAssumption
  <2> QED BY <2>3, RecordingsKept, WantedKept
<1>3. WantedInv => WantedIsKept
  BY DEF WantedInv, Fits, Unwanted, UnwantedLate, WantedIsKept
<1> QED BY <1>1, <1>2, <1>3, PTL DEF Spec

-----------------------------------------------------------------------------
(* What is retained.                                                        *)

\* While the storage cleanup has freed too little, what is left of the recordings it was
\* offered is retained; none of these comes back.
ForcedInv ==
  /\ retained \subseteq Events
  /\ storage.pc = "force" =>
       /\ storage.offered \subseteq 0 .. filmed - 1 /\ storage.offered \cap cached = {}
       /\ \A t \in storage.offered \cap files : IsRetained(t)

\* The files of an offer are all freed if they are not enough: none is kept behind an
\* older one.
LEMMA OldestIsAll ==
  ASSUME NEW n \in Nat, NEW S, S \subseteq 0 .. n - 1, Size(Oldest(S, 0)) < Bandwidth
  PROVE  Oldest(S, 0) = S \cap files
<1> DEFINE before(s) == {t \in S \cap files : t < s}
           left == {s \in S \cap files : ~(Size(before(s)) <= Bandwidth)}
<1>1. Bandwidth \in Nat
  BY RecordingsAssumption
<1>2. ASSUME NEW T, T \subseteq S PROVE IsFiniteSet(T) /\ Size(T) \in Nat
  <2>1. IsFiniteSet(0 .. n - 1)
    BY FS_Interval
  <2>2. IsFiniteSet(T)
    BY <1>2, <2>1, FS_Subset, Zenon
  <2>3. Cardinality(T) \in Nat
    BY <2>2, FS_CardinalityType
  <2> QED BY <2>2, <2>3 DEF Size
<1>3. Oldest(S, 0) = {s \in S \cap files : Size(before(s)) <= Bandwidth}
  <2>1. \A s \in S : before(s) \subseteq S
    OBVIOUS
  <2>2. \A s \in S : Size(before(s)) \in Nat
    BY <1>2, <2>1
  <2>3. \A s \in S : 0 + Size(before(s)) = Size(before(s))
    BY <2>2
  <2> QED BY <2>3 DEF Oldest
<1>4. SUFFICES ASSUME left # {} PROVE FALSE
  BY <1>3
<1>5. left \subseteq Nat
  <2>1. left \subseteq S /\ 0 .. n - 1 \subseteq Nat
    OBVIOUS
  <2> QED BY <2>1
<1>6. PICK m \in left : \A s \in left : m <= s
  BY <1>4, <1>5, LeastIs
<1>7. before(m) \subseteq Oldest(S, 0)
  <2>1. \A s \in before(m) : s \in S \cap files /\ s \in Nat /\ s < m /\ m \in Nat
    BY <1>6
  <2>2. \A s \in before(m) : s \notin left
    BY <1>6, <2>1
  <2> QED BY <1>3, <2>1, <2>2
<1>8. Oldest(S, 0) \subseteq S
  BY OldestIsPart
<1>9. Size(before(m)) <= Size(Oldest(S, 0))
  <2>1. IsFiniteSet(Oldest(S, 0)) /\ Cardinality(Oldest(S, 0)) \in Nat
    BY <1>2, <1>8, FS_CardinalityType
  <2>2. Cardinality(before(m)) \in Nat /\ Cardinality(before(m)) <= Cardinality(Oldest(S, 0))
    BY <1>7, <2>1, FS_Subset, FS_CardinalityType
  <2> QED BY <2>1, <2>2 DEF Size
<1>10. Size(before(m)) \in Nat /\ Size(Oldest(S, 0)) \in Nat
  BY <1>2, <1>8
<1> QED BY <1>1, <1>6, <1>9, <1>10

\* The scan covers a recording if and only if an event that is retained meets it.
LEMMA CoveredIsRetained ==
  ASSUME RecordingInv, ForcedInv, NEW s \in DOMAIN rows
  PROVE  s \in Covered(Scan(DOMAIN rows, EventWindows)) <=> IsRetained(s)
<1> DEFINE offered == DOMAIN rows
           earlier == {t \in offered : t < s}
<1>1. offered \subseteq Nat
  BY DEF RecordingInv, Past
<1>2. \A e \in retained : e.start \in Nat /\ e.end \in Nat
  BY RecordingsAssumption DEF ForcedInv
<1>3. \A w \in EventWindows : IsWindow(w)
  BY <1>2 DEF EventWindows, IsWindow
<1>4. s \in Covered(Scan(offered, EventWindows)) <=> KeptFor(From(EventWindows, earlier), s) # {}
  BY DEF Covered, Scan
<1>5. ASSUME NEW w \in KeptFor(From(EventWindows, earlier), s) PROVE IsRetained(s)
  <2>1. w \in EventWindows /\ ~Future(w, s) /\ w.to >= Start(s)
    BY <1>5 DEF KeptFor, Stops, From
  <2>2. PICK e \in retained : w = [start |-> e.start, from |-> e.start, to |-> e.end]
    BY <2>1 DEF EventWindows
  <2>3. e.start <= End(s) /\ e.end >= Start(s)
    BY <1>1, <1>2, <2>1, <2>2 DEF Future, End
  <2> QED BY <2>3 DEF IsRetained
<1>6. ASSUME IsRetained(s) PROVE KeptFor(From(EventWindows, earlier), s) # {}
  <2>1. PICK e \in retained : e.start <= End(s) /\ e.end >= Start(s)
    BY <1>6 DEF IsRetained
  <2> DEFINE w == [start |-> e.start, from |-> e.start, to |-> e.end]
  <2>2. w \in EventWindows /\ w.start <= End(s) /\ w.to >= Start(s)
    BY <2>1 DEF EventWindows
  <2> HIDE DEF w
  <2>3. s \in Nat /\ \A t \in earlier : t \in Nat /\ t < s
    BY <1>1
  <2> HIDE DEF earlier
  <2> QED BY <1>3, <2>2, <2>3, MetIsKept
<1> QED BY <1>4, <1>5, <1>6

LEMMA ReclaimSpares ==
  ASSUME RecordingInv, ForcedInv, Reclaim
  PROVE  ForcedInv' /\ \A s \in files \ files' : ~IsRetained(s)
<1> DEFINE offered == DOMAIN rows
           free == offered \ Covered(Scan(offered, EventWindows))
           freed == Oldest(free, 0)
<1>1. /\ files' = files \ freed
      /\ storage' = [pc |-> IF Size(freed) < Bandwidth THEN "force" ELSE "rows",
                     offered |-> offered, deleted |-> freed]
      /\ UNCHANGED <<filmed, cached, retained>>
  BY DEF Reclaim, world
<1>2. filmed \in Nat /\ offered \subseteq 0 .. filmed - 1 /\ offered \cap cached = {}
  BY DEF RecordingInv, Past, PassFits
<1>3. \A s \in offered : s \in free <=> ~IsRetained(s)
  BY CoveredIsRetained
<1>4. freed \subseteq free /\ free \subseteq offered
  BY OldestIsPart
<1>5. Size(freed) < Bandwidth => freed = free \cap files
  BY <1>2, <1>4, OldestIsAll
<1> HIDE DEF free, freed, offered
<1>6. storage'.pc = "force" => Size(freed) < Bandwidth
  BY <1>1
<1>7. storage'.offered = offered
  BY <1>1
<1>8. \A t : IsRetained(t)' <=> IsRetained(t)
  BY <1>1 DEF IsRetained
<1>9. storage'.pc = "force" => \A t \in offered \cap files' : IsRetained(t)
  BY <1>1, <1>3, <1>5, <1>6
<1>10. ForcedInv'
  BY <1>1, <1>2, <1>7, <1>8, <1>9 DEF ForcedInv
<1> QED BY <1>1, <1>3, <1>4, <1>10

\* What is offered loses files, and gets none: new ones are of cached segments.
LEMMA ForcedSame ==
  ASSUME RecordingInv, ForcedInv,
         retained \subseteq retained', retained' \subseteq Events,
         storage'.pc = "force" => storage' = storage,
         filmed' = filmed \/ filmed' = filmed + 1,
         cached' \subseteq cached \cup {filmed}, files' \subseteq files \cup cached
  PROVE  ForcedInv'
<1>1. filmed \in Nat
  BY DEF RecordingInv, Past
<1>2. \A t : IsRetained(t) => IsRetained(t)'
  BY DEF IsRetained
<1>3. ASSUME storage.pc = "force"
      PROVE  /\ storage.offered \subseteq 0 .. filmed' - 1 /\ storage.offered \cap cached' = {}
             /\ \A t \in storage.offered \cap files' : IsRetained(t)'
  BY <1>1, <1>2, <1>3 DEF ForcedInv
<1> QED BY <1>3 DEF ForcedInv

LEMMA ForcedKept ==
  ASSUME RecordingInv, ForcedInv, [Next]_vars
  PROVE  ForcedInv'
<1>1. retained \subseteq Events /\ filmed \in Nat
  BY DEF ForcedInv, RecordingInv, Past
<1>2. CASE Reclaim
  BY <1>2, ReclaimSpares
<1>3. CASE ReclaimRetained \/ ReclaimRows
  <2>1. /\ UNCHANGED <<filmed, cached, retained>> /\ storage'.pc # "force"
        /\ files' \subseteq files
    <3>1. CASE ReclaimRetained
      <4>1. PICK freed : /\ files' = files \ freed
                         /\ storage' = [storage EXCEPT !.pc = "rows", !.deleted = @ \cup freed]
        BY <3>1 DEF ReclaimRetained
      <4> QED BY <3>1, <4>1 DEF ReclaimRetained, world, RecordingInv, Fields
    <3>2. CASE ReclaimRows
      BY <3>2 DEF ReclaimRows, world
    <3> QED BY <1>3, <3>1, <3>2
  <2> QED BY <1>1, <2>1, ForcedSame
<1>4. CASE UNCHANGED vars \/ \E e \in Events : Retain(e)
  <2>1. /\ UNCHANGED <<filmed, cached, files, storage>>
        /\ retained \subseteq retained' /\ retained' \subseteq Events
    BY <1>1, <1>4 DEF vars, world, Retain
  <2> QED BY <2>1, ForcedSame
<1>5. CASE CloseSegment
  <2>1. /\ UNCHANGED <<retained, files, storage>> /\ filmed' = filmed + 1
        /\ cached' = cached \cup {filmed}
    BY <1>5 DEF CloseSegment
  <2> QED BY <1>1, <2>1, ForcedSame
<1>6. CASE \/ PublishFrame \/ ReviewFrame \/ QueryReviews \/ SendRows
           \/ ExpireReviews \/ ExpireFiles \/ ExpireRows
  <2>1. UNCHANGED <<retained, filmed, cached, storage>> /\ files' \subseteq files
    BY <1>6 DEF PublishFrame, ReviewFrame, QueryReviews, SendRows, ExpireReviews, ExpireFiles,
                ExpireRows, others, world, recorded
  <2> QED BY <1>1, <2>1, ForcedSame
<1>7. CASE BeginPass
  <2>1. UNCHANGED <<retained, filmed, files, storage>> /\ cached' \subseteq cached
    BY <1>7, TrimmedIsPart DEF BeginPass, others, world, recorded
  <2> QED BY <1>1, <2>1, ForcedSame
<1>8. CASE \E s \in Seg : Validate(s) \/ Corrupt(s)
  <2>1. PICK s \in Seg : Validate(s) \/ Corrupt(s)
    BY <1>8
  <2>2. UNCHANGED <<retained, filmed, files, storage>> /\ cached' \subseteq cached
    BY <2>1 DEF Validate, Corrupt, ReviewBranch, ContinuousBranch, MoveSegment, Drop, Wait,
                others, world, recorded
  <2> QED BY <1>1, <2>2, ForcedSame
<1>9. CASE \E s \in Seg : Moved(s) \/ MoveFails(s)
  <2>1. PICK s \in Seg : Moved(s) \/ MoveFails(s)
    BY <1>9
  <2>2. s \in cached
    BY <2>1 DEF Moved, MoveFails, RecordingInv, PassFits
  <2>3. /\ UNCHANGED <<retained, filmed, storage>>
        /\ cached' \subseteq cached /\ files' \subseteq files \cup {s}
    BY <2>1 DEF Moved, MoveFails, others, world
  <2> QED BY <1>1, <2>2, <2>3, ForcedSame
<1> QED BY <1>2, <1>3, <1>4, <1>5, <1>6, <1>7, <1>8, <1>9 DEF Next, Recorder

\* Only the storage cleanup changes files and its own record in one step, and when that
\* takes a retained recording, all that is left of what it was offered is retained.
LEMMA RetainedSpared ==
  ASSUME RecordingInv, ForcedInv, Next, NEW s \in files \ files', IsRetained(s),
         storage' # storage
  PROVE  \A t \in storage'.offered \cap files' : IsRetained(t)
<1>1. CASE Reclaim
  BY <1>1, ReclaimSpares
<1>2. CASE ReclaimRetained
  <2>1. storage.pc = "force" /\ files' \subseteq files /\ storage'.offered = storage.offered
    BY <1>2 DEF ReclaimRetained, RecordingInv, Fields
  <2> QED BY <2>1 DEF ForcedInv
<1>3. CASE ReclaimRows
  BY <1>3 DEF ReclaimRows
<1>4. CASE \/ CloseSegment \/ PublishFrame \/ ReviewFrame \/ (\E e \in Events : Retain(e))
           \/ ExpireReviews \/ ExpireFiles \/ ExpireRows
  BY <1>4 DEF CloseSegment, PublishFrame, ReviewFrame, Retain, ExpireReviews, ExpireFiles,
              ExpireRows
<1>5. CASE Recorder
  BY <1>5 DEF Recorder, BeginPass, QueryReviews, SendRows, Validate, Corrupt, Moved, MoveFails,
              others
<1> QED BY <1>1, <1>2, <1>3, <1>4, <1>5 DEF Next

\* A full disk costs retained recordings only when no other is left of those the cleanup
\* was offered (storage.py:102-215).
THEOREM RetainedRecordingsGoLast == Spec => RetainedGoLast
<1>1. Init => RecordingInv /\ ForcedInv
  <2>1. Init => retained = {} /\ storage.pc = "wait"
    <3>1. Init => storage = [pc |-> "wait", offered |-> {}, deleted |-> {}] /\ retained = {}
      BY Zenon DEF Init
    <3> QED BY <3>1
  <2>2. Init => ForcedInv
    BY <2>1 DEF ForcedInv
  <2> QED BY <2>2, StartsWell
<1>2. RecordingInv /\ ForcedInv /\ [Next]_vars => RecordingInv' /\ ForcedInv'
  BY RecordingsKept, ForcedKept
<1>3. RecordingInv /\ ForcedInv /\ [Next]_vars =>
        [\A s \in files \ files' :
           IsRetained(s) /\ storage' # storage =>
             \A t \in storage'.offered \cap files' : IsRetained(t)]_vars
  BY RetainedSpared
<1> QED BY <1>1, <1>2, <1>3, PTL DEF Spec, RetainedGoLast
===============================================================================
