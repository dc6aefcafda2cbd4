--------------------------- MODULE TerminalProofs ---------------------------
(***************************************************************************)
(* Proofs about what is final in Custody: files that eviction has freed    *)
(* stay free, files that the user has deleted stay gone, and a sentinel    *)
(* that is up never overstates.                                            *)
(*                                                                         *)
(* All three hang on which actors can be at work at the same time.  So the *)
(* first part says how the lock changes hands, what the chunk-processor    *)
(* thread does between two chunks, and what a step can do to the eviction  *)
(* column and to the files of a chunk; the invariants come on top.         *)
(***************************************************************************)
EXTENDS CustodyProofs

-----------------------------------------------------------------------------
(* Who moves what.                                                         *)

\* A run leaves the engine and the count alone.
LEMMA RunStays ==
  ASSUME RunStep
  PROVE  UNCHANGED <<captured, seeded, results, expected, engine>>
  BY DEF RunStep, Retain, RouteLocal, CheckHoles, Reconcile, Revalidate,
     Produce, UploadScrubbed, UploadMedia, MarkConfirmed, WriteSentinel,
     ResumePending, SelectEvictions, EvictOne, UnlinkVideo, UnlinkManifest,
     UnlinkFile, CommitEvicted, EndRetention, lock, env, history, thread

\* Nobody but the engine and its thread moves the engine, except that a run
\* takes it over at the end and that the daemon notes its exit.
LEMMA EngineStays ==
  ASSUME Starts \/ RunStep \/ Deletes \/ Disturbance
  PROVE  /\ UNCHANGED <<captured, seeded, results, expected>>
         /\ \/ UNCHANGED engine
            \/ Converge /\ engine = "converge"
                        /\ engine' \in {"converging", "exiting"}
            \/ engine = "exited" /\ engine' = "gone"
         /\ live' = live \/ EndRetention
<1> USE DEF lock, env, history, thread
<1>1. CASE Starts
  BY <1>1 DEF Starts, Converge, ExitResume, StartupSweep, UserUpload
<1>2. CASE Deletes
  BY <1>2 DEF Deletes, CommitDelete, ReconcileDeletes, UnlinkCovered
<1>3. CASE Disturbance
  BY <1>3 DEF Disturbance, HolderKilled, Heal, BucketLoss
<1>4. CASE RunStep
  BY <1>4, RunStays, RunStepFootprint
<1> QED BY <1>1, <1>2, <1>3, <1>4

\* What the engine's own steps make of the engine and of its thread.
LEMMA EngineMoves ==
  ASSUME Engine
  PROVE  /\ \/ engine' \in {engine, "draining", "finalize", "freeze", "exited"}
            \/ Freeze
         /\ \/ live' = live
            \/ live' = [live EXCEPT !.closed = TRUE]
            \/ live' = [live EXCEPT !.pc = "off"]
<1> USE DEF thread
<1>1. CASE Rotate BY <1>1 DEF Rotate
<1>2. CASE StopRecording BY <1>2 DEF StopRecording
<1>3. CASE Drained BY <1>3 DEF Drained
<1>4. CASE DrainTimeout BY <1>4 DEF DrainTimeout
<1>5. CASE FinalReconcile BY <1>5 DEF FinalReconcile
<1>6. CASE Freeze BY <1>6 DEF Freeze
<1>7. CASE EngineExits BY <1>7 DEF EngineExits, EngineEnds
<1>8. CASE EngineKilled BY <1>8 DEF EngineKilled, EngineEnds
<1> QED
  BY <1>1, <1>2, <1>3, <1>4, <1>5, <1>6, <1>7, <1>8 DEF Engine

\* The thread leaves the engine and the count alone.
LEMMA ThreadStays ==
  ASSUME Thread
  PROVE  UNCHANGED <<captured, engine, expected, sentinel>>
  BY DEF Thread, TakeChunk, SeedChunk, StageBegins, StageFails, WriteManifest,
     StageDone, ShipNothing, ShipLock, Put, MirrorStatus, StartReclaim, lock,
     env, history

\* The thread stays with its chunk or takes the next, and does not close itself.
LEMMA ThreadMoves ==
  ASSUME live \in LiveState, Thread
  PROVE  /\ live'.closed = live.closed
         /\ live.pc # "off"
         /\ live'.chunk = live.chunk \/ (TakeChunk /\ live'.chunk = live.chunk + 1)
<1> USE DEF At, Goto, LiveState
<1>1. CASE TakeChunk BY <1>1 DEF TakeChunk
<1>2. CASE SeedChunk \/ StageBegins \/ StageFails
  BY <1>2 DEF SeedChunk, StageBegins, StageFails
<1>3. CASE WriteManifest \/ StageDone \/ ShipNothing
  BY <1>3 DEF WriteManifest, StageDone, ShipNothing
<1>4. CASE ShipLock BY <1>4 DEF ShipLock
<1>5. CASE Put BY <1>5 DEF Put
<1>6. CASE MirrorStatus \/ StartReclaim
  BY <1>6 DEF MirrorStatus, StartReclaim
<1> QED BY <1>1, <1>2, <1>3, <1>4, <1>5, <1>6 DEF Thread

\* A move of the thread from one label to another.
LEMMA Going ==
  ASSUME live \in LiveState, NEW label, Goto(label)
  PROVE  /\ live'.pc = label /\ live'.chunk = live.chunk
         /\ live'.closed = live.closed
  BY DEF LiveState, Goto

\* The ways the lock changes hands.
Taken(who, label, S) ==
  /\ Acquire(who, label, S)
  /\ \/ who = "live" /\ label = "idle" /\ ShipLock
     \/ who = "live" /\ label = "resume" /\ StartReclaim /\ S \subseteq seeded
     \/ /\ who = "run" /\ label \in {"route", "holes"} /\ Starts
        /\ label = "route" => Destination = "local"
     \/ who = "delete" /\ label = "idle" /\ CommitDelete
     \/ who = "delete" /\ label = "idle" /\ ReconcileDeletes

LetGo ==
  /\ Release
  /\ \/ Put
     \/ RunStep
     \/ UnlinkCovered /\ run.todo = {}
     \/ HolderKilled /\ holder \in {"run", "delete"}
     \/ Engine /\ ~EngineAlive' /\ holder \in {"live", "run"}

\* A run starts as one at the top of its route.
LEMMA StartTaken ==
  ASSUME Starts
  PROVE  \/ UNCHANGED lock
         \/ \E label \in RunLabels, S \in SUBSET seeded : Taken("run", label, S)
<1>1. ASSUME NEW d \in {"local", "cloud"}, StartRun(d), d \in {Destination, "cloud"}
      PROVE  \E label \in RunLabels, S \in SUBSET seeded : Taken("run", label, S)
  <2> DEFINE label == IF d = "local" THEN "route" ELSE "holes"
  <2>1. FirstTodo(d) \in SUBSET seeded BY DEF FirstTodo
  <2>2. label \in RunLabels BY Labels
  <2>3. Acquire("run", label, FirstTodo(d)) BY <1>1 DEF StartRun
  <2>4. label = "route" => Destination = "local" BY <1>1
  <2> QED BY <2>1, <2>2, <2>3, <2>4 DEF Taken
<1>2. CASE Converge BY <1>1, <1>2, CustodyAssumption DEF Converge, lock
<1>3. CASE ExitResume BY <1>1, <1>3, CustodyAssumption DEF ExitResume, lock
<1>4. CASE StartupSweep BY <1>1, <1>4 DEF StartupSweep
<1>5. CASE UserUpload BY <1>1, <1>5 DEF UserUpload
<1> QED BY <1>2, <1>3, <1>4, <1>5 DEF Starts

\* The lock changes hands in these ways only; besides, the delete job takes a
\* chunk off its list, and a run or a reclaim takes a step.
LEMMA LockMoves ==
  ASSUME TypeOK, [Next]_vars
  PROVE  \/ UNCHANGED lock
         \/ LetGo
         \/ \E who \in {"live", "run", "delete"}, label \in RunLabels,
               S \in SUBSET Chunks : Taken(who, label, S)
         \/ /\ UnlinkCovered /\ UNCHANGED holder
            /\ \E c \in Chunks : run' = [run EXCEPT !.todo = @ \ {c}]
         \/ RunStep /\ UNCHANGED holder
<1> DEFINE Took == \E who \in {"live", "run", "delete"}, label \in RunLabels,
                      S \in SUBSET Chunks : Taken(who, label, S)
<1>1. CASE Thread
  <2>1. CASE ShipLock
    <3>1. Acquire("live", "idle", {}) => Taken("live", "idle", {})
      BY <2>1 DEF Taken
    <3>2. Acquire("live", "idle", {}) => Took
      BY <3>1, Labels
    <3> QED BY <2>1, <3>2 DEF ShipLock
  <2>2. CASE StartReclaim
    <3> DEFINE S == {c \in seeded : row[c].evict = "evict_pending"}
    <3>1. Acquire("live", "resume", S) => Taken("live", "resume", S)
      BY <2>2 DEF Taken
    <3>2. S \in SUBSET Chunks
      BY DEF TypeOK
    <3>3. Acquire("live", "resume", S) => Took
      BY <3>1, <3>2, Labels
    <3> QED BY <2>2, <3>3 DEF StartReclaim
  <2>3. CASE Put
    BY <2>3 DEF Put, LetGo
  <2> QED BY <1>1, <2>1, <2>2, <2>3, ThreadFootprint
<1>2. CASE Engine
  <2>1. ASSUME NEW mine \in {{"live"}, {"live", "run"}}, EngineEnds(mine)
        PROVE  UNCHANGED lock \/ LetGo
    BY <1>2, <2>1 DEF EngineEnds, LetGo, EngineAlive
  <2>2. CASE EngineExits
    BY <2>1, <2>2 DEF EngineExits
  <2>3. CASE EngineKilled
    <3>1. ({"live"} \cup IF engine = "converging" THEN {"run"} ELSE {})
            \in {{"live"}, {"live", "run"}}
      OBVIOUS
    <3> QED BY <2>1, <2>3, <3>1 DEF EngineKilled
  <2>4. CASE ~EngineExits /\ ~EngineKilled
    BY <1>2, <2>4 DEF Engine, Rotate, StopRecording, Drained, DrainTimeout,
       FinalReconcile, Freeze, lock
  <2> QED BY <2>2, <2>3, <2>4
<1>3. CASE Starts
  <2>1. SUBSET seeded \subseteq SUBSET Chunks
    BY DEF TypeOK
  <2> QED BY <1>3, <2>1, StartTaken
<1>4. CASE Deletes
  <2>1. CASE CommitDelete
    <3>1. PICK S \in SUBSET Placeable : Acquire("delete", "idle", S)
      BY <2>1 DEF CommitDelete
    <3>2. S \in SUBSET Chunks
      BY DEF Placeable, TypeOK
    <3>3. Taken("delete", "idle", S)
      BY <2>1, <3>1 DEF Taken
    <3> QED BY <3>2, <3>3, Labels
  <2>2. CASE ReconcileDeletes
    <3>1. UserDeleted \in SUBSET Chunks
      BY DEF UserDeleted, TypeOK
    <3>2. Taken("delete", "idle", UserDeleted)
      BY <2>2 DEF ReconcileDeletes, Taken
    <3> QED BY <3>1, <3>2, Labels
  <2>3. CASE UnlinkCovered
    BY <2>3 DEF UnlinkCovered, lock, LetGo
  <2> QED BY <1>4, <2>1, <2>2, <2>3 DEF Deletes
<1>5. CASE Disturbance
  <2>1. CASE HolderKilled BY <2>1 DEF HolderKilled, LetGo
  <2> QED BY <1>5, <2>1 DEF Disturbance, Heal, BucketLoss
<1>6. CASE RunStep
  BY <1>6, RunStepFootprint DEF LetGo
<1> QED BY <1>1, <1>2, <1>3, <1>4, <1>5, <1>6 DEF Next, vars, lock

\* A step of the retention pass: on to the next chunk, to the selection, or into
\* and through an unlink.
RetentionStep ==
  /\ holder \in {"run", "live"}
  /\ run.pc \in {"resume", "evict"} /\ run'.pc \in {"resume", "evict"}
  /\ run.step = "begin"
  /\ \/ /\ run'.step = "begin"
        /\ run'.todo \subseteq run.todo \/ run'.todo \subseteq seeded
     \/ /\ run'.step = "video" /\ run'.todo \subseteq run.todo
        /\ run'.cur \in run.todo
        /\ Destination = "cloud" => "video" \in local[run'.cur]

UnlinkStep ==
  /\ holder \in {"run", "live"}
  /\ run.step # "begin"
  /\ run'.pc = run.pc /\ run'.todo = run.todo
  /\ \/ UnlinkVideo /\ run'.cur = run.cur /\ run'.step = "manifest"
     \/ UnlinkManifest /\ run'.cur = run.cur /\ run'.step = "commit"
     \/ CommitEvicted /\ run'.step = "begin"

\* A step of the route that comes before.
RouteStep ==
  /\ run.pc \notin {"resume", "evict"}
  /\ run'.step = run.step /\ run'.cur = run.cur
  /\ run'.pc \in {"resume", "evict"} =>
       run'.pc = "resume" /\ run'.todo \subseteq seeded
  /\ run'.pc = "route" => run.pc = "route"
  /\ run.pc = "route" => run'.pc \in {"route", "resume"}
  /\ run'.pc = "sentinel" => Gate

\* A step of the lock holder that keeps the lock is one of these.
LEMMA RunWorks ==
  ASSUME TypeOK, RunStep, UNCHANGED holder, ~Release
  PROVE  RouteStep \/ RetentionStep \/ UnlinkStep
<1> USE DEF In, Visits, Done, Evicting
<1>1. ASSUME NEW label \in RunLabels, NEW S, Step(label, S)
      PROVE  /\ run'.step = run.step /\ run'.cur = run.cur
             /\ run'.pc = label /\ run'.todo = S
  BY <1>1 DEF Step, TypeOK, RunState
<1>2. ASSUME NEW c, Visited(c) \/ Skip(c)
      PROVE  /\ run'.step = run.step /\ run'.cur = run.cur /\ run'.pc = run.pc
             /\ run'.todo \subseteq run.todo
  BY <1>2 DEF Visited, Skip, TypeOK, RunState
<1>3. ASSUME NEW c, Unlink(c)
      PROVE  /\ run'.step = "video" /\ run'.cur = c /\ run'.pc = run.pc
             /\ run'.todo \subseteq run.todo
  BY <1>3 DEF Unlink, TypeOK, RunState
<1>4. PendingEvictions \subseteq seeded
  BY DEF PendingEvictions
<1>5. CASE RouteLocal
  BY <1>1, <1>2, <1>4, <1>5, Labels DEF RouteLocal, RouteStep
<1>6. CASE CheckHoles BY <1>1, <1>6, Labels DEF CheckHoles, RouteStep
<1>7. CASE Reconcile
  BY <1>1, <1>2, <1>7, Labels DEF Reconcile, RouteStep
<1>8. CASE Revalidate
  BY <1>1, <1>2, <1>8, Labels DEF Revalidate, RouteStep
<1>9. CASE Produce BY <1>1, <1>9, Labels DEF Produce, RouteStep
<1>10. CASE UploadScrubbed
  <2>1. CASE run' = [run EXCEPT !.pc = "media", !.todo = MediaTodo, !.ok = TRUE]
    <3>1. run'.step = run.step /\ run'.cur = run.cur /\ run'.pc = "media"
      BY <2>1 DEF TypeOK, RunState
    <3> QED BY <1>10, <3>1 DEF UploadScrubbed, RouteStep
  <2> QED BY <1>1, <1>10, <2>1, Labels DEF UploadScrubbed, RouteStep
<1>11. CASE UploadMedia
  BY <1>1, <1>2, <1>4, <1>11, Labels DEF UploadMedia, RouteStep
<1>12. CASE MarkConfirmed
  BY <1>1, <1>2, <1>4, <1>12, Labels DEF MarkConfirmed, RouteStep
<1>13. CASE WriteSentinel
  BY <1>1, <1>4, <1>13, Labels DEF WriteSentinel, RouteStep
<1>14. CASE ResumePending
  <2>1. PICK c \in Chunks :
          /\ Oldest(c, run.todo)
          /\ \E may \in MayResume(c) : IF may THEN Unlink(c) ELSE Skip(c)
    BY <1>14 DEF ResumePending
  <2>2. \/ Skip(c)
        \/ Unlink(c) /\ (Destination = "cloud" => "video" \in local[c])
    BY <2>1 DEF MayResume, Confirm, Outcomes
  <2>3. c \in run.todo
    BY <2>1 DEF Oldest
  <2> QED BY <1>2, <1>3, <1>14, <2>2, <2>3 DEF ResumePending, RetentionStep
<1>15. CASE SelectEvictions
  <2>1. PICK S \in Selections(KeepWindow) : Step("evict", S)
    BY <1>15 DEF SelectEvictions
  <2>2. S \subseteq Candidates
    BY CustodyAssumption DEF Selections
  <2>3. S \subseteq seeded
    BY <2>2 DEF Candidates
  <2> QED BY <1>1, <1>15, <2>1, <2>3, Labels DEF SelectEvictions, RetentionStep
<1>16. CASE EvictOne
  <2>1. PICK c \in Chunks :
          /\ Oldest(c, run.todo)
          /\ \E may \in MayEvict(c) :
               IF may THEN Unlink(c) /\ row' = [row EXCEPT ![c] = BeginEviction(@)]
                      ELSE Skip(c) /\ UNCHANGED row
    BY <1>16 DEF EvictOne
  <2>2. \/ Skip(c)
        \/ Unlink(c) /\ (Destination = "cloud" => "video" \in local[c])
    BY <2>1 DEF MayEvict, Confirm, Outcomes
  <2>3. c \in run.todo
    BY <2>1 DEF Oldest
  <2> QED BY <1>2, <1>3, <1>16, <2>2, <2>3 DEF EvictOne, RetentionStep
<1>17. CASE UnlinkVideo
  BY <1>17 DEF UnlinkVideo, UnlinkFile, UnlinkStep, TypeOK, RunState
<1>18. CASE UnlinkManifest
  BY <1>18 DEF UnlinkManifest, UnlinkFile, UnlinkStep, TypeOK, RunState
<1>19. CASE CommitEvicted
  BY <1>19 DEF CommitEvicted, UnlinkStep, TypeOK, RunState
<1>20. CASE EndRetention BY <1>20 DEF EndRetention
<1> QED
  BY <1>5, <1>6, <1>7, <1>8, <1>9, <1>10, <1>11, <1>12, <1>13, <1>14, <1>15,
     <1>16, <1>17, <1>18, <1>19, <1>20 DEF RunStep, Retain

\* Only the two writes of an eviction change the evict column.
EvictMoves ==
  \A c \in Chunks :
    \/ row'[c].evict = row[c].evict
    \/ EvictOne /\ c \in run.todo /\ row'[c].evict = "evict_pending"
    \/ CommitEvicted /\ c = run.cur /\ row'[c].evict = "evicted"

\* The evict column of a chunk is written by these two steps only.
LEMMA EvictColumn ==
  ASSUME TypeOK, [Next]_vars
  PROVE  EvictMoves
<1>0. row \in [Chunks -> Row] /\ \A c \in Chunks : row[c] \in Row
  BY DEF TypeOK
<1>1. ASSUME \A c \in Chunks : \/ row'[c] = row[c]
                               \/ row'[c] = MarkStaged(row[c])
                               \/ row'[c] = MarkUploaded(row[c])
                               \/ row'[c] = MarkLocalDone(row[c])
                               \/ row'[c] = MarkFailed(row[c])
                               \/ row'[c] = MarkUserDeleted(row[c])
      PROVE  EvictMoves
  BY <1>0, <1>1, RowFacts DEF EvictMoves
<1>2. CASE StageDone BY <1>0, <1>1, <1>2 DEF StageDone
<1>3. CASE MirrorStatus
  BY <1>0, <1>1, <1>3 DEF MirrorStatus, Mirrored
<1>4. CASE FinalReconcile BY <1>1, <1>4 DEF FinalReconcile
<1>5. CASE RouteLocal BY <1>0, <1>1, <1>5 DEF RouteLocal
<1>6. CASE Reconcile BY <1>0, <1>1, <1>6 DEF Reconcile
<1>7. CASE Revalidate BY <1>0, <1>1, <1>7 DEF Revalidate
<1>8. CASE MarkConfirmed BY <1>0, <1>1, <1>8 DEF MarkConfirmed
<1>9. CASE CommitDelete BY <1>1, <1>9 DEF CommitDelete
<1>10. CASE EvictOne
  <2>1. PICK k \in Chunks :
          /\ k \in run.todo
          /\ row' = row \/ row' = [row EXCEPT ![k] = BeginEviction(@)]
    BY <1>10 DEF EvictOne, Oldest
  <2> QED BY <1>0, <1>10, <2>1, RowFacts DEF EvictMoves
<1>11. CASE CommitEvicted
  <2>1. row' = [row EXCEPT ![run.cur] = CommitEviction(@)]
    BY <1>11 DEF CommitEvicted
  <2> QED BY <1>0, <1>11, <2>1, RowFacts DEF EvictMoves
<1>12. row' = row \/ StageDone \/ MirrorStatus \/ FinalReconcile \/ RouteLocal
         \/ Reconcile \/ Revalidate \/ MarkConfirmed \/ EvictOne
         \/ CommitEvicted \/ CommitDelete
  BY ThreadFootprint, EngineFootprint, StartsFootprint, RunStepFootprint,
     OtherFootprint DEF Next, vars
<1> QED
  BY <1>1, <1>2, <1>3, <1>4, <1>5, <1>6, <1>7, <1>8, <1>9, <1>10, <1>11, <1>12

\* Files appear on this Mac in three ways only.
FilesAppear(c) ==
  \/ Rotate /\ c = captured + 1
  \/ WriteManifest /\ c = live.chunk /\ local'[c] = local[c] \cup {"manifest"}
  \/ Produce /\ "video" \in local[c]

\* Files come to a chunk in these three ways only.
LEMMA LocalFiles ==
  ASSUME TypeOK, [Next]_vars, NEW c \in Chunks
  PROVE  local'[c] \subseteq local[c] \/ FilesAppear(c)
<1>1. CASE Rotate BY <1>1 DEF Rotate, TypeOK, FilesAppear
<1>2. CASE WriteManifest BY <1>2 DEF WriteManifest, TypeOK, FilesAppear
<1>3. CASE Produce
  BY <1>3 DEF Produce, Rebuilt, TypeOK, FilesAppear
<1>4. CASE UnlinkVideo BY <1>4 DEF UnlinkVideo, UnlinkFile, TypeOK
<1>5. CASE UnlinkManifest BY <1>5 DEF UnlinkManifest, UnlinkFile, TypeOK
<1>6. CASE UnlinkCovered BY <1>6 DEF UnlinkCovered, TypeOK
<1>7. local' = local \/ Rotate \/ WriteManifest \/ Produce \/ UnlinkVideo
        \/ UnlinkManifest \/ UnlinkCovered
  BY ThreadFootprint, EngineFootprint, StartsFootprint, RunStepFootprint,
     OtherFootprint DEF Next, vars
<1> QED BY <1>1, <1>2, <1>3, <1>4, <1>5, <1>6, <1>7

-----------------------------------------------------------------------------
(* Who is at work at the same time.                                        *)

\* ThreadInOrder is inductive.
LEMMA ThreadInOrderKept ==
  ASSUME TypeOK, RecordedFirst, ThreadInOrder, [Next]_vars
  PROVE  ThreadInOrder'
<1> USE CustodyAssumption DEF EngineAlive
<1>0. live \in LiveState /\ live.chunk \in Nat /\ captured \in Nat
  BY DEF TypeOK, LiveState
<1>1. CASE Thread
  <2> USE DEF At, Staging
  <2>1. UNCHANGED <<captured, engine>>
    BY <1>1, ThreadStays
  <2>2. CASE TakeChunk
    <3>1. /\ live'.pc = "taken" /\ live'.chunk = live.chunk + 1
          /\ live'.closed = live.closed /\ live.pc = "wait" /\ ~live.closed
          /\ live.chunk < captured /\ UNCHANGED <<seeded, holder>>
      BY <1>0, <2>2 DEF TakeChunk, LiveState, lock
    <3>2. results'[live'.chunk] = "pending"
      BY <1>0, <2>2, <3>1 DEF TakeChunk, Settle, TypeOK, Chunks
    <3>3. seeded' = 1..(live'.chunk - 1)
      BY <1>0, <3>1 DEF ThreadInOrder
    <3>4. engine \in {"recording", "draining"}
      BY <1>0, <3>1 DEF ThreadInOrder
    <3> QED BY <2>1, <3>1, <3>2, <3>3, <3>4 DEF ThreadInOrder
  <2>3. CASE StageBegins \/ StageFails
    <3>1. /\ live'.pc \in {"stage", "wait"} /\ live'.chunk = live.chunk
          /\ live'.closed = live.closed /\ UNCHANGED <<seeded, holder>>
          /\ live.pc \in {"head", "stage"}
      BY <1>0, <2>3, Going DEF StageBegins, StageFails, lock
    <3>2. live'.pc = "stage" => results' = results
      BY <1>0, <2>3, Going DEF StageBegins, StageFails
    <3> QED BY <2>1, <2>3, <3>1, <3>2 DEF ThreadInOrder
  <2>11. CASE SeedChunk
    <3>1. /\ live.pc = "taken" /\ live'.pc = "head" /\ live'.chunk = live.chunk
          /\ live'.closed = live.closed /\ UNCHANGED <<results, holder>>
          /\ seeded' = seeded \cup {live.chunk}
      BY <1>0, <2>11, Going DEF SeedChunk, lock
    <3>2. live.chunk \in Chunks /\ seeded = 1..(live.chunk - 1)
      BY <3>1 DEF RecordedFirst, ThreadInOrder
    <3>3. seeded' = 1..live'.chunk
      BY <1>0, <3>1, <3>2 DEF Chunks
    <3> QED BY <2>1, <3>1, <3>3 DEF ThreadInOrder
  <2>4. CASE WriteManifest
    BY <1>0, <2>1, <2>4, Going DEF WriteManifest, ThreadInOrder, lock
  <2>5. CASE StageDone
    BY <1>0, <2>1, <2>5, Going DEF StageDone, ThreadInOrder, lock
  <2>6. CASE ShipNothing
    BY <1>0, <2>1, <2>6, Going DEF ShipNothing, ThreadInOrder, lock
  <2>7. CASE ShipLock
    BY <1>0, <2>1, <2>7, Going DEF ShipLock, Acquire, ThreadInOrder, lock
  <2>8. CASE Put
    <3>1. /\ live'.pc \in {"mirror", "retry"} /\ live'.chunk = live.chunk
          /\ live'.closed = live.closed /\ holder' = "none"
      BY <1>0, <2>8, Going DEF Put, Release, LiveState
    <3> QED BY <2>1, <2>8, <3>1 DEF Put, ThreadInOrder
  <2>9. CASE MirrorStatus
    BY <1>0, <2>1, <2>9, Going DEF MirrorStatus, ThreadInOrder, lock
  <2>10. CASE StartReclaim
    BY <1>0, <2>1, <2>10, Going DEF StartReclaim, Acquire, ThreadInOrder, lock
  <2> QED
    BY <1>1, <2>2, <2>3, <2>4, <2>5, <2>6, <2>7, <2>8, <2>9, <2>10, <2>11
    DEF Thread
<1>2. CASE Engine
  <2> USE DEF thread, lock, Staging
  <2>1. CASE Rotate BY <2>1 DEF Rotate, ThreadInOrder
  <2>2. CASE StopRecording BY <2>2 DEF StopRecording, ThreadInOrder
  <2>3. CASE Drained BY <2>3 DEF Drained, At, ThreadInOrder
  <2>4. CASE DrainTimeout
    <3>1. /\ live'.pc = live.pc /\ live'.chunk = live.chunk /\ live'.closed
      BY <1>0, <2>4 DEF DrainTimeout, LiveState
    <3> QED BY <2>4, <3>1 DEF DrainTimeout, ThreadInOrder
  <2>5. CASE FinalReconcile
    <3>1. Staging => results'[live.chunk] = results[live.chunk]
      <4> SUFFICES ASSUME Staging
                   PROVE  results'[live.chunk] = results[live.chunk]
        OBVIOUS
      <4>1. live.chunk \in Chunks /\ results[live.chunk] # "failed"
        BY DEF ThreadInOrder, RecordedFirst, TypeOK
      <4> QED BY <2>5, <4>1 DEF FinalReconcile
    <3> QED BY <2>5, <3>1 DEF FinalReconcile, ThreadInOrder, Staging
  <2>6. CASE Freeze BY <2>6 DEF Freeze, ThreadInOrder
  <2>7. ASSUME NEW mine, "live" \in mine, EngineEnds(mine)
        PROVE  ThreadInOrder'
    <3>1. /\ live'.pc = "off" /\ live'.chunk = live.chunk
          /\ live'.closed = live.closed
      BY <1>0, <2>7 DEF EngineEnds, LiveState
    <3>2. holder' # "live"
      BY <2>7 DEF EngineEnds, Release
    <3> QED BY <2>7, <3>1, <3>2 DEF EngineEnds, ThreadInOrder
  <2>8. CASE EngineExits BY <2>7, <2>8 DEF EngineExits
  <2>9. CASE EngineKilled BY <2>7, <2>9 DEF EngineKilled
  <2> QED
    BY <1>2, <2>1, <2>2, <2>3, <2>4, <2>5, <2>6, <2>8, <2>9 DEF Engine
<1>3. CASE Starts \/ RunStep \/ Deletes \/ Disturbance
  <2> USE DEF Staging
  <2>1. /\ UNCHANGED <<captured, seeded, results>>
        /\ EngineAlive' => EngineAlive
        /\ ~EngineAlive' => ~EngineAlive
        /\ engine' \in {"recording", "draining"}
             <=> engine \in {"recording", "draining"}
    BY <1>3, EngineStays
  <2>2. CASE EndRetention
    <3>1. holder' = "none"
      BY <2>2 DEF EndRetention, Release
    <3>2. \/ live' = live /\ holder # "live"
          \/ /\ live'.pc = "wait" /\ live'.chunk = live.chunk
             /\ live'.closed = live.closed /\ holder = "live"
      BY <1>0, <2>2 DEF EndRetention, LiveState
    <3> QED BY <2>1, <2>2, <3>1, <3>2 DEF EndRetention, ThreadInOrder
  <2>3. CASE ~EndRetention
    <3>1. live' = live
      BY <1>3, <2>3, EngineStays
    <3>2. holder' = "live" <=> holder = "live"
      <4>1. CASE Starts
        BY <4>1, StartTaken DEF Taken, Acquire, lock
      <4>2. CASE RunStep
        BY <2>3, <4>2 DEF RunStep, Retain, RouteLocal, CheckHoles, Reconcile,
           Revalidate, Produce, UploadScrubbed, UploadMedia, MarkConfirmed,
           WriteSentinel, ResumePending, SelectEvictions, EvictOne,
           UnlinkVideo, UnlinkManifest, UnlinkFile, CommitEvicted, Release,
           In, lock
      <4>3. CASE Deletes
        BY <4>3 DEF Deletes, CommitDelete, ReconcileDeletes, UnlinkCovered,
           Acquire, Release
      <4>4. CASE Disturbance
        BY <4>4 DEF Disturbance, HolderKilled, Heal, BucketLoss, Release, lock
      <4> QED BY <1>3, <4>1, <4>2, <4>3, <4>4
    <3> QED BY <2>1, <3>1, <3>2 DEF ThreadInOrder
  <2> QED BY <2>2, <2>3
<1>4. CASE UNCHANGED vars
  BY <1>4 DEF vars, ThreadInOrder, Staging
<1> QED BY <1>1, <1>2, <1>3, <1>4 DEF Next

\* RetentionKnows is inductive.
LEMMA RetentionKnowsKept ==
  ASSUME TypeOK, RetentionKnows, [Next]_vars
  PROVE  RetentionKnows'
<1>1. seeded \subseteq seeded'
  <2>1. CASE SeedChunk BY <2>1 DEF SeedChunk
  <2> QED
    BY <2>1, ThreadFootprint, EngineFootprint, StartsFootprint,
       RunStepFootprint, OtherFootprint DEF Next, vars
<1>2. \A c \in Chunks \ seeded' : row'[c].evict = "none"
  <2>1. ASSUME NEW c \in Chunks, c \notin seeded
        PROVE  row'[c].evict = "none"
    <3>1. EvictOne => c \notin run.todo
      BY <2>1 DEF EvictOne, Evicting, RetentionKnows
    <3>2. CommitEvicted => c # run.cur
      BY <2>1 DEF CommitEvicted, RetentionKnows
    <3> QED BY <2>1, <3>1, <3>2, EvictColumn DEF EvictMoves, RetentionKnows
  <2> QED BY <1>1, <2>1
<1>3. CASE UNCHANGED lock
  BY <1>1, <1>2, <1>3 DEF RetentionKnows, lock
<1>4. CASE LetGo
  BY <1>2, <1>4 DEF RetentionKnows, LetGo, Release, Idle
<1>5. ASSUME NEW who \in {"live", "run", "delete"}, NEW label \in RunLabels,
             NEW S \in SUBSET Chunks, Taken(who, label, S)
      PROVE  RetentionKnows'
  <2>1. run' = [pc |-> label, step |-> "begin", todo |-> S, cur |-> 0,
                ok |-> FALSE]
    BY <1>5 DEF Taken, Acquire, Idle
  <2>2. run'.pc = label /\ run'.step = "begin" /\ run'.todo = S
    BY <2>1
  <2>3. label \in {"resume", "evict"} => S \subseteq seeded
    BY <1>5 DEF Taken
  <2> QED BY <1>1, <1>2, <2>2, <2>3 DEF RetentionKnows
<1>6. CASE UnlinkCovered /\ \E c \in Chunks : run' = [run EXCEPT !.todo = @ \ {c}]
  <2>1. /\ run'.step = run.step /\ run'.pc = run.pc
        /\ run'.todo \subseteq run.todo
    BY <1>6 DEF TypeOK, RunState
  <2>2. run.step = "begin"
    BY <1>6 DEF UnlinkCovered, RetentionKnows
  <2> QED BY <1>1, <1>2, <2>1, <2>2 DEF RetentionKnows
<1>7. CASE RunStep /\ UNCHANGED holder /\ ~Release
  <2>1. CASE RouteStep
    <3>1. run.step = "begin"
      BY <2>1 DEF RouteStep, RetentionKnows
    <3> QED BY <1>1, <1>2, <2>1, <3>1 DEF RouteStep, RetentionKnows
  <2>2. CASE RetentionStep
    BY <1>1, <1>2, <1>7, <2>2 DEF RetentionStep, RetentionKnows
  <2>3. CASE UnlinkStep
    BY <1>1, <1>2, <1>7, <2>3 DEF UnlinkStep, RetentionKnows
  <2> QED BY <1>7, <2>1, <2>2, <2>3, RunWorks
<1>8. CASE Release
  BY <1>2, <1>8 DEF RetentionKnows, Release, Idle
<1> QED BY <1>3, <1>4, <1>5, <1>6, <1>7, <1>8, LockMoves

\* A chunk that is in its stages has just been taken, or was in them before.
LEMMA InStages ==
  ASSUME TypeOK, [Next]_vars, Staging'
  PROVE  TakeChunk \/ (Staging /\ live'.chunk = live.chunk)
<1> USE DEF Staging
<1>0. live \in LiveState
  BY DEF TypeOK
<1>1. CASE Thread
  BY <1>0, <1>1 DEF Thread, SeedChunk, StageBegins, StageFails, WriteManifest,
     StageDone, ShipNothing, ShipLock, Put, MirrorStatus, StartReclaim, At,
     Goto, LiveState
<1>2. CASE Engine
  <2>1. \/ live' = live
        \/ live' = [live EXCEPT !.closed = TRUE]
        \/ live' = [live EXCEPT !.pc = "off"]
    BY <1>2, EngineMoves
  <2> QED BY <1>0, <2>1 DEF LiveState
<1>3. CASE live' = live BY <1>3
<1>4. CASE EndRetention BY <1>0, <1>4 DEF EndRetention, LiveState
<1> QED BY <1>1, <1>2, <1>3, <1>4, EngineStays DEF Next, vars

\* What TakeChunk does, for an invariant to build on: the chunk is new to the
\* ledger and the engine has not drained its queue.
LEMMA Taking ==
  ASSUME TypeOK, ThreadInOrder, TakeChunk
  PROVE  /\ live'.chunk \in Chunks /\ live'.chunk \notin seeded
         /\ engine \in {"recording", "draining"}
         /\ UNCHANGED <<row, local, purged, lock>>
<1>1. /\ live'.chunk = live.chunk + 1 /\ live.chunk \in Nat /\ captured \in Nat
      /\ live.chunk < captured /\ captured <= MaxChunks
      /\ live.pc = "wait" /\ ~live.closed
  BY CustodyAssumption DEF TakeChunk, At, TypeOK, LiveState
<1>2. UNCHANGED <<row, local, purged, lock>>
  BY DEF TakeChunk, history
<1>3. live'.chunk \in Chunks /\ live'.chunk \notin seeded
  BY <1>1, CustodyAssumption DEF ThreadInOrder, Chunks
<1> QED BY <1>1, <1>2, <1>3 DEF ThreadInOrder

\* Under Apart nobody evicts while a chunk is in its stages.
LEMMA NobodyEvicts ==
  ASSUME TypeOK, ThreadInOrder, StagesAlone, Staging
  PROVE  holder \notin {"run", "live"} /\ EngineAlive
  BY DEF ThreadInOrder, StagesAlone, Staging

\* StagesAlone is inductive.
LEMMA StagesAloneKept ==
  ASSUME Apart, TypeOK, RecordedFirst, ThreadInOrder, RetentionKnows,
         StagesAlone, [Next]_vars
  PROVE  StagesAlone'
<1> USE DEF EngineAlive
<1>1. holder' = "run" /\ EngineAlive' => engine' = "converging"
  <2>1. CASE Thread
    <3>1. holder' = "run" => holder = "run"
      BY <2>1, ThreadFootprint DEF ShipLock, Put, StartReclaim, Acquire,
         Release, lock
    <3> QED BY <2>1, <3>1, ThreadStays DEF StagesAlone
  <2>2. CASE Engine
    BY <2>2 DEF Engine, Rotate, StopRecording, Drained, DrainTimeout,
       FinalReconcile, Freeze, EngineExits, EngineKilled, EngineEnds,
       StagesAlone, lock
  <2>3. CASE Starts
    BY <2>3 DEF Starts, Converge, ExitResume, StartupSweep, UserUpload, Apart,
       StagesAlone, lock
  <2>4. CASE RunStep \/ Deletes \/ Disturbance
    <3>1. engine' = engine \/ ~EngineAlive'
      BY <2>4, EngineStays DEF Converge, RunStep, Retain, Deletes, Disturbance,
         RouteLocal, CheckHoles, Reconcile, Revalidate, Produce,
         UploadScrubbed, UploadMedia, MarkConfirmed, WriteSentinel,
         ResumePending, SelectEvictions, EvictOne, UnlinkVideo,
         UnlinkManifest, UnlinkFile, CommitEvicted, EndRetention,
         CommitDelete, ReconcileDeletes, UnlinkCovered, HolderKilled, Heal,
         BucketLoss
    <3>2. holder' = "run" => holder = "run"
      <4>1. CASE RunStep
        BY <4>1, RunStepFootprint DEF Release
      <4>2. CASE Deletes
        BY <4>2 DEF Deletes, CommitDelete, ReconcileDeletes, UnlinkCovered,
           Acquire, Release
      <4>3. CASE Disturbance
        BY <4>3 DEF Disturbance, HolderKilled, Heal, BucketLoss, Release, lock
      <4> QED BY <2>4, <4>1, <4>2, <4>3
    <3> QED BY <3>1, <3>2 DEF StagesAlone
  <2>5. CASE UNCHANGED vars
    BY <2>5 DEF vars, StagesAlone
  <2> QED BY <2>1, <2>2, <2>3, <2>4, <2>5 DEF Next
<1>2. ASSUME Staging'
      PROVE  /\ engine' \notin {"converge", "converging"}
             /\ row'[live'.chunk].evict = "none"
  <2>1. CASE TakeChunk
    <3>1. engine' = engine
      BY <2>1 DEF TakeChunk
    <3> QED BY <2>1, <3>1, Taking DEF RetentionKnows
  <2>2. CASE Staging /\ live'.chunk = live.chunk
    <3>1. live.chunk \in Chunks
      BY <2>2 DEF RecordedFirst, TypeOK, Staging
    <3>2. ~EvictOne /\ ~CommitEvicted
      BY <2>2, NobodyEvicts DEF EvictOne, CommitEvicted, Evicting
    <3>3. row'[live'.chunk].evict = "none"
      BY <2>2, <3>1, <3>2, EvictColumn DEF EvictMoves, StagesAlone
    <3>4. ~AllEmitted
      BY <2>2, <3>1 DEF AllEmitted, ThreadInOrder
    <3>5. Freeze => engine' = "exiting"
      <4>1. Destination = "local" => ~live.closed
        BY DEF Apart, ThreadInOrder
      <4>2. Freeze => live.closed
        BY <2>2 DEF Freeze, ThreadInOrder, Staging
      <4> QED BY <3>4, <4>1, <4>2 DEF Freeze
    <3>6. engine \notin {"converge", "converging"}
      BY <2>2 DEF StagesAlone
    <3>7. CASE Engine
      BY <3>3, <3>5, <3>6, <3>7, EngineMoves
    <3>8. CASE ~Engine
      BY <3>3, <3>6, <3>8, ThreadStays, EngineStays DEF Next, vars
    <3> QED BY <3>7, <3>8
  <2> QED BY <1>2, <2>1, <2>2, InStages
<1> QED BY <1>1, <1>2 DEF StagesAlone

-----------------------------------------------------------------------------
(* EvictedStaysFree.                                                       *)

\* FreedFiles is inductive: whoever adds files to a chunk works on one that has
\* no eviction behind it.
LEMMA FreedFilesKept ==
  ASSUME TypeOK, RecordedFirst, ThreadInOrder, RetentionKnows, StagesAlone,
         FreedFiles, [Next]_vars
  PROVE  FreedFiles'
<1>1. ASSUME NEW c \in Chunks, row[c].evict = "evicted"
      PROVE  local'[c] = {}
  <2>1. local[c] = {} /\ c \in seeded
    BY <1>1 DEF FreedFiles, RetentionKnows
  <2>2. ~(Rotate /\ c = captured + 1)
    BY <2>1 DEF RecordedFirst, TypeOK
  <2>3. ~(WriteManifest /\ c = live.chunk)
    BY <1>1 DEF WriteManifest, At, StagesAlone, Staging
  <2> QED BY <2>1, <2>2, <2>3, LocalFiles DEF FilesAppear
<1>2. ASSUME NEW c \in Chunks, row'[c].evict = "evicted" PROVE local'[c] = {}
  <2>1. CASE CommitEvicted /\ c = run.cur
    BY <2>1 DEF CommitEvicted, FreedFiles
  <2>2. CASE ~(CommitEvicted /\ c = run.cur)
    <3>1. row[c].evict = "evicted"
      BY <1>2, <2>2, EvictColumn DEF EvictMoves
    <3> QED BY <1>1, <3>1
  <2> QED BY <2>1, <2>2
<1>3. \/ run'.step \notin {"manifest", "commit"}
      \/ UnlinkVideo /\ run'.cur = run.cur /\ run'.step = "manifest"
      \/ UnlinkManifest /\ run'.cur = run.cur /\ run'.step = "commit"
      \/ run'.step = run.step /\ run'.cur = run.cur
  <2>1. Release \/ LetGo => run'.step = "begin"
    BY DEF LetGo, Release, Idle
  <2>2. ASSUME NEW who, NEW label, NEW S, Taken(who, label, S)
        PROVE  run'.step = "begin"
    BY <2>2, FreshRun DEF Taken
  <2>3. (\E c \in Chunks : run' = [run EXCEPT !.todo = @ \ {c}])
          => run'.step = run.step /\ run'.cur = run.cur
    BY DEF TypeOK, RunState
  <2>4. CASE RunStep /\ UNCHANGED holder /\ ~Release
    BY <2>4, RunWorks DEF RouteStep, RetentionStep, UnlinkStep
  <2> QED BY <2>1, <2>2, <2>3, <2>4, LockMoves DEF lock
<1>4. ASSUME run.step \in {"manifest", "commit"}, run'.cur = run.cur
      PROVE  /\ run.cur \in Chunks
             /\ "video" \notin local'[run.cur]
             /\ local'[run.cur] \subseteq local[run.cur]
  <2>1. run.cur \in Chunks /\ run.cur \in seeded /\ holder \in {"run", "live"}
    BY <1>4 DEF RetentionKnows, TypeOK
  <2>2. "video" \notin local[run.cur]
    BY <1>4 DEF FreedFiles
  <2>3. ~WriteManifest
    BY <2>1, NobodyEvicts DEF WriteManifest, At, Staging
  <2>4. ~(Rotate /\ run.cur = captured + 1)
    BY <2>1 DEF RecordedFirst, TypeOK
  <2> QED BY <2>1, <2>2, <2>3, <2>4, LocalFiles DEF FilesAppear
<1>5. run'.step = "manifest" => "video" \notin local'[run'.cur]
  <2>1. CASE UnlinkVideo /\ run'.cur = run.cur
    BY <2>1 DEF UnlinkVideo, UnlinkFile, RetentionKnows, TypeOK
  <2> QED BY <1>3, <1>4, <2>1
<1>6. run'.step = "commit" => local'[run'.cur] = {}
  <2>1. CASE UnlinkManifest /\ run'.cur = run.cur
    <3>1. run.step = "manifest" /\ local' = [local EXCEPT ![run.cur] = @ \ {"manifest"}]
      BY <2>1 DEF UnlinkManifest, UnlinkFile
    <3>2. run.cur \in Chunks /\ "video" \notin local[run.cur]
      BY <3>1 DEF FreedFiles, RetentionKnows, TypeOK
    <3> QED BY <2>1, <3>1, <3>2 DEF TypeOK, Files
  <2>2. CASE run'.step = run.step /\ run'.cur = run.cur
    BY <1>4, <2>2 DEF FreedFiles
  <2> QED BY <1>3, <2>1, <2>2
<1> QED BY <1>2, <1>5, <1>6 DEF FreedFiles

\* The thread, the runs and the retention pass under Apart.
ApartInv ==
  /\ CustodyInv
  /\ ThreadInOrder
  /\ RetentionKnows
  /\ StagesAlone
  /\ FreedFiles

\* ApartInv holds at the start.
LEMMA ApartInvInit == Init => ApartInv
<1> SUFFICES ASSUME Init PROVE ApartInv
  OBVIOUS
<1>1. ThreadInOrder
  BY CustodyAssumption DEF Init, ThreadInOrder, EngineAlive, Staging
<1>2. RetentionKnows
  BY DEF Init, RetentionKnows, PendingRow, Idle
<1>3. StagesAlone
  BY DEF Init, StagesAlone, Staging
<1>4. FreedFiles
  BY DEF Init, FreedFiles, PendingRow, Idle
<1> QED BY <1>1, <1>2, <1>3, <1>4, CustodyInvInit DEF ApartInv

\* Under Apart every step preserves ApartInv.
LEMMA ApartInvKept == Apart /\ ApartInv /\ [Next]_vars => ApartInv'
<1> SUFFICES ASSUME Apart, ApartInv, [Next]_vars PROVE ApartInv'
  OBVIOUS
<1>1. TypeOK /\ RecordedFirst
  BY DEF ApartInv, CustodyInv
<1> QED
  BY <1>1, CustodyInvKept, ThreadInOrderKept, RetentionKnowsKept,
     StagesAloneKept, FreedFilesKept DEF ApartInv

\* The thread, the lock and the files keep to ApartInv throughout.
LEMMA ApartSafe ==
  ASSUME Apart
  PROVE  Spec => []ApartInv
  BY ApartInvInit, ApartInvKept, PTL DEF Spec

\* What eviction has freed stays free, for any number of chunks and kills, as
\* long as no run works on a recording that is still being processed: no
\* recovery, late stage or upload writes a file of an evicted chunk again.
THEOREM FreedSafe ==
  ASSUME Apart
  PROVE  Spec => []EvictedStaysFree
<1>1. ApartInv => EvictedStaysFree
  BY DEF ApartInv, CustodyInv, TypeOK, FreedFiles, EvictedStaysFree
<1> QED BY <1>1, ApartSafe, PTL

-----------------------------------------------------------------------------
(* SentinelMeansComplete.                                                  *)

\* A gate that is satisfied speaks of every chunk that has a row.
LEMMA GateIsEvidence ==
  ASSUME TypeOK, DeleteIsCovered, UploadedIsShipped, Gate, NEW c \in seeded
  PROVE  Shipped(c)
  BY DEF TypeOK, DeleteIsCovered, UploadedIsShipped, Gate, FinalizeGate, Shipped

\* The sentinel is written at its own step only, and the run gets there only
\* through the gate.
LEMMA SentinelMoves ==
  ASSUME TypeOK, [Next]_vars
  PROVE  /\ sentinel' = sentinel \/ run.pc = "sentinel"
         /\ run'.pc = "sentinel" => run.pc = "sentinel" \/ Gate
<1>1. sentinel' = sentinel \/ WriteSentinel
  <2>1. CASE Engine
    BY <2>1 DEF Engine, Rotate, StopRecording, Drained, DrainTimeout,
       FinalReconcile, Freeze, EngineExits, EngineKilled, EngineEnds
  <2>2. CASE Starts
    BY <2>2 DEF Starts, Converge, ExitResume, StartupSweep, UserUpload
  <2>3. CASE Deletes \/ Disturbance
    BY <2>3 DEF Deletes, CommitDelete, ReconcileDeletes, UnlinkCovered,
       Disturbance, HolderKilled, Heal, BucketLoss
  <2>4. CASE RunStep
    BY <2>4 DEF RunStep, Retain, RouteLocal, CheckHoles, Reconcile, Revalidate,
       Produce, UploadScrubbed, UploadMedia, MarkConfirmed, ResumePending,
       SelectEvictions, EvictOne, UnlinkVideo, UnlinkManifest, UnlinkFile,
       CommitEvicted, EndRetention
  <2> QED BY <2>1, <2>2, <2>3, <2>4, ThreadStays DEF Next, vars
<1>2. run'.pc = "sentinel" => run.pc = "sentinel" \/ Gate
  <2>1. Release \/ LetGo => run'.pc = "idle"
    BY DEF LetGo, Release, Idle
  <2>2. ASSUME NEW who, NEW label, NEW S, Taken(who, label, S)
        PROVE  run'.pc # "sentinel"
    BY <2>2, FreshRun DEF Taken
  <2>3. (\E c \in Chunks : run' = [run EXCEPT !.todo = @ \ {c}])
          => run'.pc = run.pc
    BY DEF TypeOK, RunState
  <2>4. CASE RunStep /\ UNCHANGED holder /\ ~Release
    BY <2>4, RunWorks DEF RouteStep, RetentionStep, UnlinkStep
  <2> QED BY <2>1, <2>2, <2>3, <2>4, LockMoves DEF lock
<1> QED BY <1>1, <1>2 DEF WriteSentinel, In

\* CountIsComplete is inductive when every drain comes to its end.
LEMMA CountIsCompleteKept ==
  ASSUME "drain_timeout" \notin Faults, CustodyInv, ThreadInOrder,
         UploadedIsShipped, CountIsComplete, [Next]_vars
  PROVE  CountIsComplete'
<1> USE DEF CustodyInv
<1>0. live \in LiveState /\ live.chunk \in Nat /\ captured \in Nat
      /\ captured <= MaxChunks
  BY CustodyAssumption DEF TypeOK, LiveState
<1>1. \/ seeded' = seeded
      \/ engine' = engine /\ engine \in {"recording", "draining"}
  <2>1. CASE SeedChunk
    <3>1. live.pc = "taken" /\ engine' = engine
      BY <2>1 DEF SeedChunk, At
    <3> QED BY <3>1 DEF ThreadInOrder
  <2> QED
    BY <2>1, ThreadFootprint, EngineFootprint, StartsFootprint,
       RunStepFootprint, OtherFootprint DEF Next, vars
<1>2. \/ captured' = captured
      \/ engine' = "recording" /\ engine = "recording" /\ expected' = expected
  <2>1. Rotate \/ captured' = captured
    BY ThreadFootprint, EngineFootprint, StartsFootprint, RunStepFootprint,
       OtherFootprint DEF Next, vars
  <2> QED BY <2>1 DEF Rotate
<1>3. \/ engine' \in {"finalize", "freeze"} => engine \in {"finalize", "freeze"}
      \/ Drained
  BY ThreadStays, EngineStays DEF Next, vars, Engine, Rotate, StopRecording,
     DrainTimeout, FinalReconcile, Freeze, EngineExits, EngineKilled, EngineEnds
<1>4. engine' \in {"finalize", "freeze"} => seeded' = 1..captured'
  <2>1. CASE Drained
    BY <2>1 DEF Drained, At, ThreadInOrder
  <2> QED BY <1>1, <1>2, <1>3, <2>1 DEF CountIsComplete
<1>5. \/ Freeze
      \/ /\ expected' = expected
         /\ engine' \in {"recording", "draining", "finalize", "freeze"}
              => engine \in {"recording", "draining", "finalize", "freeze"}
  BY ThreadStays, EngineStays DEF Next, vars, Engine, Rotate, StopRecording,
     Drained, DrainTimeout, FinalReconcile, EngineExits, EngineKilled, EngineEnds
<1>6. expected' # 0 => /\ engine' \notin {"recording", "draining", "finalize", "freeze"}
                       /\ seeded' = 1..captured'
  <2>1. CASE Freeze
    BY <2>1 DEF Freeze, CountIsComplete
  <2>2. CASE ~Freeze
    BY <1>1, <1>2, <1>5, <2>2 DEF CountIsComplete
  <2> QED BY <2>1, <2>2
<1>7. ASSUME sentinel' # 0 \/ run'.pc = "sentinel"
      PROVE  /\ expected' # 0
             /\ \A c \in 1..captured' : Shipped(c)'
  <2>1. expected # 0 /\ \A c \in 1..captured : Shipped(c)
    <3>1. CASE sentinel # 0 \/ run.pc = "sentinel"
      BY <3>1 DEF CountIsComplete, Shipped
    <3>2. CASE ~(sentinel # 0 \/ run.pc = "sentinel")
      <4>1. Gate
        BY <1>7, <3>2, SentinelMoves
      <4>2. expected # 0
        BY <4>1 DEF Gate, FinalizeGate
      <4>3. seeded = 1..captured
        BY <4>2 DEF CountIsComplete
      <4> QED BY <4>1, <4>2, <4>3, GateIsEvidence
    <3> QED BY <3>1, <3>2
  <2>2. expected' = expected /\ captured' = captured
    BY <1>2, <1>5, <2>1 DEF CountIsComplete, Freeze
  <2>3. 1..captured \subseteq Chunks
    BY <1>0, CustodyAssumption DEF Chunks
  <2> QED BY <2>1, <2>2, <2>3, ShippedStays
<1> QED BY <1>4, <1>6, <1>7 DEF CountIsComplete, Shipped

\* The sentinel of a recording that ships live and whose thread is never left
\* behind tells the truth, for any number of chunks, kills, uploads and losses:
\* once it is up the bucket has every recorded chunk that it has not lost and
\* that the user has not deleted.
THEOREM SentinelSafe ==
  ASSUME LiveUpload, "drain_timeout" \notin Faults
  PROVE  Spec => []SentinelMeansComplete
<1> DEFINE Inv == /\ CustodyInv /\ MirrorIsCovered /\ UploadedIsShipped
                  /\ ThreadInOrder /\ CountIsComplete
<1>1. Init => Inv
  <2> SUFFICES ASSUME Init PROVE Inv
    OBVIOUS
  <2>1. MirrorIsCovered /\ UploadedIsShipped
    BY DEF Init, MirrorIsCovered, UploadedIsShipped, PendingRow
  <2>2. CountIsComplete
    BY DEF Init, CountIsComplete, Idle
  <2> QED BY <2>1, <2>2, CustodyInvInit, ApartInvInit DEF ApartInv
<1>2. Inv /\ [Next]_vars => Inv'
  <2> SUFFICES ASSUME Inv, [Next]_vars PROVE Inv'
    OBVIOUS
  <2>1. TypeOK /\ RecordedFirst
    BY DEF CustodyInv
  <2> QED
    BY <2>1, CustodyInvKept, MirrorIsCoveredKept, UploadedIsShippedKept,
       ThreadInOrderKept, CountIsCompleteKept
<1>3. Inv => SentinelMeansComplete
  BY DEF CountIsComplete, SentinelMeansComplete
<1> QED BY <1>1, <1>2, <1>3, PTL DEF Spec

-----------------------------------------------------------------------------
(* DeletedStaysGone.                                                       *)

\* A chunk is purged by the delete that found its manifest.
LEMMA Purging ==
  ASSUME TypeOK, [Next]_vars, NEW c \in purged', c \notin purged
  PROVE  c \in seeded /\ "manifest" \in local[c] /\ UNCHANGED <<local, live, engine>>
<1>1. CommitDelete
  BY ThreadFootprint, EngineFootprint, StartsFootprint, RunStepFootprint,
     OtherFootprint DEF Next, vars
<1>2. PICK S \in SUBSET Placeable : purged' = purged \cup S
  BY <1>1 DEF CommitDelete
<1> QED BY <1>1, <1>2 DEF CommitDelete, Placeable, thread

\* While a chunk is in its stages no run recovers anything: if a run is at work
\* at all, it is the local route of the engine's own finalize.
LEMMA NobodyRecovers ==
  ASSUME TypeOK, ThreadInOrder, StagesUnplaceable, Staging
  PROVE  ~Produce
<1>1. EngineAlive
  BY DEF ThreadInOrder, Staging
<1>2. holder = "run" => run.pc \in {"route", "resume", "evict"}
  BY <1>1 DEF StagesUnplaceable
<1> QED BY <1>2 DEF Produce, In

\* Where runs may be at work while the engine lives: StagesUnplaceable's last
\* conjunct is inductive when nobody uploads a recording that still goes on.
LEMMA RunsWithEngine ==
  ASSUME "upload_live" \notin Faults, TypeOK, StagesUnplaceable, [Next]_vars,
         holder' = "run", EngineAlive'
  PROVE  /\ engine' = "converging"
         /\ Destination = "local" => run'.pc \in {"route", "resume", "evict"}
<1> USE DEF EngineAlive
<1>1. CASE Starts
  <2>1. CASE UNCHANGED lock
    <3>1. engine = "converging" /\ engine' = engine
      BY <1>1, <2>1 DEF Starts, Converge, ExitResume, StartupSweep, UserUpload,
         StartRun, Acquire, lock, StagesUnplaceable
    <3> QED BY <2>1, <3>1 DEF StagesUnplaceable, lock
  <2>2. CASE ~UNCHANGED lock
    <3>1. Converge /\ StartRun(Destination) /\ engine' = "converging"
      BY <1>1, <2>2 DEF Starts, Converge, ExitResume, StartupSweep, UserUpload
    <3>2. Destination = "local" => run'.pc = "route"
      BY <3>1 DEF StartRun, Acquire, Idle
    <3> QED BY <3>1, <3>2
  <2> QED BY <2>1, <2>2
<1>2. CASE Thread
  <2>1. UNCHANGED lock /\ UNCHANGED engine
    BY <1>2, ThreadFootprint, ThreadStays DEF ShipLock, Put, StartReclaim,
       Acquire, Release, lock
  <2> QED BY <2>1 DEF StagesUnplaceable, lock
<1>3. CASE Engine
  <2>1. UNCHANGED lock /\ (engine' = engine \/ engine \notin {"converging"})
    BY <1>3 DEF Engine, Rotate, StopRecording, Drained, DrainTimeout,
       FinalReconcile, Freeze, EngineExits, EngineKilled, EngineEnds, Release,
       lock
  <2>2. EngineAlive
    BY <1>3 DEF Engine, Rotate, StopRecording, Drained, DrainTimeout,
       FinalReconcile, Freeze, EngineExits, EngineKilled, EngineEnds
  <2> QED BY <2>1, <2>2 DEF StagesUnplaceable, lock
<1>4. CASE RunStep
  <2>1. engine' = engine /\ holder = "run" /\ UNCHANGED holder /\ ~Release
    BY <1>4, RunStays, RunStepFootprint DEF Release
  <2>2. CASE RouteStep
    BY <2>1, <2>2 DEF RouteStep, StagesUnplaceable
  <2>3. CASE RetentionStep \/ UnlinkStep
    BY <2>1, <2>3 DEF RetentionStep, UnlinkStep, StagesUnplaceable
  <2> QED BY <1>4, <2>1, <2>2, <2>3, RunWorks
<1>5. CASE Deletes \/ Disturbance
  <2>1. UNCHANGED lock /\ UNCHANGED engine
    BY <1>5 DEF Deletes, CommitDelete, ReconcileDeletes, UnlinkCovered,
       Disturbance, HolderKilled, Heal, BucketLoss, Acquire, Release, lock
  <2> QED BY <2>1 DEF StagesUnplaceable, lock
<1>6. CASE UNCHANGED vars
  BY <1>6 DEF vars, StagesUnplaceable, lock
<1> QED BY <1>1, <1>2, <1>3, <1>4, <1>5, <1>6 DEF Next

\* StagesUnplaceable is inductive when nobody uploads a recording that still
\* goes on: recovery is what could give a chunk its manifest early.
LEMMA StagesUnplaceableKept ==
  ASSUME "upload_live" \notin Faults, TypeOK, RecordedFirst, ThreadInOrder,
         StagesUnplaceable, [Next]_vars
  PROVE  StagesUnplaceable'
<1>0. live \in LiveState /\ live.chunk \in Nat /\ captured \in Nat
  BY CustodyAssumption DEF TypeOK, LiveState
<1>1. ASSUME Staging, live'.chunk = live.chunk, Staging'
      PROVE  /\ "manifest" \notin local'[live.chunk]
             /\ live.chunk \notin purged'
  <2>1. live.chunk \in Chunks /\ live.chunk <= captured
    BY <1>1 DEF RecordedFirst, TypeOK, Staging
  <2>2. "manifest" \notin local[live.chunk] /\ live.chunk \notin purged
    BY <1>1 DEF StagesUnplaceable
  <2>3. ~WriteManifest
    BY <1>0, <1>1, Going DEF WriteManifest, Staging
  <2>4. live.chunk # captured + 1
    BY <1>0, <2>1
  <2> QED BY <1>1, <2>1, <2>2, <2>3, <2>4, NobodyRecovers, LocalFiles, Purging
          DEF FilesAppear
<1>2. ASSUME TakeChunk
      PROVE  /\ "manifest" \notin local'[live'.chunk]
             /\ live'.chunk \notin purged'
             /\ engine' \in {"recording", "draining"}
  <2>1. live.pc = "wait" /\ ~live.closed /\ live'.chunk > live.chunk
    BY <1>0, <1>2 DEF TakeChunk, At, LiveState
  <2>2. "manifest" \notin local[live'.chunk]
    BY <1>2, <2>1, Taking DEF StagesUnplaceable
  <2> QED BY <1>2, <2>2, Taking DEF RecordedFirst, TakeChunk
<1>3. ASSUME ~live'.closed, live'.pc # "off", NEW c \in Chunks, c > live'.chunk
      PROVE  "manifest" \notin local'[c]
  <2>1. /\ ~live.closed /\ live.pc # "off"
        /\ live'.chunk \in Nat /\ live'.chunk >= live.chunk
    <3>1. CASE Thread
      BY <1>0, <1>3, <3>1, ThreadMoves
    <3>2. CASE Engine
      BY <1>0, <1>3, <3>2, EngineMoves DEF LiveState
    <3>3. CASE EndRetention
      <4>1. live' = live \/ (holder = "live" /\ live' = [live EXCEPT !.pc = "wait"])
        BY <3>3 DEF EndRetention
      <4> QED BY <1>0, <1>3, <4>1 DEF LiveState, ThreadInOrder
    <3>4. CASE live' = live
      BY <1>0, <1>3, <3>4
    <3> QED BY <3>1, <3>2, <3>3, <3>4, EngineStays DEF Next, vars
  <2>2. "manifest" \notin local[c] /\ c # live.chunk
    BY <1>0, <1>3, <2>1, CustodyAssumption DEF StagesUnplaceable, Chunks
  <2>3. CASE Rotate
    BY <2>2, <2>3 DEF Rotate, TypeOK
  <2>4. CASE Produce
    <3>1. EngineAlive /\ engine = "converging"
      BY <2>1, <2>4 DEF Produce, In, ThreadInOrder, StagesUnplaceable
    <3>2. live.chunk = captured
      BY <2>1, <3>1 DEF ThreadInOrder
    <3>3. "video" \notin local[c]
      BY <1>0, <1>3, <2>1, <3>2, CustodyAssumption DEF RecordedFirst, Chunks
    <3> QED BY <2>2, <2>4, <3>3 DEF Produce, Rebuilt, TypeOK
  <2> QED BY <2>2, <2>3, <2>4, LocalFiles DEF FilesAppear
<1>4. ASSUME Staging, live'.chunk = live.chunk, engine' \in {"converge", "converging"}
      PROVE  Destination = "local"
  <2>1. live.chunk \in Chunks /\ ~AllEmitted
    BY <1>4 DEF RecordedFirst, TypeOK, Staging, AllEmitted, ThreadInOrder
  <2>2. CASE Freeze
    BY <1>4, <2>1, <2>2 DEF Freeze
  <2>3. CASE ~Freeze
    <3>1. engine \in {"converge", "converging"}
      BY <1>4, <2>3, EngineMoves, EngineStays, ThreadStays DEF Next, vars
    <3> QED BY <1>4, <3>1 DEF StagesUnplaceable
  <2> QED BY <2>2, <2>3
<1>5. Staging' => /\ "manifest" \notin local'[live'.chunk]
                  /\ live'.chunk \notin purged'
                  /\ engine' \in {"converge", "converging"} => Destination = "local"
  BY <1>1, <1>2, <1>4, InStages
<1> QED BY <1>3, <1>5, RunsWithEngine DEF StagesUnplaceable

\* Once the files of a chunk the user deleted are gone nothing brings any of them
\* back, neither a late stage nor the recovery of an upload or a resume, kills
\* and drains that time out included: for every recording that nobody uploads
\* while it still goes on.
THEOREM DeletedSafe ==
  ASSUME "upload_live" \notin Faults
  PROVE  Spec => DeletedStaysGone
<1> DEFINE Inv == CustodyInv /\ ThreadInOrder /\ StagesUnplaceable
<1>1. Init => Inv
  <2>1. Init => StagesUnplaceable
    BY DEF Init, StagesUnplaceable, Staging
  <2> QED BY <2>1, ApartInvInit DEF ApartInv
<1>2. Inv /\ [Next]_vars => Inv'
  BY CustodyInvKept, ThreadInOrderKept, StagesUnplaceableKept DEF CustodyInv
<1>3. Inv /\ [Next]_vars
        => [\A c \in purged : local[c] = {} => local'[c] = {}]_vars
  <2> SUFFICES ASSUME Inv, [Next]_vars, NEW c \in purged, local[c] = {}
               PROVE  local'[c] = {}
    OBVIOUS
  <2>1. c \in Chunks /\ c # captured + 1
    BY DEF CustodyInv, RecordedFirst, TypeOK
  <2>2. ~(WriteManifest /\ c = live.chunk)
    BY DEF WriteManifest, At, StagesUnplaceable, Staging
  <2> QED BY <2>1, <2>2, LocalFiles DEF CustodyInv, FilesAppear
<1> QED BY <1>1, <1>2, <1>3, PTL DEF Spec, DeletedStaysGone
=============================================================================
