--------------------------- MODULE CustodyProofs ---------------------------
(***************************************************************************)
(* Proofs about Custody, for any number of chunks, any policy, any set of  *)
(* faults and any number of kills: no footage is lost, a row says uploaded *)
(* only of a chunk that was shipped, and a cloud recording's pipeline      *)
(* implements ChunkCustody.                                                *)
(*                                                                         *)
(* The argument runs in four layers: what types a step preserves, which    *)
(* variables each actor may touch at all, which way rows and videos move   *)
(* in the few steps that touch them, and the invariant on top of these.    *)
(***************************************************************************)
EXTENDS Custody, FiniteSetTheorems, TLAPS

-----------------------------------------------------------------------------
(* Types.                                                                  *)

\* The ledger transitions take rows to rows.
LEMMA RowOps ==
  ASSUME NEW r \in Row
  PROVE  /\ PendingRow \in Row /\ MarkStaged(r) \in Row
         /\ MarkUploaded(r) \in Row /\ MarkLocalDone(r) \in Row
         /\ MarkFailed(r) \in Row /\ MarkUserDeleted(r) \in Row
         /\ BeginEviction(r) \in Row /\ CommitEviction(r) \in Row
  BY DEF Row, Lifecycle, UploadState, EvictState, PendingRow, MarkStaged,
         MarkUploaded, MarkLocalDone, MarkFailed, MarkUserDeleted,
         BeginEviction, CommitEviction

\* The moves of the chunk-processor thread stay within its states.
LEMMA LiveMoves ==
  ASSUME live \in LiveState, NEW label \in LiveLabels
  PROVE  /\ [live EXCEPT !.pc = label] \in LiveState
         /\ [live EXCEPT !.closed = TRUE] \in LiveState
         /\ [live EXCEPT !.pc = label, !.again = TRUE] \in LiveState
         /\ live.chunk \in 0..MaxChunks
  BY DEF LiveState

\* The lock holder may go to any label with any chunks to visit.
LEMMA RunMoves ==
  ASSUME run \in RunState, NEW label \in RunLabels, NEW S \in SUBSET Chunks
  PROVE  /\ [run EXCEPT !.pc = label, !.todo = S] \in RunState
         /\ [run EXCEPT !.pc = label, !.todo = S, !.ok = TRUE] \in RunState
         /\ [Idle EXCEPT !.pc = label, !.todo = S] \in RunState
<1>1. [run EXCEPT !.pc = label, !.todo = S] \in RunState
  BY DEF RunState
<1>2. [run EXCEPT !.pc = label, !.todo = S, !.ok = TRUE] \in RunState
  BY DEF RunState
<1>3. 0 \in 0..MaxChunks /\ "begin" \in EvictSteps
  BY CustodyAssumption DEF EvictSteps
<1>4. [Idle EXCEPT !.pc = label, !.todo = S] \in RunState
  BY <1>3 DEF RunState, Idle
<1> QED BY <1>1, <1>2, <1>4

\* The lock holder may take a chunk off its list, to unlink it or not.
LEMMA RunVisits ==
  ASSUME run \in RunState, NEW c \in Chunks
  PROVE  /\ [run EXCEPT !.todo = @ \ {c}] \in RunState
         /\ [run EXCEPT !.todo = @ \ {c}, !.cur = c, !.step = "video"]
              \in RunState
<1>1. [run EXCEPT !.todo = @ \ {c}] \in RunState
  BY DEF RunState
<1>2. c \in 0..MaxChunks /\ "video" \in EvictSteps
  BY CustodyAssumption DEF Chunks, EvictSteps
<1>3. [run EXCEPT !.todo = @ \ {c}, !.cur = c, !.step = "video"] \in RunState
  BY <1>2 DEF RunState
<1> QED BY <1>1, <1>3

\* The lock holder may go from one eviction step to another.
LEMMA RunUnlinks ==
  ASSUME run \in RunState, NEW s \in EvictSteps
  PROVE  /\ [run EXCEPT !.step = s] \in RunState
         /\ [run EXCEPT !.step = "begin", !.cur = 0] \in RunState
         /\ Idle \in RunState
         /\ run.todo \in SUBSET Chunks
         /\ run.cur \in 0..MaxChunks
<1>1. 0 \in 0..MaxChunks /\ "begin" \in EvictSteps /\ "idle" \in RunLabels
  BY CustodyAssumption DEF EvictSteps, RunLabels
<1>2. [run EXCEPT !.step = "begin", !.cur = 0] \in RunState
  BY <1>1 DEF RunState
<1>3. Idle \in RunState
  BY <1>1 DEF RunState, Idle
<1> QED BY <1>2, <1>3 DEF RunState

\* The labels that the actions use.
LEMMA Labels ==
  /\ {"wait", "taken", "head", "stage", "mark", "ship", "put", "retry",
      "mirror", "evict", "off"} \subseteq LiveLabels
  /\ {"idle", "route", "holes", "reconcile", "revalidate", "produce", "upload",
      "media", "mark", "sentinel", "resume", "evict"} \subseteq RunLabels
  /\ {"begin", "video", "manifest", "commit"} \subseteq EvictSteps
  BY DEF LiveLabels, RunLabels, EvictSteps

\* A set of chunks has at most MaxChunks members.
LEMMA CardinalityBound ==
  ASSUME NEW S \in SUBSET Chunks
  PROVE  Cardinality(S) \in 0..MaxChunks
<1>1. IsFiniteSet(Chunks) /\ Cardinality(Chunks) = MaxChunks
  BY CustodyAssumption, FS_Interval DEF Chunks
<1>2. IsFiniteSet(S) /\ Cardinality(S) <= MaxChunks /\ Cardinality(S) \in Nat
  BY <1>1, FS_Subset, FS_CardinalityType
<1> QED BY <1>2, CustodyAssumption

Holders == {"none", "live", "run", "delete"}

\* Taking the lock keeps the types of the lock and its holder.
LEMMA Acquires ==
  ASSUME NEW who \in {"live", "run", "delete"}, NEW label \in RunLabels,
         NEW S \in SUBSET Chunks, run \in RunState, Acquire(who, label, S)
  PROVE  holder' \in Holders /\ run' \in RunState
<1>1. [Idle EXCEPT !.pc = label, !.todo = S] \in RunState
  BY RunMoves
<1> QED BY <1>1 DEF Acquire, Holders

\* Releasing the lock keeps the types of the lock and its holder.
LEMMA Releases ==
  ASSUME run \in RunState, Release
  PROVE  holder' \in Holders /\ run' \in RunState
<1>1. Idle \in RunState
  BY RunUnlinks, Labels
<1> QED BY <1>1 DEF Release, Holders

\* The chunk-processor thread keeps the types.
LEMMA ThreadTyped == TypeOK /\ RecordedFirst /\ Thread => TypeOK'
<1> SUFFICES ASSUME TypeOK, RecordedFirst, Thread PROVE TypeOK'
  OBVIOUS
<1> USE CustodyAssumption, Labels DEF TypeOK, At, Goto, Settle, thread, lock, env, history
<1>1. CASE TakeChunk
  <2>1. live.chunk + 1 \in Chunks /\ live.chunk + 1 \in 0..MaxChunks
    BY <1>1 DEF TakeChunk, Chunks, LiveState
  <2>2. live' \in LiveState BY <1>1, <2>1 DEF TakeChunk, LiveState
  <2>3. results' \in [Chunks -> Results]
    BY <1>1, <2>1 DEF TakeChunk, Results
  <2> QED BY <1>1, <2>2, <2>3 DEF TakeChunk
<1>2. CASE StageBegins
  <2>1. live' \in LiveState BY <1>2, LiveMoves DEF StageBegins
  <2> QED BY <1>2, <2>1 DEF StageBegins
<1>10. CASE StageFails
  <2>1. live' \in LiveState BY <1>10, LiveMoves DEF StageFails
  <2>2. results' \in [Chunks -> Results] BY <1>10 DEF StageFails, Results
  <2> QED BY <1>10, <2>1, <2>2 DEF StageFails
<1>11. CASE SeedChunk
  <2>1. live' \in LiveState BY <1>11, LiveMoves DEF SeedChunk
  <2>2. seeded' \in SUBSET Chunks
    BY <1>11 DEF SeedChunk, RecordedFirst
  <2> QED BY <1>11, <2>1, <2>2 DEF SeedChunk
<1>3. CASE WriteManifest
  <2>1. live' \in LiveState BY <1>3, LiveMoves DEF WriteManifest
  <2>2. local' \in [Chunks -> SUBSET Files] BY <1>3 DEF WriteManifest, Files
  <2> QED BY <1>3, <2>1, <2>2 DEF WriteManifest
<1>4. CASE StageDone
  <2>1. live' \in LiveState BY <1>4, LiveMoves DEF StageDone
  <2>2. row' \in [Chunks -> Row] BY <1>4, RowOps DEF StageDone
  <2> QED BY <1>4, <2>1, <2>2 DEF StageDone
<1>5. CASE ShipNothing
  <2>1. live' \in LiveState BY <1>5, LiveMoves DEF ShipNothing
  <2>2. results' \in [Chunks -> Results] BY <1>5 DEF ShipNothing, Results
  <2> QED BY <1>5, <2>1, <2>2 DEF ShipNothing
<1>6. CASE ShipLock
  <2>1. live' \in LiveState BY <1>6, LiveMoves DEF ShipLock
  <2>2. run' \in RunState /\ holder' \in Holders
    BY <1>6, Acquires DEF ShipLock, Holders
  <2> QED BY <1>6, <2>1, <2>2 DEF ShipLock, Holders
<1>7. CASE Put
  <2>1. live' \in LiveState
    <3>1. \/ live' = [live EXCEPT !.pc = "mirror"]
          \/ live' = [live EXCEPT !.pc = "retry", !.again = TRUE]
      BY <1>7 DEF Put
    <3> QED BY <3>1, LiveMoves
  <2>2. run' \in RunState /\ holder' \in Holders
    BY <1>7, Releases DEF Put
  <2>3. remote' \in [Chunks -> SUBSET Files]
    <3>1. local[live.chunk] \subseteq Files \/ live.chunk \notin Chunks
      OBVIOUS
    <3>2. \/ remote' = remote
          \/ \E S \in SUBSET local[live.chunk] :
               remote' = [remote EXCEPT ![live.chunk] = @ \cup S]
      BY <1>7 DEF Put
    <3> QED BY <3>1, <3>2
  <2>4. results' \in [Chunks -> Results] BY <1>7 DEF Put, Results
  <2> QED BY <1>7, <2>1, <2>2, <2>3, <2>4 DEF Put, Holders
<1>8. CASE MirrorStatus
  <2>1. live' \in LiveState BY <1>8, LiveMoves DEF MirrorStatus
  <2>2. row' \in [Chunks -> Row] BY <1>8, RowOps DEF MirrorStatus, Mirrored
  <2> QED BY <1>8, <2>1, <2>2 DEF MirrorStatus
<1>9. CASE StartReclaim
  <2>1. live' \in LiveState BY <1>9, LiveMoves DEF StartReclaim
  <2>2. {c \in seeded : row[c].evict = "evict_pending"} \in SUBSET Chunks
    OBVIOUS
  <2>3. run' \in RunState /\ holder' \in Holders
    BY <1>9, <2>2, Acquires DEF StartReclaim, Holders
  <2> QED BY <1>9, <2>1, <2>3 DEF StartReclaim, Holders
<1> QED
  BY <1>1, <1>2, <1>3, <1>4, <1>5, <1>6, <1>7, <1>8, <1>9, <1>10,
     <1>11 DEF Thread

\* The recorder, stop, finalize and the end of the engine keep the types.
LEMMA EngineTyped == TypeOK /\ Engine => TypeOK'
<1> SUFFICES ASSUME TypeOK, Engine PROVE TypeOK'
  OBVIOUS
<1> USE CustodyAssumption, Labels DEF TypeOK, At, thread, lock, env, history
<1>1. CASE Rotate BY <1>1 DEF Rotate, Chunks, Files
<1>2. CASE StopRecording BY <1>2 DEF StopRecording, EngineState
<1>3. CASE Drained BY <1>3 DEF Drained, EngineState
<1>4. CASE DrainTimeout
  <2>1. live' \in LiveState BY <1>4, LiveMoves DEF DrainTimeout
  <2> QED BY <1>4, <2>1 DEF DrainTimeout, EngineState
<1>5. CASE FinalReconcile
  <2>1. row' \in [Chunks -> Row] BY <1>5, RowOps DEF FinalReconcile
  <2>2. results' \in [Chunks -> Results] BY <1>5 DEF FinalReconcile, Results
  <2> QED BY <1>5, <2>1, <2>2 DEF FinalReconcile, EngineState
<1>6. CASE Freeze
  <2>1. expected' \in 0..MaxChunks
    BY <1>6, CardinalityBound DEF Freeze
  <2> QED BY <1>6, <2>1 DEF Freeze, EngineState
<1>7. ASSUME NEW S, EngineEnds(S), crashes' \in 0..MaxCrashes PROVE TypeOK'
  <2>1. live' \in LiveState BY <1>7, LiveMoves DEF EngineEnds
  <2>2. run' \in RunState /\ holder' \in Holders
    BY <1>7, Releases DEF EngineEnds, Holders
  <2> QED BY <1>7, <2>1, <2>2 DEF EngineEnds, Holders, EngineState
<1>8. CASE EngineExits BY <1>8, <1>7 DEF EngineExits
<1>9. CASE EngineKilled
  <2>1. crashes' \in 0..MaxCrashes BY <1>9 DEF EngineKilled
  <2> QED BY <1>9, <2>1, <1>7 DEF EngineKilled
<1> QED
  BY <1>1, <1>2, <1>3, <1>4, <1>5, <1>6, <1>8, <1>9 DEF Engine

\* A terminal run starts with well-typed state.
LEMMA StartTyped ==
  ASSUME TypeOK, NEW d \in {"local", "cloud"}, StartRun(d)
  PROVE  holder' \in Holders /\ run' \in RunState
<1>1. FirstTodo(d) \in SUBSET Chunks
  BY DEF FirstTodo, TypeOK
<1> QED
  BY <1>1, Acquires, Labels DEF StartRun, TypeOK

\* Whoever starts a terminal run keeps the types.
LEMMA StartsTyped == TypeOK /\ Starts => TypeOK'
<1> SUFFICES ASSUME TypeOK, Starts PROVE TypeOK'
  OBVIOUS
<1> USE DEF TypeOK, thread, lock, env, history, EngineState
<1>1. CASE Converge
  <2>1. run' \in RunState /\ holder' \in Holders
    BY <1>1, StartTyped, CustodyAssumption DEF Converge, Holders
  <2> QED BY <1>1, <2>1 DEF Converge, Holders
<1>2. CASE ExitResume
  <2>1. run' \in RunState /\ holder' \in Holders
    BY <1>2, StartTyped, CustodyAssumption DEF ExitResume, Holders
  <2> QED BY <1>2, <2>1 DEF ExitResume, Holders
<1>3. CASE StartupSweep
  <2>1. run' \in RunState /\ holder' \in Holders
    BY <1>3, StartTyped DEF StartupSweep
  <2> QED BY <1>3, <2>1 DEF StartupSweep, Holders
<1>4. CASE UserUpload
  <2>1. run' \in RunState /\ holder' \in Holders
    BY <1>4, StartTyped DEF UserUpload
  <2> QED BY <1>4, <2>1 DEF UserUpload, Holders
<1> QED BY <1>1, <1>2, <1>3, <1>4 DEF Starts

\* The moves of the lock holder, in the words of TerminalStage.
LEMMA Steps ==
  ASSUME TypeOK, NEW label \in RunLabels, NEW S \in SUBSET Chunks,
         Step(label, S)
  PROVE  run' \in RunState
  BY RunMoves DEF Step, TypeOK

\* A visit of a loop keeps the type of the lock holder.
LEMMA Visiting ==
  ASSUME TypeOK, NEW c \in Chunks, Visited(c) \/ Skip(c) \/ Unlink(c)
  PROVE  run' \in RunState
<1>1. run \in RunState BY DEF TypeOK
<1>2. CASE Visited(c) BY <1>1, <1>2, RunVisits DEF Visited
<1>3. CASE Skip(c) BY <1>1, <1>3, RunVisits DEF Skip
<1>4. CASE Unlink(c) BY <1>1, <1>4, RunVisits DEF Unlink
<1> QED BY <1>2, <1>3, <1>4

\* The loops go over sets of chunks.
LEMMA Todos ==
  ASSUME TypeOK
  PROVE  /\ NotUploaded \in SUBSET Chunks /\ PendingEvictions \in SUBSET Chunks
         /\ Sample \in SUBSET Chunks /\ MediaTodo \in SUBSET Chunks
         /\ MarkTodo \in SUBSET Chunks /\ Candidates \in SUBSET Chunks
         /\ {} \in SUBSET Chunks
  BY DEF TypeOK, NotUploaded, PendingEvictions, Sample, MediaTodo, MarkTodo,
         Candidates

\* A retention policy selects chunks.
LEMMA Selected ==
  ASSUME TypeOK, NEW keep, NEW S \in Selections(keep)
  PROVE  S \in SUBSET Chunks
<1>1. Candidates \in SUBSET Chunks
  BY Todos
<1>2. S \subseteq Candidates
  BY CustodyAssumption DEF Selections
<1> QED BY <1>1, <1>2

\* A step of the lock holder keeps the types.
LEMMA RunStepTyped == TypeOK /\ RunStep => TypeOK'
<1> SUFFICES ASSUME TypeOK, RunStep PROVE TypeOK'
  OBVIOUS
<1> USE Labels DEF TypeOK, thread, lock, env, history
<1>1. CASE RouteLocal
  <2>1. run' \in RunState BY <1>1, Steps, Visiting, Todos DEF RouteLocal
  <2>2. row' \in [Chunks -> Row] BY <1>1, RowOps DEF RouteLocal
  <2> QED BY <1>1, <2>1, <2>2 DEF RouteLocal
<1>2. CASE CheckHoles
  <2>1. run' \in RunState /\ holder' \in Holders
    BY <1>2, Steps, Releases, Todos DEF CheckHoles, Holders
  <2> QED BY <1>2, <2>1 DEF CheckHoles, Holders
<1>3. CASE Reconcile
  <2>1. run' \in RunState BY <1>3, Steps, Visiting, Todos DEF Reconcile
  <2>2. row' \in [Chunks -> Row] BY <1>3, RowOps DEF Reconcile
  <2> QED BY <1>3, <2>1, <2>2 DEF Reconcile
<1>4. CASE Revalidate
  <2>1. run' \in RunState BY <1>4, Steps, Visiting, Todos DEF Revalidate
  <2>2. row' \in [Chunks -> Row] BY <1>4, RowOps DEF Revalidate
  <2> QED BY <1>4, <2>1, <2>2 DEF Revalidate
<1>5. CASE Produce
  <2>1. run' \in RunState /\ holder' \in Holders
    BY <1>5, Steps, Releases, Todos DEF Produce, Holders
  <2>2. local' \in [Chunks -> SUBSET Files] BY <1>5 DEF Produce, Rebuilt
  <2> QED BY <1>5, <2>1, <2>2 DEF Produce, Holders
<1>6. CASE UploadScrubbed
  <2>1. run' \in RunState /\ holder' \in Holders
    <3>1. [run EXCEPT !.pc = "media", !.todo = MediaTodo, !.ok = TRUE]
            \in RunState
      BY RunMoves, Todos
    <3> QED BY <1>6, <3>1, Steps, Releases, Todos DEF UploadScrubbed, Holders
  <2>2. remote' \in [Chunks -> SUBSET Files] BY <1>6 DEF UploadScrubbed, Files
  <2> QED BY <1>6, <2>1, <2>2 DEF UploadScrubbed, Holders
<1>7. CASE UploadMedia
  <2>1. run' \in RunState BY <1>7, Steps, Visiting, Todos DEF UploadMedia
  <2>2. remote' \in [Chunks -> SUBSET Files] BY <1>7 DEF UploadMedia, Files
  <2> QED BY <1>7, <2>1, <2>2 DEF UploadMedia
<1>8. CASE MarkConfirmed
  <2>1. run' \in RunState BY <1>8, Steps, Visiting, Todos DEF MarkConfirmed
  <2>2. row' \in [Chunks -> Row] BY <1>8, RowOps DEF MarkConfirmed
  <2> QED BY <1>8, <2>1, <2>2 DEF MarkConfirmed
<1>9. CASE WriteSentinel
  <2>1. run' \in RunState BY <1>9, Steps, Todos DEF WriteSentinel
  <2> QED BY <1>9, <2>1 DEF WriteSentinel
<1>10. CASE ResumePending
  <2>1. run' \in RunState BY <1>10, Visiting DEF ResumePending
  <2> QED BY <1>10, <2>1 DEF ResumePending
<1>11. CASE SelectEvictions
  <2>1. run' \in RunState BY <1>11, Steps, Selected DEF SelectEvictions
  <2> QED BY <1>11, <2>1 DEF SelectEvictions
<1>12. CASE EvictOne
  <2>1. run' \in RunState BY <1>12, Visiting DEF EvictOne
  <2>2. row' \in [Chunks -> Row] BY <1>12, RowOps DEF EvictOne
  <2> QED BY <1>12, <2>1, <2>2 DEF EvictOne
<1>13. CASE UnlinkVideo
  <2>1. run' \in RunState
    BY <1>13, RunUnlinks DEF UnlinkVideo, UnlinkFile
  <2> QED BY <1>13, <2>1 DEF UnlinkVideo, UnlinkFile
<1>14. CASE UnlinkManifest
  <2>1. run' \in RunState
    BY <1>14, RunUnlinks DEF UnlinkManifest, UnlinkFile
  <2> QED BY <1>14, <2>1 DEF UnlinkManifest, UnlinkFile
<1>15. CASE CommitEvicted
  <2>1. run' \in RunState BY <1>15, RunUnlinks DEF CommitEvicted
  <2>2. row' \in [Chunks -> Row] BY <1>15, RowOps DEF CommitEvicted
  <2> QED BY <1>15, <2>1, <2>2 DEF CommitEvicted
<1>16. CASE EndRetention
  <2>1. live' \in LiveState BY <1>16, LiveMoves DEF EndRetention
  <2>2. run' \in RunState /\ holder' \in Holders
    BY <1>16, Releases DEF EndRetention
  <2> QED BY <1>16, <2>1, <2>2 DEF EndRetention, Holders
<1> QED
  BY <1>1, <1>2, <1>3, <1>4, <1>5, <1>6, <1>7, <1>8, <1>9, <1>10, <1>11,
     <1>12, <1>13, <1>14, <1>15, <1>16 DEF RunStep, Retain

\* The delete job keeps the types.
LEMMA DeletesTyped == TypeOK /\ Deletes => TypeOK'
<1> SUFFICES ASSUME TypeOK, Deletes PROVE TypeOK'
  OBVIOUS
<1> USE Labels DEF TypeOK, thread, lock, env, history
<1>1. CASE CommitDelete
  <2>1. PICK S \in (SUBSET Placeable) \ {{}} :
          /\ Acquire("delete", "idle", S)
          /\ row' = [c \in Chunks |-> IF c \in S THEN MarkUserDeleted(row[c])
                                                 ELSE row[c]]
          /\ purged' = purged \cup S
    BY <1>1 DEF CommitDelete
  <2>2. S \in SUBSET Chunks BY DEF Placeable
  <2>3. run' \in RunState /\ holder' \in Holders BY <2>1, <2>2, Acquires
  <2>4. row' \in [Chunks -> Row] BY <2>1, RowOps
  <2> QED BY <1>1, <2>1, <2>2, <2>3, <2>4 DEF CommitDelete, Holders
<1>2. CASE ReconcileDeletes
  <2>1. UserDeleted \in SUBSET Chunks BY DEF UserDeleted
  <2>2. run' \in RunState /\ holder' \in Holders
    BY <1>2, <2>1, Acquires DEF ReconcileDeletes
  <2> QED BY <1>2, <2>2 DEF ReconcileDeletes, Holders
<1>3. CASE UnlinkCovered
  <2>1. run' \in RunState /\ holder' \in Holders
    BY <1>3, RunVisits, Releases DEF UnlinkCovered, Holders
  <2>2. local' \in [Chunks -> SUBSET Files] BY <1>3 DEF UnlinkCovered
  <2> QED BY <1>3, <2>1, <2>2 DEF UnlinkCovered, Holders
<1> QED BY <1>1, <1>2, <1>3 DEF Deletes

\* Kills, losses and the network keep the types.
LEMMA DisturbanceTyped == TypeOK /\ Disturbance => TypeOK'
<1> SUFFICES ASSUME TypeOK, Disturbance PROVE TypeOK'
  OBVIOUS
<1> USE CustodyAssumption DEF TypeOK, thread, lock, env, history
<1>1. CASE HolderKilled
  <2>1. run' \in RunState /\ holder' \in Holders
    BY <1>1, Releases DEF HolderKilled
  <2> QED BY <1>1, <2>1 DEF HolderKilled, Holders, EngineState
<1>2. CASE Heal BY <1>2 DEF Heal
<1>3. CASE \E c \in Chunks : BucketLoss(c) BY <1>3 DEF BucketLoss
<1> QED BY <1>1, <1>2, <1>3 DEF Disturbance

\* Every step keeps the types.
LEMMA NextTyped == TypeOK /\ RecordedFirst /\ [Next]_vars => TypeOK'
<1> SUFFICES ASSUME TypeOK, RecordedFirst, [Next]_vars PROVE TypeOK'
  OBVIOUS
<1>1. CASE UNCHANGED vars
  BY <1>1 DEF vars, TypeOK
<1> QED
  BY <1>1, EngineTyped, ThreadTyped, StartsTyped, RunStepTyped, DeletesTyped,
     DisturbanceTyped DEF Next

-----------------------------------------------------------------------------
(* What a step can touch.                                                  *)

\* What the chunk-processor thread may touch, and in which steps.
LEMMA ThreadFootprint ==
  ASSUME Thread
  PROVE  /\ local' = local \/ WriteManifest
         /\ remote' = remote \/ Put
         /\ row' = row \/ StageDone \/ MirrorStatus
         /\ seeded' = seeded \/ SeedChunk
         /\ UNCHANGED <<captured, purged, lost>>
         /\ UNCHANGED lock \/ ShipLock \/ Put \/ StartReclaim
<1> USE DEF lock, env, history, thread
<1>1. CASE TakeChunk BY <1>1 DEF TakeChunk
<1>2. CASE SeedChunk \/ StageBegins \/ StageFails
  BY <1>2 DEF SeedChunk, StageBegins, StageFails
<1>3. CASE WriteManifest BY <1>3 DEF WriteManifest
<1>4. CASE StageDone BY <1>4 DEF StageDone
<1>5. CASE ShipNothing BY <1>5 DEF ShipNothing
<1>6. CASE ShipLock BY <1>6 DEF ShipLock
<1>7. CASE Put BY <1>7 DEF Put
<1>8. CASE MirrorStatus BY <1>8 DEF MirrorStatus
<1>9. CASE StartReclaim BY <1>9 DEF StartReclaim
<1> QED
  BY <1>1, <1>2, <1>3, <1>4, <1>5, <1>6, <1>7, <1>8, <1>9 DEF Thread

\* What the recorder and the end of the engine may touch.
LEMMA EngineFootprint ==
  ASSUME Engine
  PROVE  /\ local' = local \/ Rotate
         /\ row' = row \/ FinalReconcile
         /\ captured' = captured \/ Rotate
         /\ UNCHANGED <<remote, seeded, purged, lost>>
         /\ UNCHANGED lock \/ Release
<1> USE DEF lock, env, history, thread
<1>1. CASE Rotate BY <1>1 DEF Rotate
<1>2. CASE StopRecording BY <1>2 DEF StopRecording
<1>3. CASE Drained BY <1>3 DEF Drained
<1>4. CASE DrainTimeout BY <1>4 DEF DrainTimeout
<1>5. CASE FinalReconcile BY <1>5 DEF FinalReconcile
<1>6. CASE Freeze BY <1>6 DEF Freeze
<1>7. CASE EngineExits BY <1>7 DEF EngineExits, EngineEnds
<1>8. CASE EngineKilled BY <1>8 DEF EngineKilled, EngineEnds
<1> QED
  BY <1>1, <1>2, <1>3, <1>4, <1>5, <1>6, <1>7, <1>8 DEF Engine

\* Starting a terminal run touches only the lock.
LEMMA StartsFootprint ==
  ASSUME Starts
  PROVE  /\ UNCHANGED <<captured, seeded, row, local, remote, live, results,
                        purged, lost>>
         /\ UNCHANGED lock \/ \E d \in {"local", "cloud"} : StartRun(d)
<1> USE CustodyAssumption DEF lock, env, history, thread
<1>1. CASE Converge BY <1>1 DEF Converge
<1>2. CASE ExitResume BY <1>2 DEF ExitResume
<1>3. CASE StartupSweep BY <1>3 DEF StartupSweep
<1>4. CASE UserUpload BY <1>4 DEF UserUpload
<1> QED BY <1>1, <1>2, <1>3, <1>4 DEF Starts

\* What the lock holder may touch, and in which steps.
LEMMA RunStepFootprint ==
  ASSUME RunStep
  PROVE  /\ local' = local \/ Produce \/ UnlinkVideo \/ UnlinkManifest
         /\ remote' = remote \/ UploadScrubbed \/ UploadMedia
         /\ row' = row \/ RouteLocal \/ Reconcile \/ Revalidate \/ MarkConfirmed
              \/ EvictOne \/ CommitEvicted
         /\ live' = live \/ EndRetention
         /\ UNCHANGED <<captured, seeded, results, purged, lost>>
         /\ Release \/ UNCHANGED holder
         /\ holder \in {"run", "live"}
<1> USE DEF lock, env, history, thread, In, Visits, Done, Evicting
<1>1. CASE RouteLocal BY <1>1 DEF RouteLocal
<1>2. CASE CheckHoles BY <1>2 DEF CheckHoles
<1>3. CASE Reconcile BY <1>3 DEF Reconcile
<1>4. CASE Revalidate BY <1>4 DEF Revalidate
<1>5. CASE Produce BY <1>5 DEF Produce
<1>6. CASE UploadScrubbed BY <1>6 DEF UploadScrubbed
<1>7. CASE UploadMedia BY <1>7 DEF UploadMedia
<1>8. CASE MarkConfirmed BY <1>8 DEF MarkConfirmed
<1>9. CASE WriteSentinel BY <1>9 DEF WriteSentinel
<1>10. CASE ResumePending BY <1>10 DEF ResumePending
<1>11. CASE SelectEvictions BY <1>11 DEF SelectEvictions
<1>12. CASE EvictOne BY <1>12 DEF EvictOne
<1>13. CASE UnlinkVideo BY <1>13 DEF UnlinkVideo, UnlinkFile
<1>14. CASE UnlinkManifest BY <1>14 DEF UnlinkManifest, UnlinkFile
<1>15. CASE CommitEvicted BY <1>15 DEF CommitEvicted
<1>16. CASE EndRetention BY <1>16 DEF EndRetention
<1> QED
  BY <1>1, <1>2, <1>3, <1>4, <1>5, <1>6, <1>7, <1>8, <1>9, <1>10, <1>11,
     <1>12, <1>13, <1>14, <1>15, <1>16 DEF RunStep, Retain

\* What deletes and disturbances may touch.
LEMMA OtherFootprint ==
  ASSUME Deletes \/ Disturbance
  PROVE  /\ local' = local \/ UnlinkCovered
         /\ remote' = remote \/ \E c \in Chunks : BucketLoss(c)
         /\ lost' = lost \/ \E c \in Chunks : BucketLoss(c)
         /\ (row' = row /\ purged' = purged) \/ CommitDelete
         /\ UNCHANGED <<captured, seeded, live, results>>
         /\ UNCHANGED lock \/ Release \/ CommitDelete \/ ReconcileDeletes
              \/ UnlinkCovered
<1> USE DEF lock, env, history, thread
<1>1. CASE CommitDelete BY <1>1 DEF CommitDelete
<1>2. CASE ReconcileDeletes BY <1>2 DEF ReconcileDeletes
<1>3. CASE UnlinkCovered BY <1>3 DEF UnlinkCovered
<1>4. CASE HolderKilled BY <1>4 DEF HolderKilled
<1>5. CASE Heal BY <1>5 DEF Heal
<1>6. CASE \E c \in Chunks : BucketLoss(c) BY <1>6 DEF BucketLoss
<1> QED BY <1>1, <1>2, <1>3, <1>4, <1>5, <1>6 DEF Deletes, Disturbance

-----------------------------------------------------------------------------
(* What a step does to videos and rows.                                    *)

\* Rows only move forward: an eviction that has begun is never forgotten, and
\* only a delete makes a row USER_DELETED.
RowsAdvance ==
  \A c \in Chunks :
    /\ row[c].evict # "none" => row'[c].evict # "none"
    /\ row'[c].life = "user_deleted" =>
         row[c].life = "user_deleted" \/ c \in purged'

\* Which of life and evict a transition writes.
LEMMA RowFacts ==
  ASSUME NEW r \in Row
  PROVE  /\ MarkStaged(r).evict = r.evict /\ MarkStaged(r).life = "staged"
         /\ MarkUploaded(r).evict = r.evict /\ MarkUploaded(r).life = "uploaded"
         /\ MarkLocalDone(r).evict = r.evict
         /\ MarkLocalDone(r).life = "local_done"
         /\ MarkFailed(r).evict = r.evict /\ MarkFailed(r).life = "failed"
         /\ MarkUserDeleted(r).evict = r.evict
         /\ BeginEviction(r).evict = "evict_pending"
         /\ BeginEviction(r).life = r.life
         /\ CommitEviction(r).evict = "evicted"
         /\ CommitEviction(r).life = "evicted"
  BY DEF Row, MarkStaged, MarkUploaded, MarkLocalDone, MarkFailed,
         MarkUserDeleted, BeginEviction, CommitEviction

\* A step that applies one transition to one row advances the rows.
LEMMA OneRow ==
  ASSUME TypeOK, NEW k,
         \/ row' = [row EXCEPT ![k] = MarkStaged(@)]
         \/ row' = [row EXCEPT ![k] = MarkUploaded(@)]
         \/ row' = [row EXCEPT ![k] = MarkLocalDone(@)]
         \/ row' = [row EXCEPT ![k] = MarkFailed(@)]
         \/ row' = [row EXCEPT ![k] = BeginEviction(@)]
         \/ row' = [row EXCEPT ![k] = CommitEviction(@)]
         \/ row' = row
  PROVE  RowsAdvance
<1>1. \A c \in Chunks : row[c] \in Row
  BY DEF TypeOK
<1>2. row \in [Chunks -> Row]
  BY DEF TypeOK
<1> QED
  BY <1>1, <1>2, RowFacts DEF RowsAdvance

\* Every step advances the rows.
LEMMA RowsMove ==
  ASSUME TypeOK, [Next]_vars
  PROVE  RowsAdvance
<1> DEFINE Same == row' = row
<1>1. CASE Same BY <1>1, OneRow
<1>2. CASE StageDone BY <1>2, OneRow DEF StageDone
<1>3. CASE MirrorStatus
  <2>1. row' = [row EXCEPT ![live.chunk] = Mirrored(@, results[live.chunk])]
    BY <1>3 DEF MirrorStatus
  <2>2. \A r, status : Mirrored(r, status)
                        \in {MarkFailed(r), MarkLocalDone(r), MarkUploaded(r)}
    BY DEF Mirrored
  <2>3. \/ row' = [row EXCEPT ![live.chunk] = MarkFailed(@)]
        \/ row' = [row EXCEPT ![live.chunk] = MarkLocalDone(@)]
        \/ row' = [row EXCEPT ![live.chunk] = MarkUploaded(@)]
    <3> DEFINE r == row[live.chunk]
    <3>1. Mirrored(r, results[live.chunk])
            \in {MarkFailed(r), MarkLocalDone(r), MarkUploaded(r)}
      BY <2>2
    <3> QED BY <2>1, <3>1
  <2> QED BY <2>3, OneRow
<1>4. CASE FinalReconcile
  <2>1. \A c \in Chunks : row'[c] = row[c] \/ row'[c] = MarkUploaded(row[c])
    BY <1>4 DEF FinalReconcile
  <2>2. \A c \in Chunks : row[c] \in Row
    BY DEF TypeOK
  <2> QED BY <2>1, <2>2, RowFacts DEF RowsAdvance
<1>5. CASE RouteLocal BY <1>5, OneRow DEF RouteLocal
<1>6. CASE Reconcile BY <1>6, OneRow DEF Reconcile
<1>7. CASE Revalidate BY <1>7, OneRow DEF Revalidate
<1>8. CASE MarkConfirmed BY <1>8, OneRow DEF MarkConfirmed
<1>9. CASE EvictOne BY <1>9, OneRow DEF EvictOne
<1>10. CASE CommitEvicted BY <1>10, OneRow DEF CommitEvicted
<1>11. CASE CommitDelete
  <2>1. \A c \in Chunks :
          \/ row'[c] = row[c]
          \/ row'[c] = MarkUserDeleted(row[c]) /\ c \in purged'
    BY <1>11 DEF CommitDelete
  <2>2. \A c \in Chunks : row[c] \in Row
    BY DEF TypeOK
  <2> QED BY <2>1, <2>2, RowFacts DEF RowsAdvance
<1>12. Same \/ StageDone \/ MirrorStatus \/ FinalReconcile \/ RouteLocal
         \/ Reconcile \/ Revalidate \/ MarkConfirmed \/ EvictOne
         \/ CommitEvicted \/ CommitDelete
  BY ThreadFootprint, EngineFootprint, StartsFootprint, RunStepFootprint,
     OtherFootprint DEF Next, vars
<1> QED
  BY <1>1, <1>2, <1>3, <1>4, <1>5, <1>6, <1>7, <1>8, <1>9, <1>10, <1>11, <1>12

\* Videos reach the bucket from this Mac, and only the recorder makes new ones.
VideosMove ==
  \A c \in Chunks :
    /\ "video" \in local'[c] => "video" \in local[c]
    /\ "video" \in remote'[c] => "video" \in local[c] \cup remote[c]

\* Videos on this Mac change in three kinds of step only.
LEMMA LocalVideos ==
  ASSUME TypeOK, [Next]_vars
  PROVE  \/ \A c \in Chunks : "video" \in local'[c] <=> "video" \in local[c]
         \/ Rotate \/ UnlinkVideo \/ UnlinkCovered
<1> DEFINE Kept == \A c \in Chunks : "video" \in local'[c] <=> "video" \in local[c]
<1>1. CASE local' = local BY <1>1
<1>2. CASE WriteManifest BY <1>2 DEF WriteManifest, TypeOK
<1>3. CASE Produce
  <2>1. \/ local' = local
        \/ local' = [c \in Chunks |-> Rebuilt(c)]
    BY <1>3 DEF Produce
  <2> QED BY <2>1 DEF Files, Rebuilt
<1>4. CASE UnlinkManifest BY <1>4 DEF UnlinkManifest, UnlinkFile, TypeOK
<1>5. local' = local \/ WriteManifest \/ Produce \/ UnlinkManifest
        \/ Rotate \/ UnlinkVideo \/ UnlinkCovered
  BY ThreadFootprint, EngineFootprint, StartsFootprint, RunStepFootprint,
     OtherFootprint DEF Next, vars
<1> QED BY <1>1, <1>2, <1>3, <1>4, <1>5

\* The bucket gets videos from this Mac only and loses them in one kind of
\* step.
LEMMA RemoteVideos ==
  ASSUME TypeOK, [Next]_vars
  PROVE  /\ \A c \in Chunks :
              "video" \in remote'[c] => "video" \in local[c] \cup remote[c]
         /\ \/ \A c \in Chunks : "video" \in remote[c] => "video" \in remote'[c]
            \/ \E c \in Chunks : BucketLoss(c)
<1>1. CASE remote' = remote BY <1>1
<1>2. CASE Put
  <2>1. \/ remote' = remote
        \/ \E S \in SUBSET local[live.chunk] :
             remote' = [remote EXCEPT ![live.chunk] = @ \cup S]
    BY <1>2 DEF Put
  <2> QED BY <2>1 DEF TypeOK
<1>3. CASE UploadScrubbed
  <2>1. \E S : remote' = [c \in Chunks |-> IF c \in S
                            THEN remote[c] \cup {"manifest"} ELSE remote[c]]
    BY <1>3 DEF UploadScrubbed
  <2> QED BY <2>1
<1>4. CASE UploadMedia
  <2>1. \/ remote' = remote
        \/ \E c \in Chunks : "video" \in local[c]
             /\ remote' = [remote EXCEPT ![c] = @ \cup {"video"}]
    BY <1>4 DEF UploadMedia, Outcomes
  <2> QED BY <2>1 DEF TypeOK
<1>5. CASE \E c \in Chunks : BucketLoss(c) BY <1>5 DEF BucketLoss, TypeOK
<1>6. remote' = remote \/ Put \/ UploadScrubbed \/ UploadMedia
        \/ \E c \in Chunks : BucketLoss(c)
  BY ThreadFootprint, EngineFootprint, StartsFootprint, RunStepFootprint,
     OtherFootprint DEF Next, vars
<1> QED BY <1>1, <1>2, <1>3, <1>4, <1>5, <1>6

-----------------------------------------------------------------------------
(* The parts of the inductive invariant.                                   *)

\* RecordedFirst is inductive.
LEMMA RecordedFirstKept ==
  ASSUME TypeOK, RecordedFirst, [Next]_vars
  PROVE  RecordedFirst'
<1>1. CASE Rotate
  <2>1. captured + 1 \in Chunks /\ captured' = captured + 1
    BY <1>1, CustodyAssumption DEF Rotate, TypeOK, Chunks
  <2>2. UNCHANGED <<live, seeded, purged, remote>>
    BY <1>1 DEF Rotate, thread, history
  <2>3. \A c \in Chunks : c > captured' => "video" \notin local'[c] \cup remote'[c]
    <3> SUFFICES ASSUME NEW c \in Chunks, c > captured + 1
                 PROVE  "video" \notin local'[c] \cup remote'[c]
      BY <2>1
    <3>1. c # captured + 1 /\ c > captured
      BY CustodyAssumption DEF Chunks, TypeOK
    <3> QED BY <1>1, <2>2, <3>1 DEF Rotate, RecordedFirst, TypeOK
  <2>4. live.chunk <= captured'
    BY <2>1, CustodyAssumption DEF RecordedFirst, TypeOK, LiveState
  <2>5. seeded \subseteq 1..captured'
    BY <2>1 DEF RecordedFirst, TypeOK
  <2> QED BY <2>2, <2>3, <2>4, <2>5 DEF RecordedFirst
<1>2. CASE TakeChunk
  <2>1. /\ live'.chunk = live.chunk + 1 /\ live'.pc = "taken"
        /\ live.chunk < captured
        /\ UNCHANGED <<captured, seeded, purged, local, remote>>
    BY <1>2 DEF TakeChunk, TypeOK, LiveState, history
  <2>2. live'.chunk <= captured /\ live'.chunk \in Chunks
    BY <2>1, CustodyAssumption DEF TypeOK, LiveState, Chunks
  <2> QED BY <2>1, <2>2 DEF RecordedFirst
<1>5. CASE SeedChunk
  <2>1. /\ live'.chunk = live.chunk /\ live'.pc = "head"
        /\ live.chunk \in Chunks /\ live.chunk <= captured
        /\ seeded' = seeded \cup {live.chunk}
        /\ UNCHANGED <<captured, purged, local, remote>>
    BY <1>5 DEF SeedChunk, At, Goto, TypeOK, LiveState, RecordedFirst, history
  <2>2. live.chunk \in 1..captured
    BY <2>1, CustodyAssumption DEF TypeOK, Chunks
  <2> QED BY <2>1, <2>2 DEF RecordedFirst
<1>3. CASE CommitDelete
  <2>1. /\ purged' \subseteq seeded
        /\ UNCHANGED <<captured, seeded, local, remote, live>>
    BY <1>3 DEF CommitDelete, Placeable, RecordedFirst, thread
  <2> QED BY <2>1 DEF RecordedFirst
<1>4. ASSUME ~Rotate, ~TakeChunk, ~SeedChunk, ~CommitDelete
      PROVE  RecordedFirst'
  <2>1. UNCHANGED <<captured, seeded, purged>>
    BY <1>4, ThreadFootprint, EngineFootprint, StartsFootprint,
       RunStepFootprint, OtherFootprint DEF Next, vars
  <2>2. /\ live'.chunk = live.chunk
        /\ \/ live'.pc \in {"wait", "off"} \/ live' = live
           \/ live.pc \notin {"wait", "taken", "off"}
           \/ live.pc = "taken" /\ live'.pc = "taken"
    <3> USE DEF TypeOK, LiveState, At, Goto, thread
    <3>1. CASE live' = live BY <3>1
    <3>2. CASE Thread
      BY <1>4, <3>2 DEF Thread, StageBegins, StageFails, WriteManifest,
         StageDone, ShipNothing, ShipLock, Put, MirrorStatus, StartReclaim
    <3>3. CASE Engine
      BY <1>4, <3>3 DEF Engine, StopRecording, Drained, DrainTimeout,
         FinalReconcile, Freeze, EngineExits, EngineKilled, EngineEnds
    <3>4. CASE EndRetention BY <3>4 DEF EndRetention
    <3> QED
      BY <3>1, <3>2, <3>3, <3>4, StartsFootprint, RunStepFootprint,
         OtherFootprint DEF Next, vars
  <2>3. VideosMove
    <3>1. \A c \in Chunks : "video" \in local'[c] => "video" \in local[c]
      <4>1. CASE UnlinkVideo
        BY <4>1 DEF UnlinkVideo, UnlinkFile, TypeOK
      <4>2. CASE UnlinkCovered
        BY <4>2 DEF UnlinkCovered, TypeOK
      <4> QED BY <1>4, <4>1, <4>2, LocalVideos
    <3> QED BY <3>1, RemoteVideos DEF VideosMove
  <2> QED BY <2>1, <2>2, <2>3 DEF RecordedFirst, VideosMove
<1> QED BY <1>1, <1>2, <1>3, <1>4, <1>5

\* An unlink that is under way stays covered while the holder moves on.
LEMMA StillCovered ==
  ASSUME TypeOK, UnlinkIsCovered, RowsAdvance,
         run'.step = run.step, run'.cur = run.cur,
         \/ \A c \in Chunks : "video" \in remote[c] => "video" \in remote'[c]
         \/ \E c \in Chunks : BucketLoss(c),
         run'.pc = "resume" => \A c \in run'.todo : row'[c].evict # "none"
  PROVE  UnlinkIsCovered'
<1>1. run'.step # "begin" =>
        /\ run'.cur \in Chunks
        /\ Destination = "local" => row'[run'.cur].evict # "none"
  BY DEF UnlinkIsCovered, RowsAdvance
<1>2. run'.step = "video" /\ Destination = "cloud"
        => "video" \in remote'[run'.cur]
  <2> SUFFICES ASSUME run.step = "video", Destination = "cloud"
               PROVE  "video" \in remote'[run.cur]
    OBVIOUS
  <2>1. run.cur \in Chunks /\ "video" \in remote[run.cur]
    BY DEF UnlinkIsCovered
  <2>2. CASE \E c \in Chunks : BucketLoss(c)
    BY <2>1, <2>2 DEF BucketLoss, TypeOK
  <2> QED BY <2>1, <2>2
<1> QED BY <1>1, <1>2 DEF UnlinkIsCovered

\* Outside an unlink, only the resume list has to be covered.
LEMMA BeginCovered ==
  ASSUME run'.step = "begin",
         run'.pc = "resume" => \A c \in run'.todo : row'[c].evict # "none"
  PROVE  UnlinkIsCovered'
  BY DEF UnlinkIsCovered

\* A lock holder starts outside an unlink.
LEMMA FreshRun ==
  ASSUME NEW who, NEW label, NEW S, Acquire(who, label, S) \/ Release
  PROVE  /\ run'.step = "begin"
         /\ \/ run'.pc = label /\ run'.todo = S
            \/ run'.pc = "idle"
<1>1. CASE Acquire(who, label, S)
  <2>1. run' = [Idle EXCEPT !.pc = label, !.todo = S]
    BY <1>1 DEF Acquire
  <2>2. run' = [pc |-> label, step |-> "begin", todo |-> S, cur |-> 0,
                ok |-> FALSE]
    BY <2>1 DEF Idle
  <2> QED BY <2>2
<1>2. CASE Release
  BY <1>2 DEF Release, Idle
<1> QED BY <1>1, <1>2

\* UnlinkIsCovered is inductive: no other actor can take the ground from
\* under an eviction that has been confirmed.
LEMMA UnlinkIsCoveredKept ==
  ASSUME TypeOK, UnlinkIsCovered, RowsAdvance, [Next]_vars
  PROVE  UnlinkIsCovered'
<1>1. \/ \A c \in Chunks : "video" \in remote[c] => "video" \in remote'[c]
      \/ \E c \in Chunks : BucketLoss(c)
  BY RemoteVideos
<1>2. ASSUME UNCHANGED run PROVE UnlinkIsCovered'
  <2>1. run'.pc = "resume" => \A c \in run'.todo : row'[c].evict # "none"
    BY <1>2 DEF UnlinkIsCovered, RowsAdvance, TypeOK, RunState
  <2> QED BY <1>1, <1>2, <2>1, StillCovered
<1>3. ASSUME Release PROVE UnlinkIsCovered'
  BY <1>3, BeginCovered DEF Release, Idle
<1>4. ASSUME NEW who, NEW label \in RunLabels \ {"resume"}, NEW S,
             Acquire(who, label, S)
      PROVE  UnlinkIsCovered'
  BY <1>4, FreshRun, BeginCovered
<1>5. CASE Thread
  <2>1. CASE StartReclaim
    <3>1. \/ UNCHANGED run
          \/ /\ Acquire("live", "resume",
                        {c \in seeded : row[c].evict = "evict_pending"})
             /\ row' = row
      BY <2>1 DEF StartReclaim, lock
    <3>2. CASE Acquire("live", "resume",
                       {c \in seeded : row[c].evict = "evict_pending"})
      BY <3>1, <3>2, <1>2, FreshRun, BeginCovered
    <3> QED BY <3>1, <3>2, <1>2
  <2>2. CASE ShipLock BY <2>2, <1>2, <1>4, Labels DEF ShipLock, lock
  <2>3. CASE Put BY <2>3, <1>3 DEF Put
  <2> QED BY <1>2, <1>5, <2>1, <2>2, <2>3, ThreadFootprint DEF lock
<1>6. CASE Engine BY <1>6, <1>2, <1>3, EngineFootprint DEF lock
<1>7. CASE Starts
  <2>1. ASSUME NEW d, StartRun(d) PROVE UnlinkIsCovered'
    BY <2>1, <1>4, Labels DEF StartRun
  <2> QED BY <1>7, <2>1, <1>2, StartsFootprint DEF lock
<1>8. CASE Deletes \/ Disturbance
  <2>1. CASE CommitDelete BY <2>1, <1>4, Labels DEF CommitDelete
  <2>2. CASE ReconcileDeletes BY <2>2, <1>4, Labels DEF ReconcileDeletes
  <2>3. CASE UnlinkCovered
    <3>1. CASE \E c \in Chunks : run' = [run EXCEPT !.todo = @ \ {c}]
      <4>1. /\ run'.step = run.step /\ run'.cur = run.cur /\ run'.pc = run.pc
            /\ run'.todo \subseteq run.todo
        BY <3>1 DEF TypeOK, RunState
      <4>2. row' = row
        BY <2>3 DEF UnlinkCovered
      <4> QED BY <1>1, <4>1, <4>2, StillCovered DEF UnlinkIsCovered
    <3> QED BY <2>3, <3>1, <1>2, <1>3 DEF UnlinkCovered
  <2> QED BY <1>8, <2>1, <2>2, <2>3, <1>2, <1>3, OtherFootprint DEF lock
<1>9. CASE RunStep
  <2>1. ASSUME NEW label \in RunLabels, NEW S, Step(label, S),
               label = "resume" => \A c \in S : row'[c].evict # "none"
        PROVE  UnlinkIsCovered'
    <3>1. /\ run'.step = run.step /\ run'.cur = run.cur
          /\ run'.pc = label /\ run'.todo = S
      BY <2>1 DEF Step, TypeOK, RunState
    <3> QED BY <1>1, <2>1, <3>1, StillCovered
  <2>2. ASSUME NEW c, Visited(c) \/ Skip(c) PROVE UnlinkIsCovered'
    <3>1. /\ run'.step = run.step /\ run'.cur = run.cur /\ run'.pc = run.pc
          /\ run'.todo \subseteq run.todo
      BY <2>2 DEF Visited, Skip, TypeOK, RunState
    <3>2. run'.pc = "resume" => \A k \in run'.todo : row'[k].evict # "none"
      BY <3>1 DEF UnlinkIsCovered, RowsAdvance, TypeOK, RunState
    <3> QED BY <1>1, <3>1, <3>2, StillCovered
  <2>3. ASSUME NEW c \in Chunks, Unlink(c), row'[c].evict # "none",
               Destination = "cloud" => "video" \in remote'[c]
        PROVE  UnlinkIsCovered'
    <3>1. /\ run'.cur = c /\ run'.pc = run.pc /\ run'.todo \subseteq run.todo
      BY <2>3 DEF Unlink, TypeOK, RunState
    <3>2. run'.pc = "resume" => \A k \in run'.todo : row'[k].evict # "none"
      BY <3>1 DEF UnlinkIsCovered, RowsAdvance, TypeOK, RunState
    <3> QED BY <2>3, <3>1, <3>2 DEF UnlinkIsCovered
  <2>4. row' = row => \A c \in PendingEvictions : row'[c].evict # "none"
    BY DEF PendingEvictions
  <2>5. ASSUME NEW c \in Chunks, TRUE \in Confirm(c)
        PROVE  "video" \in remote[c]
    BY <2>5 DEF Confirm, Outcomes
  <2>6. CASE RouteLocal BY <2>6, <2>1, <2>2, <2>4, Labels DEF RouteLocal
  <2>7. CASE CheckHoles BY <2>7, <2>1, <1>3, Labels DEF CheckHoles
  <2>8. CASE Reconcile BY <2>8, <2>1, <2>2, Labels DEF Reconcile
  <2>9. CASE Revalidate BY <2>9, <2>1, <2>2, Labels DEF Revalidate
  <2>10. CASE Produce BY <2>10, <2>1, <1>3, Labels DEF Produce
  <2>11. CASE UploadScrubbed
    <3>1. CASE run' = [run EXCEPT !.pc = "media", !.todo = MediaTodo, !.ok = TRUE]
      <4>1. /\ run'.step = run.step /\ run'.cur = run.cur
            /\ run'.pc = "media"
        BY <3>1 DEF TypeOK, RunState
      <4> QED BY <1>1, <4>1, StillCovered
    <3> QED BY <2>11, <3>1, <2>1, <1>3, Labels DEF UploadScrubbed
  <2>12. CASE UploadMedia
    BY <2>12, <2>1, <2>2, <2>4, Labels DEF UploadMedia
  <2>13. CASE MarkConfirmed
    BY <2>13, <2>1, <2>2, <2>4, Labels DEF MarkConfirmed
  <2>14. CASE WriteSentinel BY <2>14, <2>1, <2>4, Labels DEF WriteSentinel
  <2>15. CASE ResumePending
    <3>1. PICK c \in Chunks :
            /\ Oldest(c, run.todo)
            /\ \E may \in MayResume(c) : IF may THEN Unlink(c) ELSE Skip(c)
      BY <2>15 DEF ResumePending
    <3>2. row' = row /\ remote' = remote /\ run.pc = "resume"
      BY <2>15 DEF ResumePending, Evicting
    <3>3. row[c].evict # "none"
      BY <3>1, <3>2 DEF Oldest, UnlinkIsCovered
    <3>4. \/ Skip(c)
          \/ Unlink(c) /\ (Destination = "cloud" => TRUE \in Confirm(c))
      BY <3>1 DEF MayResume, Confirm, Outcomes
    <3> QED BY <3>2, <3>3, <3>4, <2>2, <2>3, <2>5
  <2>16. CASE SelectEvictions BY <2>16, <2>1, Labels DEF SelectEvictions
  <2>17. CASE EvictOne
    <3>1. PICK c \in Chunks :
            \E may \in MayEvict(c) :
              IF may THEN Unlink(c) /\ row' = [row EXCEPT ![c] = BeginEviction(@)]
                     ELSE Skip(c) /\ UNCHANGED row
      BY <2>17 DEF EvictOne
    <3>2. remote' = remote
      BY <2>17 DEF EvictOne
    <3>3. \/ Skip(c)
          \/ /\ Unlink(c) /\ row' = [row EXCEPT ![c] = BeginEviction(@)]
             /\ Destination = "cloud" => TRUE \in Confirm(c)
      BY <3>1 DEF MayEvict, Confirm, Outcomes
    <3>4. CASE row' = [row EXCEPT ![c] = BeginEviction(@)]
      <4>1. row'[c].evict # "none"
        BY <3>4, RowFacts DEF TypeOK
      <4> QED BY <3>2, <3>3, <4>1, <2>2, <2>3, <2>5
    <3> QED BY <3>3, <3>4, <2>2
  <2>18. CASE UnlinkVideo \/ UnlinkManifest
    <3>1. /\ run.step # "begin" /\ run'.step # "video"
          /\ run'.cur = run.cur /\ run'.pc = run.pc /\ run'.todo = run.todo
          /\ row' = row
      BY <2>18 DEF UnlinkVideo, UnlinkManifest, UnlinkFile, TypeOK, RunState
    <3> QED BY <3>1 DEF UnlinkIsCovered
  <2>19. CASE CommitEvicted
    <3>1. /\ run'.step = "begin" /\ run'.pc = run.pc /\ run'.todo = run.todo
      BY <2>19 DEF CommitEvicted, TypeOK, RunState
    <3> QED BY <3>1, BeginCovered DEF UnlinkIsCovered, RowsAdvance, TypeOK, RunState
  <2>20. CASE EndRetention BY <2>20, <1>3 DEF EndRetention
  <2> QED
    BY <1>9, <2>6, <2>7, <2>8, <2>9, <2>10, <2>11, <2>12, <2>13, <2>14,
       <2>15, <2>16, <2>17, <2>18, <2>19, <2>20 DEF RunStep, Retain
<1> QED BY <1>2, <1>5, <1>6, <1>7, <1>8, <1>9 DEF Next, vars

\* DeleteIsCovered is inductive.
LEMMA DeleteIsCoveredKept ==
  ASSUME TypeOK, DeleteIsCovered, RowsAdvance, [Next]_vars
  PROVE  DeleteIsCovered'
<1>1. purged \subseteq purged'
  <2>1. CASE CommitDelete BY <2>1 DEF CommitDelete
  <2> QED
    BY <2>1, ThreadFootprint, EngineFootprint, StartsFootprint,
       RunStepFootprint, OtherFootprint DEF Next, vars
<1>2. \A c \in Chunks : row'[c].life = "user_deleted" => c \in purged'
  BY <1>1 DEF DeleteIsCovered, RowsAdvance
<1>3. holder' = "delete" => run'.todo \subseteq purged'
  <2>1. CASE UNCHANGED lock
    BY <1>1, <2>1 DEF DeleteIsCovered, lock
  <2>2. CASE holder' # "delete"
    BY <2>2
  <2>3. CASE CommitDelete
    <3>1. PICK S : Acquire("delete", "idle", S) /\ purged' = purged \cup S
      BY <2>3 DEF CommitDelete
    <3>2. run'.todo = S
      BY <3>1 DEF Acquire, Idle
    <3> QED BY <3>1, <3>2
  <2>4. CASE ReconcileDeletes
    <3>1. run'.todo = UserDeleted
      BY <2>4 DEF ReconcileDeletes, Acquire, Idle
    <3>2. UserDeleted \subseteq purged
      BY DEF UserDeleted, DeleteIsCovered, TypeOK
    <3> QED BY <1>1, <3>1, <3>2
  <2>5. CASE UnlinkCovered
    <3>1. \/ run' = run
          \/ \E c \in Chunks : run' = [run EXCEPT !.todo = @ \ {c}]
          \/ Release
      BY <2>5 DEF UnlinkCovered
    <3>2. run'.todo \subseteq run.todo \/ holder' # "delete"
      BY <3>1 DEF Release, TypeOK, RunState
    <3>3. holder = "delete"
      BY <2>5 DEF UnlinkCovered
    <3> QED BY <1>1, <3>2, <3>3 DEF DeleteIsCovered
  <2>6. \/ UNCHANGED lock \/ holder' # "delete"
        \/ CommitDelete \/ ReconcileDeletes \/ UnlinkCovered
    <3>1. CASE Thread
      <4>1. ShipLock \/ StartReclaim => UNCHANGED lock \/ holder' # "delete"
        BY DEF ShipLock, StartReclaim, Acquire
      <4>2. Put => holder' # "delete"
        BY DEF Put, Release
      <4> QED BY <3>1, <4>1, <4>2, ThreadFootprint
    <3>2. CASE Engine BY <3>2, EngineFootprint DEF Release
    <3>3. CASE Starts
      <4>1. \A d : StartRun(d) => holder' # "delete"
        BY DEF StartRun, Acquire
      <4> QED BY <3>3, <4>1, StartsFootprint
    <3>4. CASE RunStep BY <3>4, RunStepFootprint DEF Release
    <3>5. CASE Deletes \/ Disturbance BY <3>5, OtherFootprint DEF Release
    <3> QED
      BY <3>1, <3>2, <3>3, <3>4, <3>5 DEF Next, vars, lock
  <2> QED BY <2>1, <2>2, <2>3, <2>4, <2>5, <2>6
<1> QED BY <1>2, <1>3 DEF DeleteIsCovered

\* A video leaves this Mac only by an eviction or a delete that is covered.
LEMMA UnlinksAreCovered ==
  ASSUME CustodyInv, NEW c \in Chunks, "video" \in local[c],
         "video" \notin local'[c], UnlinkVideo \/ UnlinkCovered
  PROVE  /\ remote' = remote /\ row' = row /\ purged' = purged
         /\ \/ c \in purged
            \/ Destination = "cloud" /\ "video" \in remote[c]
            \/ Destination = "local" /\ row[c].evict # "none"
<1>1. CASE UnlinkVideo
  <2>1. /\ run.step = "video"
        /\ local' = [local EXCEPT ![run.cur] = @ \ {"video"}]
        /\ remote' = remote /\ row' = row /\ purged' = purged
    BY <1>1 DEF UnlinkVideo, UnlinkFile, history
  <2>2. c = run.cur
    BY <2>1 DEF CustodyInv, TypeOK
  <2> QED BY <2>1, <2>2, CustodyAssumption DEF CustodyInv, UnlinkIsCovered
<1>2. CASE UnlinkCovered
  <2>1. /\ remote' = remote /\ row' = row /\ purged' = purged
        /\ holder = "delete"
    BY <1>2 DEF UnlinkCovered, history
  <2>2. c \in run.todo
    BY <1>2 DEF UnlinkCovered, Oldest, CustodyInv, TypeOK
  <2> QED BY <2>1, <2>2 DEF CustodyInv, DeleteIsCovered
<1> QED BY <1>1, <1>2

\* Every step keeps the footage.
LEMMA NoFootageLostKept ==
  ASSUME CustodyInv, RowsAdvance, [Next]_vars
  PROVE  NoFootageLost'
<1> SUFFICES ASSUME NEW c \in 1..captured'
             PROVE  \/ "video" \in local'[c] \cup remote'[c]
                    \/ c \in purged'
                    \/ Destination = "local" /\ row'[c].evict # "none"
  BY DEF NoFootageLost
<1> USE DEF CustodyInv
<1>1. purged \subseteq purged' /\ captured' \in {captured, captured + 1}
  BY ThreadFootprint, EngineFootprint, StartsFootprint, RunStepFootprint,
     OtherFootprint DEF Next, vars, Rotate, CommitDelete
<1>2. CASE Rotate /\ c = captured + 1
  <2>1. "video" \in local'[c]
    BY <1>2, CustodyAssumption DEF Rotate, TypeOK, Chunks
  <2> QED BY <2>1
<1>3. CASE c \in 1..captured
  <2>1. c \in Chunks
    BY <1>3, CustodyAssumption DEF TypeOK, Chunks
  <2>2. \/ "video" \in local[c] \cup remote[c]
        \/ c \in purged
        \/ Destination = "local" /\ row[c].evict # "none"
    BY <1>3 DEF NoFootageLost
  <2>3. c \in purged => c \in purged'
    BY <1>1
  <2>4. row[c].evict # "none" => row'[c].evict # "none"
    BY <2>1 DEF RowsAdvance
  <2>5. CASE "video" \in local[c]
    <3>1. CASE "video" \in local'[c] BY <3>1
    <3>2. CASE "video" \notin local'[c]
      <4>1. UnlinkVideo \/ UnlinkCovered
        BY <2>1, <2>5, <3>2, LocalVideos DEF Rotate, TypeOK, Chunks
      <4> QED BY <2>1, <2>5, <3>2, <4>1, UnlinksAreCovered
    <3> QED BY <3>1, <3>2
  <2>6. CASE "video" \in remote[c] /\ "video" \notin local[c]
    BY <2>1, <2>6, RemoteVideos DEF BucketLoss, TypeOK
  <2> QED BY <2>2, <2>3, <2>4, <2>5, <2>6
<1>4. Rotate \/ captured' = captured
  BY ThreadFootprint, EngineFootprint, StartsFootprint, RunStepFootprint,
     OtherFootprint DEF Next, vars
<1> QED BY <1>2, <1>3, <1>4 DEF Rotate, TypeOK

\* CustodyInv is inductive.
LEMMA CustodyInvKept == CustodyInv /\ [Next]_vars => CustodyInv'
<1> SUFFICES ASSUME CustodyInv, [Next]_vars PROVE CustodyInv'
  OBVIOUS
<1>1. TypeOK /\ RecordedFirst /\ UnlinkIsCovered /\ DeleteIsCovered
  BY DEF CustodyInv
<1>2. RowsAdvance
  BY <1>1, RowsMove
<1> QED
  BY <1>1, <1>2, NextTyped, RecordedFirstKept, UnlinkIsCoveredKept,
     DeleteIsCoveredKept, NoFootageLostKept DEF CustodyInv

\* CustodyInv holds at the start.
LEMMA CustodyInvInit == Init => CustodyInv
<1> SUFFICES ASSUME Init PROVE CustodyInv
  OBVIOUS
<1>1. TypeOK
  <2>1. PendingRow \in Row
    BY DEF PendingRow, Row, Lifecycle, UploadState, EvictState
  <2>2. Idle \in RunState /\ live \in LiveState
    BY CustodyAssumption, Labels DEF Init, Idle, RunState, LiveState
  <2> QED
    BY <2>1, <2>2, CustodyAssumption
    DEF Init, TypeOK, Results, EngineState
<1>2. RecordedFirst BY CustodyAssumption DEF Init, RecordedFirst, Chunks
<1>3. UnlinkIsCovered BY DEF Init, UnlinkIsCovered, Idle
<1>4. DeleteIsCovered BY DEF Init, DeleteIsCovered, PendingRow
<1>5. NoFootageLost BY DEF Init, NoFootageLost
<1> QED BY <1>1, <1>2, <1>3, <1>4, <1>5 DEF CustodyInv

\* The inductive invariant holds throughout, type correctness included.
THEOREM CustodySafe == Spec => []CustodyInv
  BY CustodyInvInit, CustodyInvKept, PTL DEF Spec

\* Every variable keeps its type, whatever the constants are.
THEOREM TypeSafe == Spec => []TypeOK
<1>1. CustodyInv => TypeOK
  BY DEF CustodyInv
<1> QED BY <1>1, CustodySafe, PTL

\* Footage is never lost, whatever is killed, lost, deleted or retried.
THEOREM FootageSafe == Spec => []NoFootageLost
<1>1. CustodyInv => NoFootageLost
  BY DEF CustodyInv
<1> QED BY <1>1, CustodySafe, PTL

-----------------------------------------------------------------------------
(* UploadedMeansInBucket, for recordings with live upload.                 *)

\* The bucket has the chunk's video, or had it and lost it, or the user has
\* deleted the chunk.
Shipped(c) == "video" \in remote[c] \/ c \in lost \cup purged

\* A shipped chunk stays shipped.
LEMMA ShippedStays ==
  ASSUME TypeOK, [Next]_vars, NEW c \in Chunks, Shipped(c)
  PROVE  Shipped(c)'
<1>1. CASE \E d \in Chunks : BucketLoss(d)
  BY <1>1 DEF BucketLoss, Shipped, TypeOK
<1>2. CASE CommitDelete
  BY <1>2, RemoteVideos DEF CommitDelete, Shipped, BucketLoss
<1>3. \/ purged' = purged /\ lost' = lost
      \/ CommitDelete
      \/ \E d \in Chunks : BucketLoss(d)
  BY ThreadFootprint, EngineFootprint, StartsFootprint, RunStepFootprint,
     OtherFootprint DEF Next, vars
<1> QED BY <1>1, <1>2, <1>3, RemoteVideos DEF Shipped

\* Files that are in the bucket, whatever is left of them here, mean that the
\* chunk is shipped.
LEMMA RestIsShipped ==
  ASSUME CustodyInv, Destination = "cloud", NEW c \in seeded,
         local[c] # {}, local[c] \subseteq remote[c]
  PROVE  Shipped(c)
<1>1. c \in 1..captured
  BY DEF CustodyInv, RecordedFirst
<1> QED BY <1>1 DEF CustodyInv, NoFootageLost, Shipped

\* MirrorIsCovered is inductive, also across a final reconcile that settles
\* the chunk of a thread that was left behind.
LEMMA MirrorIsCoveredKept ==
  ASSUME CustodyInv, MirrorIsCovered, [Next]_vars
  PROVE  MirrorIsCovered'
<1> DEFINE c == live.chunk
           Goal == "video" \in remote'[c] \/ c \in lost' \cup purged'
<1> SUFFICES ASSUME live'.pc = "mirror", results'[live'.chunk] # "failed",
                    UploadEnabled
             PROVE  live'.chunk = c /\ Goal
  BY DEF MirrorIsCovered, UploadEnabled
<1>0. c \in Chunks /\ Shipped(c) => Goal
  BY ShippedStays DEF CustodyInv, Shipped
<1> HIDE DEF Goal
<1>1. CASE Put
  <2>1. live'.chunk = c /\ c \in Chunks /\ c \in seeded
    BY <1>1 DEF Put, Goto, At, CustodyInv, TypeOK, LiveState, RecordedFirst
  <2>2. local[c] # {} /\ remote' = [remote EXCEPT ![c] = @ \cup local[c]]
    BY <1>1, <2>1 DEF Put, Settle, Goto, CustodyInv, TypeOK, LiveState
  <2>3. CASE "video" \in local[c]
    BY <2>1, <2>2, <2>3 DEF Goal, CustodyInv, TypeOK
  <2>4. CASE "video" \notin local[c]
    <3>1. Shipped(c)
      BY <2>1, <2>4 DEF CustodyInv, RecordedFirst, NoFootageLost, Shipped,
         UploadEnabled
    <3> QED BY <1>0, <2>1, <3>1
  <2> QED BY <2>1, <2>3, <2>4
<1>2. CASE FinalReconcile
  <2>1. live' = live /\ c \in seeded /\ c \in Chunks
    BY <1>2 DEF FinalReconcile, CustodyInv, TypeOK, RecordedFirst
  <2>2. \/ results[c] # "failed"
        \/ local[c] # {} /\ local[c] \subseteq remote[c]
    BY <1>2, <2>1 DEF FinalReconcile
  <2>3. Shipped(c)
    BY <2>1, <2>2, RestIsShipped DEF MirrorIsCovered, UploadEnabled, Shipped
  <2> QED BY <1>0, <2>1, <2>3
<1>3. CASE live.pc = "mirror" /\ live'.chunk = c /\ results' = results
  <2>1. c \in Chunks
    BY <1>3 DEF CustodyInv, TypeOK, RecordedFirst
  <2>2. Shipped(c)
    BY <1>3 DEF MirrorIsCovered, Shipped
  <2> QED BY <1>0, <1>3, <2>1, <2>2
<1>4. \/ live.pc = "mirror" /\ live'.chunk = c /\ results' = results
      \/ Put \/ FinalReconcile
  <2> USE DEF CustodyInv, TypeOK, LiveState, At, Goto, thread
  <2>1. CASE Thread
    BY <2>1 DEF Thread, TakeChunk, SeedChunk, StageBegins, StageFails,
       WriteManifest, StageDone, ShipNothing, ShipLock, MirrorStatus, StartReclaim
  <2>2. CASE Engine
    BY <2>2 DEF Engine, Rotate, StopRecording, Drained, DrainTimeout, Freeze,
       EngineExits, EngineKilled, EngineEnds
  <2>3. CASE EndRetention
    BY <2>3 DEF EndRetention
  <2> QED
    BY <2>1, <2>2, <2>3, StartsFootprint, RunStepFootprint, OtherFootprint
    DEF Next, vars
<1> QED BY <1>1, <1>2, <1>3, <1>4

UploadedIsShipped ==
  \A c \in Chunks : row[c].upload = "uploaded" => Shipped(c)

\* Which transitions write the upload column.
LEMMA UploadFacts ==
  ASSUME NEW r \in Row
  PROVE  /\ MarkStaged(r).upload = r.upload
         /\ MarkLocalDone(r).upload = r.upload
         /\ MarkFailed(r).upload = "failed"
         /\ MarkUserDeleted(r).upload = r.upload
         /\ BeginEviction(r).upload = r.upload
         /\ CommitEviction(r).upload = r.upload
  BY DEF Row, MarkStaged, MarkLocalDone, MarkFailed, MarkUserDeleted,
         BeginEviction, CommitEviction

\* A transition of one row that does not mark it uploaded on no evidence.
LEMMA OneRowShipped ==
  ASSUME TypeOK, UploadedIsShipped, [Next]_vars, NEW k,
         \/ row' = row
         \/ row' = [row EXCEPT ![k] = MarkStaged(@)]
         \/ row' = [row EXCEPT ![k] = MarkLocalDone(@)]
         \/ row' = [row EXCEPT ![k] = MarkFailed(@)]
         \/ row' = [row EXCEPT ![k] = BeginEviction(@)]
         \/ row' = [row EXCEPT ![k] = CommitEviction(@)]
         \/ /\ row' = [row EXCEPT ![k] = MarkUploaded(@)]
            /\ k \in Chunks => Shipped(k)
  PROVE  UploadedIsShipped'
<1>1. row \in [Chunks -> Row] /\ \A c \in Chunks : row[c] \in Row
  BY DEF TypeOK
<1>2. \A c \in Chunks : row'[c].upload = "uploaded"
                          => row[c].upload = "uploaded" \/ Shipped(c)
  BY <1>1, UploadFacts
<1>3. \A c \in Chunks : row'[c].upload = "uploaded" => Shipped(c)
  BY <1>2 DEF UploadedIsShipped
<1> QED BY <1>3, ShippedStays DEF UploadedIsShipped

\* A fresh confirmation is evidence.
LEMMA ConfirmedIsShipped ==
  ASSUME NEW c \in Chunks, TRUE \in Confirm(c)
  PROVE  Shipped(c)
  BY DEF Confirm, Outcomes, Shipped

\* Every row that is marked uploaded is marked on evidence.
LEMMA UploadedIsShippedKept ==
  ASSUME LiveUpload, CustodyInv, MirrorIsCovered, UploadedIsShipped, [Next]_vars
  PROVE  UploadedIsShipped'
<1> USE DEF CustodyInv
<1>1. CASE row' = row BY <1>1, OneRowShipped
<1>2. CASE StageDone BY <1>2, OneRowShipped DEF StageDone
<1>3. CASE MirrorStatus
  <2> DEFINE r == row[live.chunk]
             status == results[live.chunk]
  <2>1. /\ live.pc = "mirror"
        /\ row' = [row EXCEPT ![live.chunk] = Mirrored(@, status)]
    BY <1>3 DEF MirrorStatus, At
  <2>2. \/ Mirrored(r, status) = MarkFailed(r)
        \/ Mirrored(r, status) = MarkLocalDone(r)
        \/ /\ Mirrored(r, status) = MarkUploaded(r)
           /\ status # "failed" /\ Destination # "local"
    BY DEF Mirrored
  <2>3. CASE status # "failed" /\ Destination # "local"
    <3>1. UploadEnabled
      BY <2>3, CustodyAssumption DEF UploadEnabled
    <3>2. Shipped(live.chunk)
      BY <2>1, <2>3, <3>1 DEF MirrorIsCovered, Shipped
    <3> QED BY <2>1, <2>2, <3>2, OneRowShipped
  <2>4. CASE status = "failed" \/ Destination = "local"
    BY <2>1, <2>2, <2>4, OneRowShipped
  <2> QED BY <2>3, <2>4
<1>4. CASE FinalReconcile
  <2>1. \A c \in Chunks : row'[c] = row[c] \/ Shipped(c)
    <3> SUFFICES ASSUME NEW c \in Chunks, row'[c] # row[c] PROVE Shipped(c)
      OBVIOUS
    <3>1. PICK reachable \in Outcomes(UploadEnabled) :
            /\ c \in seeded /\ reachable
            /\ local[c] # {} /\ local[c] \subseteq remote[c]
      BY <1>4 DEF FinalReconcile
    <3>2. UploadEnabled
      BY <3>1, Zenon DEF Outcomes
    <3> QED BY <3>1, <3>2, RestIsShipped DEF UploadEnabled
  <2>2. \A c \in Chunks : row'[c].upload = "uploaded" => Shipped(c)
    BY <2>1 DEF UploadedIsShipped
  <2> QED BY <2>2, ShippedStays DEF UploadedIsShipped
<1>5. CASE RouteLocal BY <1>5, OneRowShipped DEF RouteLocal
<1>6. CASE Reconcile
  BY <1>6, OneRowShipped, ConfirmedIsShipped DEF Reconcile
<1>7. CASE Revalidate BY <1>7, OneRowShipped DEF Revalidate
<1>8. CASE MarkConfirmed
  BY <1>8, OneRowShipped, ConfirmedIsShipped DEF MarkConfirmed
<1>9. CASE EvictOne BY <1>9, OneRowShipped DEF EvictOne
<1>10. CASE CommitEvicted BY <1>10, OneRowShipped DEF CommitEvicted
<1>11. CASE CommitDelete
  <2>1. \A c \in Chunks : row'[c] = row[c] \/ row'[c] = MarkUserDeleted(row[c])
    BY <1>11 DEF CommitDelete
  <2>2. \A c \in Chunks : row[c] \in Row
    BY DEF TypeOK
  <2>3. \A c \in Chunks : row'[c].upload = row[c].upload
    BY <2>1, <2>2, UploadFacts
  <2> QED BY <2>3, ShippedStays DEF UploadedIsShipped
<1>12. row' = row \/ StageDone \/ MirrorStatus \/ FinalReconcile \/ RouteLocal
         \/ Reconcile \/ Revalidate \/ MarkConfirmed \/ EvictOne
         \/ CommitEvicted \/ CommitDelete
  BY ThreadFootprint, EngineFootprint, StartsFootprint, RunStepFootprint,
     OtherFootprint DEF Next, vars
<1> QED
  BY <1>1, <1>2, <1>3, <1>4, <1>5, <1>6, <1>7, <1>8, <1>9, <1>10, <1>11, <1>12

\* A row says uploaded only of a chunk that has been in the bucket, for every
\* recording that ships live: live mirror, reconcile and mark pass agree.
THEOREM UploadedSafe ==
  ASSUME LiveUpload
  PROVE  Spec => []UploadedMeansInBucket
<1> DEFINE Inv == CustodyInv /\ MirrorIsCovered /\ UploadedIsShipped
<1>1. Init => Inv
  <2>1. Init => MirrorIsCovered
    BY DEF Init, MirrorIsCovered
  <2>2. Init => UploadedIsShipped
    BY DEF Init, UploadedIsShipped, PendingRow
  <2> QED BY <2>1, <2>2, CustodyInvInit
<1>2. Inv /\ [Next]_vars => Inv'
  BY CustodyInvKept, MirrorIsCoveredKept, UploadedIsShippedKept
<1>3. Inv => UploadedMeansInBucket
  BY DEF CustodyInv, TypeOK, UploadedIsShipped, Shipped, UploadedMeansInBucket
<1> QED BY <1>1, <1>2, <1>3, PTL DEF Spec

-----------------------------------------------------------------------------
(* Refinement: what a cloud recording's pipeline does to copies of videos. *)

Here == {c \in Chunks : "video" \in local[c]}
There == {c \in Chunks : "video" \in remote[c]}

\* Only three kinds of step change what the bucket has of videos.
LEMMA ThereMoves ==
  ASSUME TypeOK, [Next]_vars
  PROVE  There' = There \/ Put \/ UploadMedia \/ \E c \in Chunks : BucketLoss(c)
<1>1. CASE remote' = remote BY <1>1 DEF There
<1>2. CASE UploadScrubbed
  <2>1. \E S : remote' = [c \in Chunks |-> IF c \in S
                            THEN remote[c] \cup {"manifest"} ELSE remote[c]]
    BY <1>2 DEF UploadScrubbed
  <2> QED BY <2>1 DEF There
<1> QED
  BY <1>1, <1>2, ThreadFootprint, EngineFootprint, StartsFootprint,
     RunStepFootprint, OtherFootprint DEF Next, vars

\* A put of the live processor or of the media upload ships a video that is
\* here, or changes nothing about videos.
LEMMA PutShips ==
  ASSUME TypeOK, NEW k, NEW S \in SUBSET Files,
         remote' = [remote EXCEPT ![k] = @ \cup S],
         k \in Chunks /\ "video" \in S => "video" \in local[k],
         UNCHANGED <<local, purged, lost>>
  PROVE  \/ UNCHANGED <<Here, There, purged, lost>>
         \/ \E c \in Chunks : Copies!Ship(c)
<1>1. Here' = Here
  BY DEF Here
<1>2. CASE k \in Here \ There /\ "video" \in S
  <2>1. There' = There \cup {k}
    BY <1>2 DEF Here, There, TypeOK
  <2>2. Copies!Ship(k) /\ k \in Chunks
    BY <1>1, <1>2, <2>1 DEF Copies!Ship, Here, There
  <2> QED BY <2>2
<1>3. CASE ~(k \in Here \ There /\ "video" \in S)
  <2>1. There' = There
    BY <1>3 DEF Here, There, TypeOK
  <2> QED BY <1>1, <2>1
<1> QED BY <1>2, <1>3

\* Every step is one step of ChunkCustody, or none.
LEMMA StepRefines ==
  ASSUME Destination = "cloud", CustodyInv, [Next]_vars
  PROVE  [Copies!Next]_<<Here, There, purged, lost>>
<1> USE DEF CustodyInv
<1>1. CASE Rotate
  <2>1. captured + 1 \in Chunks
    BY <1>1, CustodyAssumption DEF Rotate, TypeOK, Chunks
  <2>2. /\ local' = [local EXCEPT ![captured + 1] = {"video"}]
        /\ UNCHANGED <<remote, purged, lost>>
    BY <1>1 DEF Rotate, history
  <2>3. captured + 1 \notin Here \cup There \cup purged
    BY <2>1 DEF RecordedFirst, Here, There, TypeOK
  <2>4. Here' = Here \cup {captured + 1} /\ There' = There
    BY <2>1, <2>2 DEF Here, There, TypeOK
  <2>5. ASSUME NEW k \in Chunks, k = captured + 1
        PROVE  Copies!Next
    <3>1. Copies!Record(k)
      BY <2>2, <2>3, <2>4, <2>5 DEF Copies!Record, Here, There
    <3> QED BY <3>1 DEF Copies!Next
  <2> QED BY <2>1, <2>5
<1>2. CASE UnlinkVideo \/ UnlinkCovered
  <2>1. /\ There' = There /\ UNCHANGED <<purged, lost>>
        /\ \E k : \/ Here' = Here
                 \/ /\ Here' = Here \ {k}
                    /\ k \in Here
    <3>1. CASE UnlinkVideo
      <4>1. /\ local' = [local EXCEPT ![run.cur] = @ \ {"video"}]
            /\ UNCHANGED <<remote, purged, lost>>
        BY <3>1 DEF UnlinkVideo, UnlinkFile, history
      <4>2. Here' = Here \ {run.cur} /\ There' = There
        BY <4>1 DEF Here, There, TypeOK
      <4> QED BY <4>1, <4>2
    <3>2. CASE UnlinkCovered
      <4>1. UNCHANGED <<remote, purged, lost>>
        BY <3>2 DEF UnlinkCovered, history
      <4>2. CASE local' = local
        BY <4>1, <4>2 DEF Here, There
      <4>3. ASSUME NEW k \in Chunks,
                   \/ local' = [local EXCEPT ![k] = @ \ {"video"}]
                   \/ local' = [local EXCEPT ![k] = {}]
            PROVE  Here' = Here \ {k}
        BY <4>3 DEF Here, TypeOK
      <4>4. There' = There
        BY <4>1 DEF There
      <4>5. \/ local' = local
            \/ \E k \in Chunks : \/ local' = [local EXCEPT ![k] = @ \ {"video"}]
                                 \/ local' = [local EXCEPT ![k] = {}]
        BY <3>2 DEF UnlinkCovered
      <4>6. Here' = Here \/ \E k \in Chunks : Here' = Here \ {k}
        BY <4>3, <4>5 DEF Here
      <4> QED BY <4>1, <4>4, <4>6
    <3> QED BY <1>2, <3>1, <3>2
  <2>2. CASE Here' = Here
    BY <2>1, <2>2
  <2>3. ASSUME NEW k \in Here, Here' = Here \ {k}
        PROVE  Copies!Next
    <3>1. k \in Chunks /\ "video" \in local[k] /\ "video" \notin local'[k]
      BY <2>3 DEF Here
    <3>2. k \in purged \/ k \in There
      BY <1>2, <3>1, UnlinksAreCovered DEF There
    <3>3. Copies!Drop(k)
      BY <2>1, <2>3, <3>2 DEF Copies!Drop, Here, There
    <3> QED BY <3>1, <3>3 DEF Copies!Next
  <2> QED BY <2>1, <2>2, <2>3
<1>3. CASE CommitDelete
  <2>1. PICK S \in SUBSET Placeable : purged' = purged \cup S
    BY <1>3 DEF CommitDelete
  <2>2. S \in SUBSET Chunks
    BY DEF Placeable, TypeOK
  <2>3. UNCHANGED <<Here, There, lost>>
    BY <1>3 DEF CommitDelete, Here, There
  <2>4. Copies!UserDelete(S)
    BY <2>1, <2>3 DEF Copies!UserDelete, Here, There
  <2> QED BY <2>2, <2>4 DEF Copies!Next
<1>4. ASSUME NEW c \in Chunks, BucketLoss(c)
      PROVE  Copies!Next
  <2>1. /\ c \in Here \cap There
        /\ remote' = [remote EXCEPT ![c] = @ \ {"video"}]
        /\ lost' = lost \cup {c} /\ UNCHANGED <<local, purged>>
    BY <1>4 DEF BucketLoss, Here, There
  <2>2. Here' = Here /\ There' = There \ {c}
    BY <2>1 DEF Here, There, TypeOK
  <2>3. Copies!Lose(c)
    BY <2>1, <2>2 DEF Copies!Lose, Here, There
  <2> QED BY <2>3 DEF Copies!Next
<1>5. CASE Put
  <2>1. /\ UNCHANGED <<local, purged, lost>>
        /\ \/ remote' = remote
           \/ \E S \in SUBSET local[live.chunk] :
                remote' = [remote EXCEPT ![live.chunk] = @ \cup S]
    BY <1>5 DEF Put, history
  <2>2. CASE remote' = remote
    BY <2>1, <2>2 DEF Here, There
  <2>3. CASE live.chunk \in Chunks
    <3>1. ASSUME NEW S \in SUBSET local[live.chunk],
                 remote' = [remote EXCEPT ![live.chunk] = @ \cup S]
          PROVE  \/ UNCHANGED <<Here, There, purged, lost>>
                 \/ \E c \in Chunks : Copies!Ship(c)
      <4>1. S \in SUBSET Files
        BY <2>3 DEF TypeOK
      <4> QED BY <2>1, <3>1, <4>1, PutShips
    <3> QED BY <2>1, <2>2, <3>1 DEF Copies!Next
  <2>4. CASE live.chunk \notin Chunks
    BY <1>5, <2>4 DEF Put, At, RecordedFirst, TypeOK
  <2> QED BY <2>3, <2>4
<1>6. CASE UploadMedia
  <2>1. /\ UNCHANGED <<local, purged, lost>>
        /\ \/ remote' = remote
           \/ \E c \in Chunks : "video" \in local[c]
                /\ remote' = [remote EXCEPT ![c] = @ \cup {"video"}]
    BY <1>6 DEF UploadMedia, Outcomes, history
  <2>2. CASE remote' = remote
    BY <2>1, <2>2 DEF Here, There
  <2>3. {"video"} \in SUBSET Files
    BY DEF Files
  <2> QED BY <2>1, <2>2, <2>3, PutShips DEF Copies!Next
<1>7. ASSUME ~Rotate, ~UnlinkVideo, ~UnlinkCovered, ~CommitDelete,
             ~\E c \in Chunks : BucketLoss(c), ~Put, ~UploadMedia
      PROVE  UNCHANGED <<Here, There, purged, lost>>
  <2>1. There' = There
    BY <1>7, ThereMoves
  <2>2. Here' = Here
    BY <1>7, LocalVideos DEF Here
  <2>3. UNCHANGED <<purged, lost>>
    BY <1>7, ThreadFootprint, EngineFootprint, StartsFootprint,
       RunStepFootprint, OtherFootprint DEF Next, vars
  <2> QED BY <2>1, <2>2, <2>3
<1> QED BY <1>1, <1>2, <1>3, <1>4, <1>5, <1>6, <1>7

\* The pipeline implements ChunkCustody: whatever the interleaving of engine,
\* terminal runs, deletes, kills and bucket losses, a cloud recording's copy
\* on this Mac is given up only when the bucket has it or the user said so.
THEOREM CustodyRefines ==
  ASSUME Destination = "cloud"
  PROVE  Spec => KeepsCustody
<1>1. Init => Copies!Init
  BY DEF Init, Copies!Init
<1>2. CustodyInv /\ [Next]_vars => [Copies!Next]_<<Here, There, purged, lost>>
  BY StepRefines
<1> QED BY <1>1, <1>2, CustodySafe, PTL
        DEF Spec, KeepsCustody, Copies!Spec, Here, There
=============================================================================
