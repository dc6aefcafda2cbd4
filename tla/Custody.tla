------------------------------ MODULE Custody ------------------------------
(***************************************************************************)
(* The custody of one recording's chunks: the engine that records and      *)
(* ships them, the terminal stage that converges them, the user's deletes, *)
(* and the disturbances around them, composed over one ledger, one disk,   *)
(* one bucket and one terminal lock.                                       *)
(***************************************************************************)
EXTENDS LiveProcessor, TerminalStage, RangeDelete

-----------------------------------------------------------------------------
(* Disturbances.                                                           *)

\* The process that holds the lock is killed; the kernel drops its flock.  A
\* delete runs in the daemon, and the next daemon never sees the exit of an
\* engine that ended before it.
HolderKilled ==
  /\ "kill_holder" \in Faults
  /\ \/ holder = "run" /\ engine # "converging" /\ UNCHANGED engine
     \/ /\ holder = "delete"
        /\ engine' = IF engine = "exited" THEN "gone" ELSE engine
  /\ crashes < MaxCrashes
  /\ crashes' = crashes + 1
  /\ Release
  /\ UNCHANGED <<captured, seeded, row, expected, local, remote, sentinel,
                 thread, flaky, history>>

\* The bucket loses a file while its original is still on this Mac, except
\* between the fresh confirmation of an eviction and its unlink.
BucketLoss(c) ==
  /\ "bucket_loss" \in Faults
  /\ c \notin lost
  /\ "video" \in local[c] \cap remote[c]
  /\ run.step = "begin" \/ run.cur # c
  /\ remote' = [remote EXCEPT ![c] = @ \ {"video"}]
  /\ lost' = lost \cup {c}
  /\ UNCHANGED <<captured, seeded, row, expected, local, sentinel, engine,
                 thread, lock, env, purged>>

\* The network stops failing.
Heal ==
  /\ flaky
  /\ flaky' = FALSE
  /\ UNCHANGED <<captured, seeded, row, expected, local, remote, sentinel,
                 engine, thread, lock, crashes, history>>

-----------------------------------------------------------------------------
Engine == Rotate \/ StopRecording \/ Drained \/ DrainTimeout \/ FinalReconcile
            \/ Freeze \/ EngineExits \/ EngineKilled
Starts == Converge \/ ExitResume \/ StartupSweep \/ UserUpload
Deletes == CommitDelete \/ ReconcileDeletes \/ UnlinkCovered
Disturbance == HolderKilled \/ Heal \/ \E c \in Chunks : BucketLoss(c)

Next == Engine \/ Thread \/ Starts \/ RunStep \/ Deletes \/ Disturbance

Spec == Init /\ [][Next]_vars

\* Processes that run keep running, the recording is stopped at some point and
\* the network recovers.
Progress ==
  /\ WF_vars(Thread)
  /\ WF_vars(RunStep)
  /\ WF_vars(UnlinkCovered)
  /\ WF_vars(StopRecording)
  /\ WF_vars(Drained) /\ WF_vars(FinalReconcile) /\ WF_vars(Freeze)
  /\ WF_vars(Converge) /\ WF_vars(EngineExits) /\ WF_vars(ExitResume)
  /\ WF_vars(Heal)

\* The daemon is started again from time to time.
DaemonSpec == Spec /\ Progress /\ WF_vars(StartupSweep)

\* Besides, interrupted deletes are reconciled and the user uploads again.
RetrySpec == DaemonSpec /\ SF_vars(ReconcileDeletes) /\ SF_vars(UserUpload)

-----------------------------------------------------------------------------
(* Safety.                                                                 *)

\* Footage is never lost: a recorded chunk's video is on this Mac or in the
\* bucket, unless the user deleted it or, for a recording that never leaves
\* this Mac, the retention policy did.
NoFootageLost ==
  \A c \in 1..captured :
    \/ "video" \in local[c] \cup remote[c]
    \/ c \in purged
    \/ Destination = "local" /\ row[c].evict # "none"

\* A row says uploaded only of a chunk whose video the bucket has, or had
\* until it lost it (the live mirror, the reconcile and the mark pass all
\* write that row, on different evidence).
UploadedMeansInBucket ==
  \A c \in seeded :
    row[c].upload = "uploaded"
      => "video" \in remote[c] \/ c \in lost \cup purged

\* The completeness sentinel never overstates: once it is up, the bucket has
\* every recorded chunk that it has not lost and the user has not deleted.
SentinelMeansComplete ==
  sentinel # 0 =>
    \A c \in 1..captured : "video" \in remote[c] \/ c \in lost \cup purged

\* Local files that eviction has freed stay free: no recovery pass and no late
\* stage of the live processor writes any of them again.
EvictedStaysFree ==
  \A c \in seeded : row[c].evict = "evicted" => local[c] = {}

\* Once the files of a chunk the user deleted are gone, nothing brings any of
\* them back, not even the recovery of a later upload (as long as nobody uploads
\* a recording that still goes on).
DeletedStaysGone ==
  [][\A c \in purged : local[c] = {} => local'[c] = {}]_vars

Copies == INSTANCE ChunkCustody WITH
  here  <- {c \in Chunks : "video" \in local[c]},
  there <- {c \in Chunks : "video" \in remote[c]}

\* The pipeline keeps custody of a cloud recording's footage, step by step.
KeepsCustody == Copies!Spec

-----------------------------------------------------------------------------
(* Why they hold: the inductive invariant of CustodyProofs.                *)

\* Nothing is known of a chunk before the recorder has closed it.
RecordedFirst ==
  /\ live.chunk <= captured
  /\ live.pc \notin {"wait", "off"} => live.chunk \in Chunks
  /\ live.pc \notin {"wait", "taken", "off"} => live.chunk \in seeded
  /\ seeded \subseteq 1..captured
  /\ purged \subseteq seeded
  /\ \A c \in Chunks : c > captured => "video" \notin local[c] \cup remote[c]

\* What retention is about to unlink may go: a cloud recording's chunk has just
\* been confirmed in the bucket, a local one's eviction is in the ledger.
UnlinkIsCovered ==
  /\ run.step # "begin" =>
       /\ run.cur \in Chunks
       /\ Destination = "local" => row[run.cur].evict # "none"
  /\ run.step = "video" /\ Destination = "cloud" => "video" \in remote[run.cur]
  /\ run.pc = "resume" =>
       \A c \in run.todo : row[c].evict # "none"

\* What the delete job is about to unlink is under a purge span.
DeleteIsCovered ==
  /\ \A c \in Chunks : row[c].life = "user_deleted" => c \in purged
  /\ holder = "delete" => run.todo \subseteq purged

\* A live upload that is about to be mirrored as uploaded has happened.
MirrorIsCovered ==
  live.pc = "mirror" /\ results[live.chunk] # "failed" /\ UploadEnabled
    => "video" \in remote[live.chunk] \/ live.chunk \in lost \cup purged

\* A run works on the recording only once the engine has stopped, or as the last
\* thing the engine does: nobody uploads a recording that is still going on, and
\* a local one is not converged behind a thread that is still at work.
Apart ==
  /\ "upload_live" \notin Faults
  /\ Destination = "local" => "drain_timeout" \notin Faults

\* The thread has taken a chunk whose artifacts are not complete yet.
Staging == live.pc \in {"taken", "head", "stage"}

\* The chunk-processor thread takes the chunks in order, one at a time, gives each
\* its row, and takes none after the drain.
ThreadInOrder ==
  /\ \/ seeded = 1..live.chunk /\ live.pc # "taken"
     \/ seeded = 1..(live.chunk - 1) /\ live.pc \in {"taken", "off"}
  /\ Staging => results[live.chunk] = "pending"
  /\ ~EngineAlive => live.pc = "off"
  /\ engine \notin {"recording", "draining"} =>
       live.pc = "off" \/ live.closed \/ (live.pc = "wait" /\ live.chunk = captured)
  /\ live.closed => "drain_timeout" \in Faults
  /\ holder = "live" => live.pc \in {"put", "evict"}
  /\ live.pc = "put" => holder = "live"

\* Retention works on chunks that have a row, and only while it has the lock.
RetentionKnows ==
  /\ \A c \in Chunks \ seeded : row[c].evict = "none"
  /\ run.pc \in {"resume", "evict"} => run.todo \subseteq seeded
  /\ run.step # "begin" =>
       /\ holder \in {"run", "live"}
       /\ run.pc \in {"resume", "evict"}
       /\ run.cur \in seeded

\* Under Apart no run is at work while a chunk is being staged.
StagesAlone ==
  /\ holder = "run" /\ EngineAlive => engine = "converging"
  /\ Staging =>
       /\ engine \notin {"converge", "converging"}
       /\ row[live.chunk].evict = "none"

\* The files of a chunk go before its row says that they are gone.
FreedFiles ==
  /\ \A c \in Chunks : row[c].evict = "evicted" => local[c] = {}
  /\ run.step = "manifest" => "video" \notin local[run.cur]
  /\ run.step = "commit" => local[run.cur] = {}

\* A chunk that is not staged yet has no manifest, so the user cannot delete it,
\* unless an upload recovers one for a recording that still goes on.
StagesUnplaceable ==
  /\ Staging => "manifest" \notin local[live.chunk] /\ live.chunk \notin purged
  /\ ~live.closed /\ live.pc # "off" =>
       \A c \in Chunks : c > live.chunk => "manifest" \notin local[c]
  /\ Staging /\ engine \in {"converge", "converging"} => Destination = "local"
  /\ holder = "run" /\ EngineAlive =>
       /\ engine = "converging"
       /\ Destination = "local" => run.pc \in {"route", "resume", "evict"}

\* When the expected count is frozen every chunk has its row, so a gate that is
\* satisfied speaks of all of them.
CountIsComplete ==
  /\ engine \in {"finalize", "freeze"} => seeded = 1..captured
  /\ expected # 0 =>
       /\ engine \notin {"recording", "draining", "finalize", "freeze"}
       /\ seeded = 1..captured
  /\ sentinel # 0 \/ run.pc = "sentinel" =>
       /\ expected # 0
       /\ \A c \in 1..captured : "video" \in remote[c] \/ c \in lost \cup purged

CustodyInv ==
  /\ TypeOK
  /\ RecordedFirst
  /\ UnlinkIsCovered
  /\ DeleteIsCovered
  /\ NoFootageLost

-----------------------------------------------------------------------------
(* Liveness.                                                               *)

\* The daemon alone ships every chunk of a recording whose count was frozen,
\* whichever process was killed and whatever the live path left behind, unless
\* the user destroys some of it.
UploadsFinish == expected # 0 ~> Gate \/ purged # {}

\* A recording whose count was frozen gets its sentinel.
Converges == expected # 0 ~> sentinel # 0

\* A delete the user confirmed is carried out: the files of every chunk under
\* a purge span go, also when a crash cuts the delete off.
DeletesFinish == \A c \in Chunks : c \in purged ~> local[c] = {}

\* An eviction that has begun frees the chunk's files, also after a crash
\* between its ledger write and its unlink.
EvictionsFinish ==
  \A c \in Chunks : row[c].evict = "evict_pending" ~> local[c] = {}
=============================================================================
