--------------------------- MODULE LiveProcessor ---------------------------
(***************************************************************************)
(* The engine process of one recording: the recorder rotating chunks, the  *)
(* chunk-processor thread that stages, uploads and reclaims them one by    *)
(* one (chunk_processor.py), and the engine's finalize                     *)
(* (engine/collaborators.py, finalize_uploads).                            *)
(***************************************************************************)
EXTENDS CustodyState

At(label) == live.pc = label
Goto(label) == live' = [live EXCEPT !.pc = label]
Settle(c, status) == results' = [results EXCEPT ![c] = status]

\* The recorder closes a chunk: its video is on disk and the processor's
\* queue has one more message.
Rotate ==
  /\ engine = "recording"
  /\ captured < MaxChunks
  /\ captured' = captured + 1
  /\ local' = [local EXCEPT ![captured + 1] = {"video"}]
  /\ UNCHANGED <<seeded, row, expected, remote, sentinel, engine, thread, lock,
                 env, history>>

-----------------------------------------------------------------------------
(* The chunk-processor thread.                                             *)

\* The next message: the result is PENDING in memory, and the thread waits for
\* the chunk's audio.
TakeChunk ==
  /\ At("wait") /\ ~live.closed
  /\ live.chunk < captured
  /\ LET c == live.chunk + 1 IN
       /\ Settle(c, "pending")
       /\ live' = [live EXCEPT !.pc = "taken", !.chunk = c, !.again = FALSE]
  /\ UNCHANGED <<captured, seeded, row, expected, local, remote, sentinel,
                 engine, lock, env, history>>

\* The chunk gets its ledger row.
SeedChunk ==
  /\ At("taken")
  /\ seeded' = seeded \cup {live.chunk}
  /\ Goto("head")
  /\ UNCHANGED <<captured, row, expected, local, remote, sentinel, engine,
                 results, lock, env, history>>

\* run_chunk asks the row once, at its head: a chunk the user deleted is skipped.
StageBegins ==
  /\ At("head")
  /\ Goto(IF row[live.chunk].life = "user_deleted" THEN "wait" ELSE "stage")
  /\ UNCHANGED <<captured, seeded, row, expected, local, remote, sentinel,
                 engine, results, lock, env, history>>

\* A stage that raises leaves the chunk FAILED, in memory only.
StageFails ==
  /\ "stage_error" \in Faults
  /\ At("stage")
  /\ Settle(live.chunk, "failed")
  /\ Goto("wait")
  /\ UNCHANGED <<captured, seeded, row, expected, local, remote, sentinel,
                 engine, lock, env, history>>

\* The last stage's artifact, the manifest.
WriteManifest ==
  /\ At("stage")
  /\ local' = [local EXCEPT ![live.chunk] = @ \cup {"manifest"}]
  /\ Goto("mark")
  /\ UNCHANGED <<captured, seeded, row, expected, remote, sentinel, engine,
                 results, lock, env, history>>

StageDone ==
  /\ At("mark")
  /\ row' = [row EXCEPT ![live.chunk] = MarkStaged(@)]
  /\ Goto("ship")
  /\ UNCHANGED <<captured, seeded, expected, local, remote, sentinel, engine,
                 results, lock, env, history>>

\* Without live upload the chunk settles EMITTED and nothing is sent.
ShipNothing ==
  /\ At("ship") /\ ~UploadEnabled
  /\ Settle(live.chunk, "emitted")
  /\ Goto("mirror")
  /\ UNCHANGED <<captured, seeded, row, expected, local, remote, sentinel,
                 engine, lock, env, history>>

\* terminal_lock(non_blocking): a contended chunk is deferred, left PENDING.
ShipLock ==
  /\ At("ship") \/ At("retry")
  /\ UploadEnabled
  /\ \/ /\ Acquire("live", "idle", {})
        /\ Goto("put")
     \/ /\ holder # "none"
        /\ Goto("wait")
        /\ UNCHANGED lock
  /\ UNCHANGED <<captured, seeded, row, expected, local, remote, sentinel,
                 engine, results, env, history>>

\* One upload attempt under the lock; the lock is free again afterwards.
Put ==
  /\ At("put")
  /\ LET c == live.chunk IN
       \/ /\ local[c] # {}
          /\ remote' = [remote EXCEPT ![c] = @ \cup local[c]]
          /\ Settle(c, "emitted")
          /\ Goto("mirror")
       \/ /\ local[c] = {} \/ flaky
          /\ \E landed \in SUBSET local[c] :
               remote' = [remote EXCEPT ![c] = @ \cup landed]
          /\ Settle(c, "failed")
          /\ Goto("mirror")
       \/ /\ flaky /\ ~live.again
          /\ live' = [live EXCEPT !.pc = "retry", !.again = TRUE]
          /\ UNCHANGED <<remote, results>>
  /\ Release
  /\ UNCHANGED <<captured, seeded, row, expected, local, sentinel, engine, env,
                 history>>

\* _mirror_status_to_ledger, with no lock held.
Mirrored(r, status) ==
  CASE status = "failed"       -> MarkFailed(r)
    [] Destination = "local"   -> MarkLocalDone(r)
    [] OTHER                   -> MarkUploaded(r)

MirrorStatus ==
  /\ At("mirror")
  /\ row' = [row EXCEPT ![live.chunk] = Mirrored(@, results[live.chunk])]
  /\ Goto(IF results[live.chunk] = "emitted" /\ AutoDelete
            THEN "evict" ELSE "wait")
  /\ UNCHANGED <<captured, seeded, expected, local, remote, sentinel, engine,
                 results, lock, env, history>>

\* _evict_old_chunks_through_floor: the retention pass of TerminalStage, run
\* by this thread with the keep_recent window, unless the lock is contended.
StartReclaim ==
  /\ At("evict") /\ holder # "live"
  /\ \/ /\ Acquire("live", "resume",
                   {c \in seeded : row[c].evict = "evict_pending"})
        /\ UNCHANGED live
     \/ /\ holder # "none"
        /\ Goto("wait")
        /\ UNCHANGED lock
  /\ UNCHANGED <<captured, seeded, row, expected, local, remote, sentinel,
                 engine, results, env, history>>

Thread == TakeChunk \/ SeedChunk \/ StageBegins \/ StageFails
            \/ WriteManifest \/ StageDone \/ ShipNothing \/ ShipLock \/ Put \/ MirrorStatus
            \/ StartReclaim

-----------------------------------------------------------------------------
(* Stop and finalize.                                                      *)

StopRecording ==
  /\ engine = "recording"
  /\ engine' = "draining"
  /\ UNCHANGED <<captured, seeded, row, expected, local, remote, sentinel,
                 thread, lock, env, history>>

\* The queue is drained up to the poison pill ...
Drained ==
  /\ engine = "draining"
  /\ At("wait") /\ live.chunk = captured
  /\ engine' = "finalize"
  /\ UNCHANGED <<captured, seeded, row, expected, local, remote, sentinel,
                 thread, lock, env, history>>

\* ... or the join times out: the thread is left at its chunk, and closing the
\* engine's queues drains the messages it has not taken.
DrainTimeout ==
  /\ "drain_timeout" \in Faults
  /\ engine = "draining"
  /\ engine' = "finalize"
  /\ live' = [live EXCEPT !.closed = TRUE]
  /\ UNCHANGED <<captured, seeded, row, expected, local, remote, sentinel,
                 results, lock, env, history>>

\* reconcile_against_gcs: FAILED results whose files all landed after all
\* become EMITTED, in memory and in the ledger.
FinalReconcile ==
  /\ engine = "finalize"
  /\ \E reachable \in Outcomes(UploadEnabled) :
       LET flipped == {c \in Chunks :
             /\ reachable /\ results[c] = "failed"
             /\ local[c] # {} /\ local[c] \subseteq remote[c]} IN
         /\ results' = [c \in Chunks |->
                          IF c \in flipped THEN "emitted" ELSE results[c]]
         /\ row' = [c \in Chunks |->
                      IF c \in flipped \cap seeded THEN MarkUploaded(row[c])
                                                   ELSE row[c]]
  /\ engine' = "freeze"
  /\ UNCHANGED <<captured, seeded, expected, local, remote, sentinel, live,
                 lock, env, history>>

AllEmitted ==
  LET processed == {c \in Chunks : results[c] # "none"} IN
    processed # {} /\ \A c \in processed : results[c] = "emitted"

\* The expected count is frozen from the manifests that are on disk now.  A
\* local recording, or one the live path shipped completely, is converged
\* here; the rest is left to whoever resumes it.
Freeze ==
  /\ engine = "freeze"
  /\ expected' = Cardinality({c \in Chunks : "manifest" \in local[c]})
  /\ engine' = IF \/ Destination = "local"
                  \/ (LiveUpload /\ AllEmitted)
                 THEN "converge" ELSE "exiting"
  /\ UNCHANGED <<captured, seeded, row, local, remote, sentinel, thread, lock,
                 env, history>>

\* The engine process ends, and with it its thread and the lock it may hold.
\* Left to itself it waits for the thread, which is not a daemon thread.
EngineEnds(mine) ==
  /\ engine' = "exited"
  /\ live' = [live EXCEPT !.pc = "off"]
  /\ IF holder \in mine THEN Release ELSE UNCHANGED lock
  /\ UNCHANGED <<captured, seeded, row, expected, local, remote, sentinel,
                 results, flaky, history>>

EngineExits ==
  /\ \/ engine = "exiting"
     \/ (engine = "converging" /\ holder # "run")
  /\ At("wait")
  /\ EngineEnds({"live"})
  /\ UNCHANGED crashes

EngineKilled ==
  /\ "kill_engine" \in Faults
  /\ EngineAlive
  /\ crashes < MaxCrashes
  /\ crashes' = crashes + 1
  /\ EngineEnds({"live"} \cup IF engine = "converging" THEN {"run"} ELSE {})
=============================================================================
