--------------------------- MODULE TerminalStage ---------------------------
(***************************************************************************)
(* run_terminal_stage (terminal_stage.py) and the eviction executor it     *)
(* ends with (retention.py): everything here happens while the terminal    *)
(* lock is held, one chunk at a time, and may be cut off between any two   *)
(* steps.  run.todo holds the chunks a loop has yet to visit, as the loop  *)
(* snapshot them when it began; loops go from the oldest chunk on.         *)
(***************************************************************************)
EXTENDS CustodyState

In(label) == holder = "run" /\ run.pc = label
Step(label, todo) == run' = [run EXCEPT !.pc = label, !.todo = todo]

\* The loop at this label visits c next; Visited moves on.
Visits(label, c) == In(label) /\ Oldest(c, run.todo)
Visited(c) == run' = [run EXCEPT !.todo = @ \ {c}]
Done(label) == In(label) /\ run.todo = {}

NotUploaded == {c \in seeded : row[c].upload # "uploaded"}
PendingEvictions == {c \in seeded : row[c].evict = "evict_pending"}

\* _route_local's loop, or the promotion check in front of the cloud route.
FirstTodo(destination) ==
  IF destination = "local"
    THEN {c \in seeded : row[c].life \notin {"local_done", "evicted"}}
    ELSE {}
StartRun(destination) ==
  Acquire("run", IF destination = "local" THEN "route" ELSE "holes",
          FirstTodo(destination))

-----------------------------------------------------------------------------
(* Who runs it.                                                            *)

\* The engine's own finalize: it waits for the lock, and gives up on timeout.
Converge ==
  /\ engine = "converge"
  /\ \/ /\ StartRun(Destination)
        /\ engine' = "converging"
     \/ /\ holder # "none"
        /\ engine' = "exiting"
        /\ UNCHANGED lock
  /\ UNCHANGED <<captured, seeded, row, expected, local, remote, sentinel,
                 thread, env, history>>

\* The daemon resumes once after every engine exit, and skips when the lock is
\* contended (_handle_engine_exit, resume_terminal_stage).
ExitResume ==
  /\ engine = "exited"
  /\ engine' = "gone"
  /\ IF holder = "none" THEN StartRun(Destination) ELSE UNCHANGED lock
  /\ UNCHANGED <<captured, seeded, row, expected, local, remote, sentinel,
                 thread, env, history>>

\* _recording_needs_resume, the cloud arm.
NeedsResume == Destination = "cloud" /\ expected # 0 /\ ~Gate

\* A daemon start resumes what still needs it, once reconcile_user_deletes has
\* finished the deletes that a crash cut off.
StartupSweep ==
  /\ engine = "gone"
  /\ \A c \in seeded : row[c].life = "user_deleted" => local[c] = {}
  /\ NeedsResume
  /\ StartRun("cloud")
  /\ UNCHANGED <<captured, seeded, row, expected, local, remote, sentinel,
                 engine, thread, env, history>>

\* "screencap upload": always the cloud route, at any time.
UserUpload ==
  /\ "upload" \in Faults
  /\ EngineAlive => "upload_live" \in Faults
  /\ StartRun("cloud")
  /\ UNCHANGED <<captured, seeded, row, expected, local, remote, sentinel,
                 engine, thread, env, history>>

-----------------------------------------------------------------------------
(* The routes.                                                             *)

RouteLocal ==
  /\ \/ \E c \in Chunks :
          /\ Visits("route", c)
          /\ row' = [row EXCEPT ![c] = MarkLocalDone(@)]
          /\ Visited(c)
     \/ /\ Done("route")
        /\ Step("resume", PendingEvictions)
        /\ UNCHANGED row
  /\ UNCHANGED <<captured, seeded, expected, local, remote, sentinel, engine,
                 thread, holder, env, history>>

\* assert_promotable_to_cloud: a chunk that is neither here nor known to be
\* uploaded is a hole, and a recording with a hole is refused.
Holes == IF expected = 0 THEN {}
         ELSE {c \in NotUploaded : "video" \notin local[c]}

CheckHoles ==
  /\ In("holes")
  /\ IF Holes # {} THEN Release
     ELSE Step("reconcile", NotUploaded) /\ UNCHANGED holder
  /\ UNCHANGED <<captured, seeded, row, expected, local, remote, sentinel,
                 engine, thread, env, history>>

\* The oldest SampleSize resident chunks the ledger calls uploaded.
Sample ==
  LET resident == {c \in seeded : row[c].upload = "uploaded"
                                  /\ row[c].life # "evicted"}
  IN  {c \in resident :
         Cardinality({d \in resident : d < c}) < SampleSize}

Reconcile ==
  /\ \/ \E c \in Chunks :
          /\ Visits("reconcile", c)
          /\ \E confirmed \in Confirm(c) :
               row' = IF confirmed THEN [row EXCEPT ![c] = MarkUploaded(@)]
                                   ELSE row
          /\ Visited(c)
     \/ /\ Done("reconcile")
        /\ Step("revalidate", Sample)
        /\ UNCHANGED row
  /\ UNCHANGED <<captured, seeded, expected, local, remote, sentinel, engine,
                 thread, holder, env, history>>

\* At the end of the re-validation: a recording whose gate is satisfied needs
\* only its sentinel, any other is produced and uploaded.
Revalidate ==
  /\ \/ \E c \in Chunks :
          /\ Visits("revalidate", c)
          /\ \E absent \in ConfirmAbsent(c) :
               row' = IF absent THEN [row EXCEPT ![c] = MarkFailed(@)] ELSE row
          /\ Visited(c)
     \/ /\ Done("revalidate")
        /\ Step(IF Gate THEN "sentinel" ELSE "produce", {})
        /\ UNCHANGED row
  /\ UNCHANGED <<captured, seeded, expected, local, remote, sentinel, engine,
                 thread, holder, env, history>>

\* Mutant: recovery regenerates what belongs to a row, not to a video.
RebuiltByRow(c) ==
  IF c \in seeded THEN local[c] \cup {"manifest"} ELSE local[c]

\* Recovery rebuilds the manifest of every video that is still here.
Rebuilt(c) == IF "video" \in local[c] THEN Files ELSE local[c]

\* A production that raises ends the run.
Produce ==
  /\ In("produce")
  /\ \/ /\ local' = [c \in Chunks |-> Rebuilt(c)]
        /\ Step("upload", {})
        /\ UNCHANGED holder
     \/ /\ "stage_error" \in Faults
        /\ Release
        /\ UNCHANGED local
  /\ UNCHANGED <<captured, seeded, row, expected, remote, sentinel, engine,
                 thread, env, history>>

\* Mutant: a failed chunk is taken for settled.
MediaTodoUnlessFailed ==
  {c \in NotUploaded :
     row[c].life \notin {"local_done", "evicted", "user_deleted", "failed"}}

\* _media_upload_indices.
MediaTodo == {c \in NotUploaded :
                row[c].life \notin {"local_done", "evicted", "user_deleted"}}

\* upload_recording of the scrubbed copy, which holds no video: it succeeds,
\* fails for some files (run.ok stays FALSE), or raises and ends the run.
UploadScrubbed ==
  LET here == {c \in Chunks : "manifest" \in local[c]}
      Landed(S) == remote' = [c \in Chunks |-> IF c \in S
                                THEN remote[c] \cup {"manifest"} ELSE remote[c]]
  IN
  /\ In("upload")
  /\ \/ /\ Landed(here)
        /\ run' = [run EXCEPT !.pc = "media", !.todo = MediaTodo, !.ok = TRUE]
        /\ UNCHANGED holder
     \/ /\ flaky
        /\ \E S \in SUBSET here : Landed(S)
        /\ \/ Step("media", MediaTodo) /\ UNCHANGED holder
           \/ Release
  /\ UNCHANGED <<captured, seeded, row, expected, local, sentinel, engine,
                 thread, env, history>>

\* _mark_uploaded_chunks' rows; not entered after a failed upload.
MarkTodo == {c \in NotUploaded : row[c].life \notin {"local_done", "user_deleted"}}

\* _upload_source_media: a failed chunk is skipped.
UploadMedia ==
  /\ \/ \E c \in Chunks :
          /\ Visits("media", c)
          /\ \E ok \in Outcomes("video" \in local[c]) :
               remote' = IF ok THEN [remote EXCEPT ![c] = @ \cup {"video"}]
                               ELSE remote
          /\ Visited(c)
     \/ /\ Done("media")
        /\ IF run.ok THEN Step("mark", MarkTodo)
                     ELSE Step("resume", PendingEvictions)
        /\ UNCHANGED remote
  /\ UNCHANGED <<captured, seeded, row, expected, local, sentinel, engine,
                 thread, holder, env, history>>

MarkConfirmed ==
  /\ \/ \E c \in Chunks :
          /\ Visits("mark", c)
          /\ \E confirmed \in Confirm(c) :
               row' = IF confirmed THEN [row EXCEPT ![c] = MarkUploaded(@)]
                                   ELSE row
          /\ Visited(c)
     \/ /\ Done("mark")
        /\ IF Gate THEN Step("sentinel", {}) ELSE Step("resume", PendingEvictions)
        /\ UNCHANGED row
  /\ UNCHANGED <<captured, seeded, expected, local, remote, sentinel, engine,
                 thread, holder, env, history>>

\* _write_sentinel: a failed upload is reported, and the run goes on.
WriteSentinel ==
  /\ In("sentinel")
  /\ \E ok \in Outcomes(TRUE) : sentinel' = IF ok THEN expected ELSE sentinel
  /\ Step("resume", PendingEvictions)
  /\ UNCHANGED <<captured, seeded, row, expected, local, remote, engine, thread,
                 holder, env, history>>

-----------------------------------------------------------------------------
(* Retention (evict_recording): also entered by the live processor.        *)

Evicting(label, step) ==
  holder \in {"run", "live"} /\ run.pc = label /\ run.step = step

\* Where an eviction loop stands with chunk c: to unlink it, or past it.
Unlink(c) == run' = [run EXCEPT !.todo = @ \ {c}, !.cur = c, !.step = "video"]
Skip(c) == run' = [run EXCEPT !.todo = @ \ {c}]

\* Mutant: EVICT_PENDING is taken for a confirmation that still holds.
MayResumeUnasked(c) == {TRUE}

\* An interrupted eviction is finished, for a cloud recording only after the
\* bucket has confirmed the chunk once more.
MayResume(c) == IF Destination = "local" THEN {TRUE} ELSE Confirm(c)

\* _resume_pending.
ResumePending ==
  /\ Evicting("resume", "begin")
  /\ \E c \in Chunks :
       /\ Oldest(c, run.todo)
       /\ \E may \in MayResume(c) : IF may THEN Unlink(c) ELSE Skip(c)
  /\ UNCHANGED <<captured, seeded, row, expected, local, remote, sentinel,
                 engine, thread, holder, env, history>>

\* _evictable_candidates.
Candidates ==
  {c \in seeded :
     /\ row[c].evict # "evicted" /\ row[c].life \notin {"user_deleted", "evicted"}
     /\ IF Destination = "local" THEN row[c].life = "local_done"
                                 ELSE row[c].upload = "uploaded"}

\* The newest n chunks of S.
Newest(S, n) == {c \in S : Cardinality({d \in S : d > c}) < n}

\* _select_for_policy: age selects any of the candidates, a size cap any
\* number of the oldest.
Selections(keep) ==
  CASE Retention = "keep_forever"        -> {{}}
    [] Retention = "delete_after_upload" -> {Candidates \ Newest(Candidates, keep)}
    [] Retention = "delete_after_days"   -> SUBSET Candidates
    [] Retention = "size_cap" ->
         {Candidates \ Newest(Candidates, n) : n \in 0..MaxChunks}

KeepWindow == IF holder = "live" THEN KeepRecent ELSE 0

SelectEvictions ==
  /\ Evicting("resume", "begin")
  /\ run.todo = {}
  /\ \E S \in Selections(KeepWindow) : Step("evict", S)
  /\ UNCHANGED <<captured, seeded, row, expected, local, remote, sentinel,
                 engine, thread, holder, env, history>>

\* Mutant: the ledger's word that the chunk was uploaded is enough.
MayEvictOnLedger(c) ==
  IF Destination = "local" THEN {row[c].life = "local_done"}
                           ELSE {row[c].upload = "uploaded"}

\* begin_eviction re-reads the row and asks the bucket NOW; begin_local_eviction
\* asks for LOCAL_DONE only.
MayEvict(c) ==
  IF Destination = "local" THEN {row[c].life = "local_done"}
  ELSE IF row[c].upload = "uploaded" THEN Confirm(c) ELSE {FALSE}

EvictOne ==
  /\ Evicting("evict", "begin")
  /\ \E c \in Chunks :
       /\ Oldest(c, run.todo)
       /\ \E may \in MayEvict(c) :
            IF may THEN Unlink(c) /\ row' = [row EXCEPT ![c] = BeginEviction(@)]
                   ELSE Skip(c) /\ UNCHANGED row
  /\ UNCHANGED <<captured, seeded, expected, local, remote, sentinel, engine,
                 thread, holder, env, history>>

\* commit_eviction: the files go one by one, then the row says so.
UnlinkFile(step, file, next) ==
  /\ holder \in {"run", "live"}
  /\ run.step = step
  /\ local' = [local EXCEPT ![run.cur] = @ \ {file}]
  /\ run' = [run EXCEPT !.step = next]
  /\ UNCHANGED <<captured, seeded, row, expected, remote, sentinel, engine,
                 thread, holder, env, history>>
UnlinkVideo == UnlinkFile("video", "video", "manifest")
UnlinkManifest == UnlinkFile("manifest", "manifest", "commit")

CommitEvicted ==
  /\ holder \in {"run", "live"}
  /\ run.step = "commit"
  /\ row' = [row EXCEPT ![run.cur] = CommitEviction(@)]
  /\ run' = [run EXCEPT !.step = "begin", !.cur = 0]
  /\ UNCHANGED <<captured, seeded, expected, local, remote, sentinel, engine,
                 thread, holder, env, history>>

\* The pass is over: the lock is released, a live reclaim's thread goes on.
EndRetention ==
  /\ Evicting("evict", "begin")
  /\ run.todo = {}
  /\ live' = IF holder = "live" THEN [live EXCEPT !.pc = "wait"] ELSE live
  /\ Release
  /\ UNCHANGED <<captured, seeded, row, expected, local, remote, sentinel,
                 engine, results, env, history>>

Retain == ResumePending \/ SelectEvictions \/ EvictOne \/ UnlinkVideo
            \/ UnlinkManifest \/ CommitEvicted \/ EndRetention

RunStep == RouteLocal \/ CheckHoles \/ Reconcile \/ Revalidate \/ Produce
             \/ UploadScrubbed \/ UploadMedia \/ MarkConfirmed \/ WriteSentinel
             \/ Retain
=============================================================================
