# Verification of Screencap

Screencap is a private screen memory: a CLI, a background daemon that listens on
a UNIX socket, and an engine process that records the screen in chunks. Each
chunk goes through a pipeline (stage, ship, settle); a terminal stage converges
the recording on its destination (this Mac, the cloud, or both); retention frees
local files; the user may destroy a span of time for good. This directory holds
TLA+ models of the parts whose correctness depends on order, interleaving and
failure, the TLC runs that check them, and TLAPS proofs of the properties that
matter most.

All source paths below are relative to `src/screencap/` of the repository.

## 1. Inventory

| Component | State | Operations | What is hard | What makes it correct |
|---|---|---|---|---|
| Event bus (`daemon/event_bus.py`, `events_stream` in `daemon/app.py`) | cursor, replay ring, subscribers, per-subscriber bounded queue | subscribe (live or since a cursor), publish, shutdown, remove; the stream handler's loop | handlers suspended in `queue.get` while the bus closes them; replay next to live events; shutdown with a backlog | gap-free streams, headroom after a replay, nothing lost at shutdown, every stream ends |
| Pipeline ledger (`pipeline_state.py`) | a row per chunk (lifecycle, upload, evict), `chunks_expected` | one transaction per transition; the finalize gate | the transitions do not look at the old state, so callers must | a row never claims what is not so; the gate means completeness |
| Chunk processor (`chunk_processor.py`, `pipeline_stages.py`) | queue position, `_chunk_results` | take, stage, ship, mirror, reclaim | the lock is released between upload, retry and mirror | as above |
| Engine finalize (`engine/collaborators.py`) | - | drain or time out, reconcile, freeze, converge | a thread left behind, messages thrown away | the frozen count covers the recording |
| Terminal stage (`terminal_stage.py`) | per-recording lock | both routes, hole check, reconcile, revalidate, produce, upload, mark, sentinel | four kinds of callers, killed anywhere, network failures | safe at any cut, converges when retried |
| Retention (`retention.py`) | rows in EVICT_PENDING | resume, select, confirm, unlink, commit | stale confirmation; crash between ledger and disk | footage is unlinked only when the bucket has it |
| Range delete (`range_delete.py`, `daemon/delete_job.py`) | `purged_interval` spans | transaction, unlink, reconcile | crash in the middle, live pipeline on the same chunk | what was deleted goes, and stays gone |
| Supervisor (`daemon/supervisor.py`, `pidfile.py`) | engine handle and flags, exit poll, operation lock, pidfile, reconcile, resumes | spawn, stop, exit funnel, backstop, reconcile and sweep, shutdown | cancellation in the middle of the funnel, kill escalation, a daemon that dies under its engine | one engine at a time, none unwatched, every exit announced once, every frozen recording settled |
| Ambient stream (`daemon/supervisor.py`, `ambient.set` in `daemon/app.py`) | active, degraded, retries, scheduled tasks, day roll | enable, disable, start gate, re-arm, roll | many paths that may each bring it back, or decline | it comes back |
| Store lock (`daemon/store_lifecycle.py`, `container.py`, lock/unlock in `daemon/app.py`) | store state, mount, sealed sentinel | lock, unlock, mount, relocate | two handlers interleaving at awaits | no engine on a detached store, none started on a sealed one, a lock ends |
| Upgrade to the encrypted container (`migration.py`, `daemon/encrypt_job.py`) | library, container, mount, migration ledger, worker thread | copy, verify, cutover, sweep, pause, cancel, resume | killed or unmounted between any two steps, recordings and locks meanwhile | nothing is lost, the swap is all or nothing and is finished |
| Task store (`pipeline_state.py`, `tasks.*` in `daemon/app.py`) | task rows, their index ranges | create, update, delete, merge, split; replace; purge | a pass computed from rows the user has changed since | curation survives, the index ranges stay apart |
| Segmentation and window names (`terminal_stage.py`, `segmentation/`, `enforcement/scrub_worker.py`) | name cache, scrub generation, recorded outcome | digest, name, store, finalize, consolidate, replace; scrub | a scrub or a range delete in the middle of a pass, a pass that is killed | scrubbed text does not return |
| Idle shutdown (`daemon/_idle_shutdown.py`) | last activity | watchdog | busy check against new work | never exits with work in flight |
| Background jobs (`daemon/*_job.py`, `retention_sweep.py`) | one job each | start, pause, resume, cancel | pausing for a store lock | single flight |
| Accounts and tokens (`auth.py`, token loop in `supervisor.py`) | refresh token, minted token, owner pin | sign in, mint, re-mint | account switch in a recording | no upload to another account |
| Audio (`engine/recorder.py`, `engine/audio_mute.py`, `engine/video.py`, `redaction/muted_marker.py`) | two command queues, the stream controller, muted intervals; one buffer, one writer, the chunk's file; rotation and ack queues | mute, pause, poll, shut down; flush, rotate, tear down; wait for the ack, transcribe, drop muted segments | two axes over two queues, a device that fails in the middle of a toggle, three writers of one buffer, a file whose offsets leave out the muted spans | a confirmed mute is silent, one answer per request, no frame lost, no muted speech in the transcript |
| Capture engine otherwise, privacy filter, scrubber, content index, cryptography, sharing, CLI, MCP, macOS app, browser extension, cloud functions | | | data transformations, I/O, other languages | not modelled (section 8) |

Components interact through the per-recording files and SQLite ledger (shared by
the engine process, the daemon and any `screencap upload`), the per-recording
terminal lock (an in-process lock plus a `flock`, which the kernel drops when
its holder dies), the engine's queue from recorder to chunk processor, and the
event bus. `PROJECT.json` lists every component and, under `hazards`, each place
that is hard to test, with the properties that cover it.

## 2. Plan

1. `EventBus`, `EventBusProofs` - **done**.
2. Custody: `ChunkLedger`, `CustodyState`, `LiveProcessor`, `TerminalStage`,
   `RangeDelete`, composed in `Custody`; abstract specification `ChunkCustody`;
   proofs in `CustodyProofs` - **done**.
3. The daemon: `DaemonState`, `Supervisor`, `StoreLock`, composed in `Daemon`
   with the daemon process itself; proofs in `DaemonProofs` - **done**.
4. `Upgrade`, `UpgradeProofs` - **done**.
5. `TaskStore` and, over it, `Segmentation` (a pass against edits and scrubs);
   proofs in `SegmentationProofs` - **done**.
6. The other background jobs, task protection in retention, the account gate of
   the terminal stage, `storage.mount` and the relocation of a library.
7. `AudioControl` and, over it, `Audio`; proofs in `AudioControlProofs` and
   `AudioProofs`; the refinement `Audio => AudioControl` - **done**.
8. `TerminalProofs`: `EvictedStaysFree`, `DeletedStaysGone` and the sentinel,
   each under the assumption it needs - **done**.

## 3. Modules

### EventBus

`publish`, `subscribe`, `shutdown` and `remove` hold one `asyncio.Lock` and
await nothing inside it, so each is one step. The stream handler is a process
with a program counter: `check` (the closed flag), `get` (awaiting its queue, or
the 0.5 s timeout), `drain` (the flush after a shutdown), `done`. An event is its
cursor. `Disconnect` may happen wherever the handler awaits.

### Custody

One recording, its chunks numbered `1..MaxChunks`. A chunk has two files: the
video, which nothing can rebuild, and the manifest, which stands for everything
that recovery can regenerate. `CustodyState` declares the shared state: ledger
rows, `expected` (0 until frozen), the files here and in the bucket, the
sentinel, the engine's phase, the processor thread, the terminal lock and its
holder's position.

| Module | Actions | Code |
|---|---|---|
| `ChunkLedger` | one operator per transition, the finalize gate | `PipelineLedger` |
| `LiveProcessor` | `Rotate`; thread `TakeChunk`, `SeedChunk`, `StageBegins`, `StageFails`, `WriteManifest`, `StageDone`, `ShipNothing`, `ShipLock`, `Put`, `MirrorStatus`, `StartReclaim`; `StopRecording`, `Drained`, `DrainTimeout`, `FinalReconcile`, `Freeze`, `EngineExits`, `EngineKilled` | `chunk_processor.py`, `engine/collaborators.py` |
| `TerminalStage` | callers `Converge`, `ExitResume`, `StartupSweep`, `UserUpload`; routes `RouteLocal`, `CheckHoles`, `Reconcile`, `Revalidate`, `Produce`, `UploadScrubbed`, `UploadMedia`, `MarkConfirmed`, `WriteSentinel`; retention `ResumePending`, `SelectEvictions`, `EvictOne`, `UnlinkVideo`, `UnlinkManifest`, `CommitEvicted`, `EndRetention` | `terminal_stage.py`, `retention.py`, `daemon/supervisor.py` |
| `RangeDelete` | `CommitDelete`, `ReconcileDeletes`, `UnlinkCovered` | `range_delete.py` |
| `Custody` | the composition, `HolderKilled`, `BucketLoss`, `Heal`, the properties | - |
| `ChunkCustody` | the abstract specification: `Record`, `Ship`, `Drop`, `UserDelete`, `Lose` | - |

A loop of the code visits chunks one at a time over the snapshot it took when it
began; a step of the model is one visit, so a kill can fall between any two
visits, between an upload and its ledger write, and between each of the
eviction's ledger write, two unlinks and second ledger write. The cooperative
stop that a store lock asks of a running terminal stage (`_check_stop`) ends a
run at one of those boundaries and is covered by `HolderKilled`. The live
reclaim is the same retention pass, entered by the processor thread with the
keep window.

The order in which `_chunk_local_files` lists a chunk's files (video first,
manifest last) is the order of the two unlinks. `Confirm` is the remote probe:
it needs the local video to know what to probe, and answers yes only when every
core file that is here is in the bucket; while the network is flaky it may also
answer no. `BucketLoss` takes an object whose original is still here, except in
the instant between the eviction's fresh confirmation and its unlink, a window
no client can close.

`ChunkCustody` is the promise without any mechanism: a copy on this Mac is given
up only when the bucket has the other one or the user asked for its destruction.
`KeepsCustody` instantiates it with `here` and `there` mapped to the chunks whose
video is on this Mac and in the bucket.

### Daemon

The daemon is one asyncio loop, so a step is what a task does between two
awaits. `DaemonState` declares what the tasks share; a session is one engine
process and the recording it makes. The world outlives the daemon: `phase` (the
engine processes, which go on without it), `disk` (is the recording's count
open, frozen or settled), the pidfile, the volume and its sealed sentinel, the
configuration. `sup`, `op`, `amb`, `store`, `recon` and `resume` are memory that
a kill wipes (`Forgets`).

| Module | Actions | Code |
|---|---|---|
| `Supervisor` | engine `EngineStarts`, `EngineEndsItself`, `EngineFreezes`, `EngineTells`, `EngineExits`; exit `PollSees`, `FunnelGoesOn`, `BackstopKills` over `Report`, `Conclude`, `AfterExit`; `SpawnRefused`, `SpawnBegins`, `SpawnFails`, `SpawnLaunches`, `SpawnReturns`, `SpawnTimesOut`; `StopRefused`, `StopFindsNothing`, `StopBegins`, `StopKills`, `StopDrains`, `StopEnds`; ambient `AmbientOn`, `AmbientOff`, `RearmWakes`, `GateAnswers`, `DayTurns`; `ReconcileTerminates`, `ReconcileKills`, `ReconcileEnds`, `SweepResumes`, `ResumeSettles`, `ResumeGivesUp` | `daemon/supervisor.py` |
| `StoreLock` | `LockBegins`, `LockQuiesced`, `LockDetaches`, `LockDetachFails`, `LockSeals`; `UnlockBegins`, `UnlockMounts`, `UnlockFails`, `UnlockAdopts` | `storage_lock`, `storage_unlock` in `daemon/app.py`, `daemon/store_lifecycle.py` |
| `Daemon` | `ShutdownBegins`, `ShutdownKills`, `ShutdownEnds`, `IdleFires`, `DaemonKilled`, `DaemonStarts`, the composition and the properties | `Supervisor.shutdown`, `daemon/_idle_shutdown.py`, `lifespan` |

The operation lock (`op`) says which of spawn and stop is under way and for whom:
a user's request, the ambient stream, a day roll, an `ambient.set` that turns it
off, or a store lock. The exit of an engine can be concluded by its poll, by the
stop that waits for it, by a spawn that gives up or by the shutdown; all four
go through `Conclude`, the code's `_handle_engine_exit`, which is split where it
awaits the pump (`PollSees` then `FunnelGoesOn`, the fault "pump"). A refused
request that changes nothing is a stutter and has no action.

`Faults` of the daemon: "crash" (the daemon is killed), "detach" (the volume
stays busy), "pump" (the funnel waits for the pump), "late" (a spawn or a stop
comes between an engine's death and the handling of its exit), "overlap"
(unlocks overlap a lock or each other), "set" (`ambient.set`), "roll" (a day
turns).

### Upgrade

One migration of a library with the recordings `Recording`. A recording is the
number of times it was written to; its copies are compared by that number, as
the code compares digests, and `Torn` is a copy that is being made. `plain` is
the host directory at the recordings path, `aside` where the swap moves it,
`box` the container, `at` where that is mounted. `job` is the worker thread with
a program counter, one position per await or per write to ledger or disk:
the pass (`PassTakesUp`, `PassCopies`, `PassPauses`, `PassHalts`), one recording
at a time (`SkipActive`, `Reverify`, `CopyBegins`, `CopyEnds`, `Verify`), the
gate (`GateWaits`, `GateOpens`, `Redrive`), the cutover (`ReservationRefused`,
`Reserved`, `CutoverBegins`, `CopySidecars`, `DetachInterim`, `MoveAside`,
`AttachFinal`, `EnableContainer`, `CutoverDone`), the completion of one that was
cut off (`Repair`), and the sweep (`Sweep`, `SweepEnds`). Around it:
`RecordingStarts`, `RecordingGrows`, `RecordingEnds`, `RecordingChanges`;
`EncryptStart`, `EncryptCancel`, `JobFails`; `LockPauses`, `LockChecks`,
`LockDetaches`, `Unlock`; `DaemonDies`, `DaemonStarts`.

`Faults` of the upgrade: "crash" (the daemon is killed and mounts stay),
"reboot" (they do not), "disk" (it fills up), "fail" (the key, a mount or a copy
raises), and four that are left out of `Upgrade` because they refute its
properties: "late" (a recording changes after its verification), "early" (one
starts or changes while a cutover that was cut off is being completed),
"overlap" (a job is started or cancelled in the window of a lock or of its own
end), "swap" (a failure or reboot between the cutover's begin and the copy of the
databases).

### Segmentation

The day is cut into slots, and a name is the set of slots it was derived from;
so a name is clean as long as none of its slots has lost its evidence (`gone`).
`TaskStore` holds the rows and the verbs: `CreateTask`, `UpdateTask`,
`DeleteTask`, `MergeTasks`, `SplitTask`, each one `BEGIN IMMEDIATE` transaction,
and `Purge`. `Segmentation` adds the name cache, the scrub generation, the
outcome, and one pass at a time under the terminal lock: `StartPass`,
`DigestWindow`, `ReadCommitted`, `NameWindow`, `SkipWindow`, then one of
`NoneNamed`, `Discard`, `HandOn`, then `Consolidate` or its fallback `CarveOut`,
`Replace` and `Record`. `KillPass` may fall before any of them. `ScrubTarget` (the
scrub worker) and `DeleteRange` purge rows and names and move the generation in
one transaction; `User` takes no lock and may come between any two steps. The
windows are any partition of the closed slots, which covers pinning and
arbitration; a block's name is the union of the names it was made from;
a window's digest rests on what is left of its own slots and, unless it opens
with a `window.switch` (`Opening`), on the last switch before it (`Inherited`);
`Trimmed` is `_subtract_spans` over the rows the user keeps, whose bounds the
store does not order (`Bounds`, not `Spans`). A tick on a live recording runs no
pass over an unchanged `Fingerprint`; its code also has a consolidation key,
which moves with the same things. `vetted` is a history variable: what had been
removed when the guard let the last full pass through.

### AudioControl and Audio

`AudioControl` is the microphone's switch: the control channel's reader in the
engine's main process (`SetMuted`, `SetPaused`, `Stop`), the main thread of the
audio process (`NextMute`, `MutesApplied`, `NextPause`, `PausesApplied`,
`Shutdown`, `CloseSpan`), which drains the mute queue and then the pause queue
and does both once more after the stop, and the device (`Tick`), which is the
clock: while the stream runs each tick captures a frame. `ctl` is the
`AudioStreamController`, `rows` the table `muted_intervals`. A frame carries its
tick and whether the last request that was received asked for silence. While the
main thread polls, a command is younger than `PollTicks` when time goes on.
`Faults`: "open" and "close" (the write that opens or closes an interval
raises), "stop" and "device" (the stream does not stop or start), "skip" (the
policy lets no stream be opened).

`Audio` adds what becomes of the frames: `Capture` puts them in the buffer; the
flush thread (`FlushWakes`, `FlushRotates`, `FlushWrites`), the teardown of
the main thread (`FlushJoined`, `LastRotation`, `LastFrames`, `FinalAck`,
`CloseFile`) and both through `Rotate` write them to the current chunk's file;
the video writer begins with its first frame (`FirstFrame`), which a pause or a
denied screen may keep away for good, and decides where a chunk ends (`RotateVideo`,
`CloseVideo`, which announces nothing when there was no frame); the
chunk processor takes a chunk, waits for its ack and transcribes the file
(`TakeChunk`, `TakeAck`, `WaitTimesOut`). One frame is one tick and one segment of
the transcript. `ToWall` and `Quiet` are `_compressed_to_wall` and the muted
spans of `apply_muted_intervals_to_segments`; a segment is dropped when it comes
to lie within `Guard` of a muted span. `Audio` implements `AudioControl`, with
whose variables it does nothing else (`ImplementsControl`), so what is said of
the one holds of the other.

## 4. Runs

| Run | Question | Result |
|---|---|---|
| `EventBus` | Is every stream gap-free, and does a shutdown lose nothing and end all streams? | holds |
| `CloudCrash` | Do rows tell the truth, do freed and deleted files stay gone, and does the daemon alone ship every chunk unless the user destroys some, under a flaky network, a stop that gives up on the processor, deletes at any time and a kill of any process, while a size cap evicts? | holds |
| `CloudConcurrent` | Does footage stay somewhere, does the sentinel tell the truth, and is every step one the abstract custody allows, while uploads and the user's deletes run beside the live processor; failing stages, bucket loss and a kill of the engine included? | holds |
| `LocalCustody` | Are confirmed deletes carried out in a recording that stays here (and may be promoted), although their process is killed? | holds |
| `NoLiveUpload` | Does the terminal stage upload what `--no-live-upload` left to it (`tests/test_chunk_processor.py:170`)? | violated |
| `Daemon` | Two engine processes under up to two daemon processes over the same disk: is there ever a second live engine, an unwatched one, one without its store, a start on a sealed store, an exit announced twice or miscalled a crash? | holds |
| `DaemonLive` | Does a store lock end, is every frozen recording settled or taken up, and does the ambient stream come back, over day rolls, crashes of the engine and a funnel that has to wait? | holds |
| `Upgrade` | Does an upgrade keep all footage and the plaintext library until the cutover, swap all or nothing, stay clear of a lock's detach, and end, under kills, reboots, a full disk, failures, cancels and locks? | holds |
| `UpgradeStale` | Is nothing recorded lost when a recording changes after its copy was verified (`migration.py:3-5`)? | violated |
| `Segmentation` | Do the user's rows survive every pass, does no cached name outlive the evidence of its own span, and does the staleness guard keep what was scrubbed out of a full pass, under edits, scrubs, range deletes and kills? | holds |
| `AudioTranscript` | A mute and an unmute at any moment of two chunks: is every frame written, does an acked file stay as it is, are the muted intervals those that were asked for, and does none of their speech get into the transcript of a first chunk that begins with its file? | holds |
| `AudioFaults` | Three commands, of which up to two mutes and two pauses, while opening an interval, the device, its stop and the policy may fail: is a confirmed mute silent, has each request one answer, and does a stop end with every chunk of the video read, be there none, one or two? | holds |

The type invariants are proved and so have no run of their own, like
`SidecarsCome` and `AxesAgree`; each of them held when TLC checked it on
an instance of the kind above before it was proved.

The findings in `PROJECT.json` quote the claim each violated run refutes and say
what the code does instead.

Divergences without a run of their own. Each can be seen by giving the named
configuration to TLC.

- Custody, with `SPECIFICATION RetrySpec`, `MaxChunks = 2`, `LiveUpload = TRUE`,
  `KeepRecent = 1`, `SampleSize = 8`: a delete that a crash cut off is not always
  finished (`DeletesFinish`, `Destination = "cloud"`, `keep_forever`,
  `{"kill_holder", "flaky", "delete", "upload"}`, one crash): after a kill between
  the transaction and the unlink, an upload overwrites USER_DELETED with UPLOADED
  (`terminal_stage.py:2553`) and `reconcile_user_deletes` forgets the chunk, where
  `range_delete.py:772` says such a crash "cannot leave" bytes on disk; a cloud recording with a deleted, never
  uploaded chunk does not converge (`Converges`, `keep_forever`,
  `{"flaky", "upload", "delete"}`, no crash; `SECURITY.md:188`); a promoted local
  recording gets no media (`Converges`, `Destination = "local"`,
  `keep_forever`, `{"upload"}`; `terminal_stage.py:2281`); an eviction that a
  crash cut off is not always finished (`EvictionsFinish`, `delete_after_upload`,
  `{"kill_engine", "upload"}`, one crash; `pipeline_state.py:270`).
- A drain timeout throws away the messages of chunks that have no ledger row,
  and the sentinel is then uploaded without them (`pipeline_state.py:812` says
  rows are seeded at rotation; this is why
  `SentinelMeansComplete` is asked in `CloudConcurrent` and not in `CloudCrash`); `chunks_expected` is counted from the manifests that
  the live reclaim has left (`engine/collaborators.py:555`); a failed live
  upload that is mirrored after a manual upload has shipped and evicted the
  chunk turns an EVICTED row's upload state to failed (`chunk_processor.py:605`);
  the local route writes LOCAL_DONE over USER_DELETED (`terminal_stage.py:936`);
  a sentinel whose own upload failed is not retried by a daemon start, since the
  gate is satisfied (`daemon/supervisor.py:1411`), only by the user's next
  upload.
- Custody, where the assumptions of the theorems come from: with "upload_live"
  `EvictedStaysFree` fails in a cloud recording, since a manual upload may
  evict a chunk that the processor is still staging, and its manifest is then
  written again (`CloudCrash` with "upload" and "upload_live"); with
  "drain_timeout" it fails in a local one, which is converged beside the thread
  that was left behind (`LocalCustody`). `DeletedStaysGone` fails when uploads run
  beside the live processor, without any kill (`CloudConcurrent`; "upload",
  "upload_live", "delete" and "delete_live" are enough): `produce` recovers a
  manifest for the chunk in flight, by which a delete can then place it, and the
  stage, which asks the row once, at the head of the chunk, writes the manifest
  again and `mark_staged` over USER_DELETED. `pipeline_stages.py:181` says "never
  re-stage it", and `range_delete.py:9` that the live chunk in flight is excluded.
- Custody, without such uploads: `mark_staged` overwrites USER_DELETED also when a
  chunk is deleted between the last stage and that write. A kill that cuts this
  delete off leaves files that no reconcile looks for: `DeletesFinish` fails in
  `LocalCustody` when "delete_live" is added to its faults. It fails there with two
  crashes too. `UploadsFinish` fails in `CloudCrash` when "upload" and
  "upload_live", "stage_error" or "bucket_loss" is added: each can leave a chunk
  behind that the daemon's own resumes do not take up.
- Daemon, with `MaxSessions = 1`, `MaxRetries = 0`, `MaxLives = 1`: a stop that
  finds its engine already dead cancels the poll and returns, so nobody resumes
  the recording before the next daemon start (`FrozenSettles` under `LiveSpec`,
  `{"late"}`; `daemon/supervisor.py:1056`, against the comment at 1764, "EXACTLY
  ONCE from this single exit funnel"); unlocks that overlap a lock can leave a
  sealed sentinel under a daemon that takes its store for mounted
  (`SealedRefusesStart`, `{"overlap"}`; `daemon/app.py:5188`). With `{"pump",
  "late"}` and two sessions `OneEngine` and `Supervised` fail: the pidfile's lock
  can be claimed again by its holder (`pidfile.py:229`), and a funnel that was
  waiting for the pump resets the session that has been started since.
- Daemon, seen while modelling: `ambient.set` off while an ambient spawn is in
  flight does nothing to it; a user's recording that a store lock kills before its
  count is frozen is not resumed; the idle watchdog can fire in the gap of a day
  roll; a second unlock's reconcile ends a recording started after the first;
  starts refused by a locked store use up the retries of the ambient stream; a
  crash between an unlock's mount and the removal of the sentinel leaves a
  mounted store that counts as sealed.
- Upgrade: with `{"early", "crash"}` `CutOverWhole` and `NoFootageLost` fail (a
  cutover that was cut off is completed without the reservation); with
  `{"overlap"}` `PlaintextStays` fails (a cancel of a job that is done but not
  yet over turns its ledger back into one that copies) and `LockSparesSwap`
  fails (a job started during a lock's pause, or a wait that runs out at the
  mark; the comment near `daemon/app.py:5103` calls the second look an "airtight
  backstop"); with `{"swap", "reboot"}` `SidecarsCome` fails
  (`migration.py:1001` copies the databases again only while the container is
  mounted beside the library).
- Upgrade, seen while modelling: the gate's `set_run(RUNNING)` overwrites a
  cancel, which is to be "TERMINAL (never auto-resumed)" (`encrypt_job.py:222`);
  a lock during the copies pauses the job, cannot detach, unwinds, and nothing
  resumes the job; a refused reservation ends the job as failed with its ledger
  still running; after the cutover the supervisor's store state stays what it
  was until a restart; an empty library never cuts over.
- Segmentation, with `CacheCleanWhole` for `CacheClean`: a window that does not open
  with a `window.switch` inherits the last one before its start
  (`segmentation/windows.py:467`), and its cached name may say what that switch
  said. A scrub or a range delete purges the names whose spans overlap what it
  removes (`enforcement/scrub_worker.py:177`, `range_delete.py:410`), so a
  removal of the earlier slot alone leaves the later window's name in the cache. The
  docstring of `_purge_ondevice_window_names` says the purge is for names derived
  from the titles a scrub deletes, and line 902 that a task's name derived from one
  "must not survive in the Journal": an agent's task of the later window keeps it in the same
  way. A cached one is not served again, since the digest, which is looked up
  with the span, has changed; it stays in the database until a purge meets its span
  or a new name replaces it.
- Segmentation, in terms a reader can state over its variables (`MaxSlot = 2`):
  a scrub that lands after `finalize_window_names` has passed and before
  `replace_task_segments` finds no rows to purge, and the pass then writes names
  of what is gone (`\A i \in DOMAIN rows \ Kept : rows[i].name \cap gone = {}`
  fails in ten states, also because a trimmed piece keeps the name of its whole
  block), against `enforcement/scrub_worker.py:902`, "must not survive in the
  Journal", and the docstring of `finalize_window_names`; an edit made after the
  pass has read the rows the user keeps may be overlapped by the new ones,
  against the comment at `terminal_stage.py:1331`; a halted window's carried name
  becomes unnamed when its block has no other window (`consolidate.py`,
  `_name_single`), though SCR-278 is to keep it shown; a `tasks.update` of one
  bound is not compared with the stored other one (`daemon/app.py:3125`), so a
  row's end may come before its start, and `_subtract_spans` then leaves pieces
  that overlap (needs `MaxSlot = 3`).
- Segmentation, seen while modelling: a live pass that the staleness guard
  discarded is not run again on the next tick, as `terminal_stage.py:1153` says,
  when nothing else has changed, since the tick records its fingerprint however
  the pass ended (`daemon/supervisor.py:2432`); an edit of a row that is already
  kept does not move the fingerprint (against `daemon/supervisor.py:2407`); the
  cloud summary fallback bypasses the guard; the halves of a split keep the
  agent's bullets.
- Daemon, in `DaemonLive`: with "detach" added `FrozenSettles` fails: a recording
  whose resume gave up, or was stopped, for a lock that then cannot detach stays
  unsettled until the next daemon start. With "late" `AmbientReturns` fails as well as
  `FrozenSettles`: a day roll that finds the ambient engine already dead ends its
  session without a re-arm. `Supervised` fails in `Daemon` when "pump" is added.
- Audio, each with the configuration that shows it. `PollTicks = 1`,
  `InitiallyMuted = FALSE`, `Guard = 1` throughout, and `MaxTogether` 4 where
  nothing else is said, which leaves the commands to `MaxCommands`.
  - `MutedSpeechStaysOut`, stated for every chunk, fails for the second one
    (`Axes = {"mute"}`, `Faults = {}`, `MaxTime = 6`, `MaxCommands = 1`,
    `MaxChunks = 2`): its file begins with the flush thread's next round, up to 30
    s after the chunk, and the offsets are put on the chunk's own clock
    (`redaction/muted_marker.py:8`, "no muted speech reaches the transcript").
  - The time the stream takes to stop adds up over the mutes of a chunk, and the
    guard covers only so much of it: with `MaxCommands = 3`, `MaxTime = 4`,
    `MaxChunks = 1` the property fails for the first chunk too. Hence
    `MaxCommands = 2` in `AudioTranscript`, that is one mute and its end.
  - `MutedSpeechStaysOut` without `from = 0` fails for the first chunk as well
    (configuration of `AudioTranscript`): the chunk begins with the video's first
    frame, its file with the audio's first (`engine/video.py:769`), so when the
    video comes late the offsets are off by the difference.
  - A recording that is stopped before its first video frame, paused at once or
    with the screen denied, announces no chunk (`engine/video.py:809`). What it heard
    lies in `audio_0000.flac` and is never transcribed. `StopEnds` claims nothing
    of it; without the condition `video.writer` it fails in `AudioFaults`.
  - An unmute in a pause leaves its interval open, and what is said after the
    resume is dropped (`HeardIsUncovered`, `AudioControl`,
    `Axes = {"mute", "pause"}`, `Faults = {}`, `MaxTime = 4`, `MaxCommands = 2`;
    `engine/db/models.py:452`).
  - A close that raises after the stream has started emits no event at all
    (`OneAnswerPerRequest`, `Axes = {"mute"}`, `Faults = {"close"}`,
    `MaxTime = 3`, `MaxCommands = 2`; `engine/recorder.py:2723`), and the app
    goes on to show the mute.
  - The final ack is sent before the writer is closed (`AckMeansClosed`,
    `Audio`, `Axes = {}`, `MaxTime = 2`, `MaxCommands = 0`, `MaxChunks = 1`;
    `chunk_processor.py:882`).
- Audio, seen while modelling: a resume that fails leaves the stream paused in
  the controller's book, so that a later unmute is confirmed and silent; a
  pause whose stop fails is swallowed and capture goes on; a mute and a pause
  received in one poll round are applied in the order of the queues, not of
  the clock, and speech between the two may then have no interval (so
  `MutedIsCovered` is asked without pauses); a mute whose stop failed and is asked
  for again opens a second interval; a recording that starts muted has no
  interval for that; a session that cannot be opened gives no event.

Bounds. Two subscriptions, a queue of three and a ring of two reach every
overlap of replay, eviction and shutdown; five events wrap the ring twice. Two
chunks and one kill reach every order of one chunk's upload, eviction or delete
against another's, since chunks interact only through the loops' order, the
gate and the keep window. `KeepRecent` is 1 instead of the code's 2, so that the
reclaim evicts with two chunks; the re-validation's sample is the code's 8 (all
chunks) except in `NoLiveUpload`, where a sample of one of two chunks stands for
eight of nine. `Faults` names the disturbances of a run, so that each run asks
its questions in a state space TLC exhausts in a few minutes. Two engine processes and two daemon processes reach every overlap of a session
with the next one and of a daemon with its predecessor's engine; a retry limit
of 0 makes the second failure degrade the ambient stream. `DaemonLive` uses
one daemon process, and "pump" and "roll" of its faults, since "late" and
"detach" refute what it asks (above). Two recordings written twice, and two daemon
processes, reach a copy that is torn, stale, verified or unlisted beside one
that is not, and a cutover that is cut off at any step and taken up again. Two slots give one
window or two, blocks of one window and of two, and a trim that leaves a piece;
`Opening` is empty, so that every window inherits what it can;
one edit beside a row that the user may have written before, and two purges, put
an edit, a scrub and a second scrub anywhere in a live pass, its retry and the
final one. In that run no replace fails on a taken index: `RangesDisjoint` is
why. One mute with its end puts the request, its application and the frames in
between anywhere in two chunks, their rotations and the teardown. `MaxCommands` bounds the
commands of each axis and `MaxTogether` those of both: three of them, two at most of
a kind, are the shortest that can set one axis against the other's end (a pause, a mute,
a resume; a mute, a pause, an unmute), over the two queues, in one tick or over two,
and two chunks put a rotation, the final chunk and their acks, which the
processor may meet in the wait for the other chunk, before, between and after
them. The theorems on `ConfirmedMuteIsSilent` and `OneAnswerPerRequest` have
no such bound.
`CHECK_DEADLOCK FALSE` because a recording that has been converged has nothing
left to do, nor has a bus whose events are used up, nor a daemon that is down
after its last start.

## 5. Fairness

`EventBus`: weak fairness of each stream handler. asyncio runs every ready task,
and the handler's only wait has a timeout. Publishing, subscribing, shutdown and
disconnecting are not fair.

`Custody`: weak fairness of the processor thread, of the run that holds the
lock, of the delete job and of the engine's own finalize (a process that runs
keeps running), of `StopRecording` (someone stops the recording) and of `Heal`
(the network recovers). `DaemonSpec` adds `StartupSweep`: a daemon is started
again from time to time; `UploadsFinish` (which asks nothing of a recording
of which the user destroys a part) needs no more than that. `RetrySpec`
adds strong fairness of `ReconcileDeletes` and `UserUpload`: both are repeated,
and the lock, which is free again and again, is eventually found free. The first
is what daemon starts and delete jobs do; the second makes the divergences
of section 4 stronger: a user who uploads again
and again does not get there either. Kills, bucket loss, deletes and drain
timeouts are never fair.

`Daemon`: weak fairness of the tasks of the loop that have begun something
(spawn, stop, exit, re-arm, reconcile, resume, lock): asyncio
runs what is ready, every wait in them has a timeout, and a kill kills. Strong
fairness of each waiter for the operation lock, which `asyncio.Lock` hands over
in the order of the requests. A resume that runs is taken to settle its recording
or give up. Nothing is assumed of the engine, which may hang in any phase, nor
of users, unlocks, shutdowns, crashes and faults.

`Upgrade`: weak fairness of the worker thread and of a lock's handler. Nothing is
assumed of recordings, requests, kills or restarts.

`Audio`: weak fairness of the audio process's main thread, of its flush thread, of
the chunk processor and of the video writer's close. Each is a loop whose waits
have timeouts. Nobody has to stop the recording, send a command or rotate a
chunk, and the clock need not go on.

## 6. Proofs

`EventBusProofs`: for any set of subscriptions, any queue size, any ring depth
smaller than it (the `assert` of `event_bus.py`) and any number of events. The
inductive invariant `BusInv` says where each queue stands relative to the ring,
to what the client was sent and to the cursor at which the subscription was
closed; `TypeOK`, `QueueIsNextInLine`, `ReplayLeavesHeadroom`, `ShutdownLosesNothing` and
the action property `ClientSeesEveryCursor` follow.

`CustodyProofs`: for any number of chunks, any destination, policy, keep window,
sample size, set of faults and number of kills.

- `CustodySafe`: `CustodyInv` is invariant. `NoFootageLost` alone is not
  inductive: a state may hold a video nowhere but here while retention stands at
  its unlink. `CustodyInv` adds what each unlink rests on: a cloud chunk about
  to be unlinked is in the bucket (`UnlinkIsCovered`; nothing can take it between
  the fresh confirmation and the unlink), a local one has its eviction in the
  ledger, what the delete job unlinks is under a purge span
  (`DeleteIsCovered`), and nothing is known of chunks that were not recorded
  (`RecordedFirst`).
- `TypeSafe`, `FootageSafe`: its consequences `TypeOK` and `NoFootageLost`.
- `UploadedSafe`: `UploadedMeansInBucket`, for `LiveUpload`. Three writers set
  a row to uploaded, on three kinds of evidence: the mirror of a live upload
  (`MirrorIsCovered`), the engine's reconcile and the terminal stage's probe.
  Without `LiveUpload` it is false (`NoLiveUpload`).
- `CustodyRefines`: for a cloud recording, `Spec => KeepsCustody`: the initial
  state maps to the abstract one and every step to an abstract step or a
  stutter.

`DaemonProofs`: for any number of sessions, retries and daemon lives, and any
faults without "pump" and "overlap" (`NoOverlaps`; with them the statements are
false, section 4). The invariant `IInv` is checked action by action, one lemma
`<Action>Keeps` each:

- `OneEngineAtATime` and `EnginesAreSupervised` rest on `Tracked`: the pidfile
  names every live engine, which is the supervisor's own or what an earlier
  daemon left and the reconcile is about to kill. A spawn claims the pidfile
  only when nothing lives (`Operated`), and no request slips between a daemon's
  start and its reconcile (`Recovered`).
- `EnginesHaveTheirStore` rests on `LockedOut`: behind the stop of a lock there
  is no engine and nobody to start one.
- `SealedStoresRefuse` rests on `StoreKnown`, which says at each step of a lock
  and an unlock what daemon and disk know of each other.
- `ExitsAreAnnouncedOnce` and the action property `ReportedCrashesAreReal` rest
  on `Unreported`: whoever kills has noted it before the exit is seen, and a
  session is announced only behind its `finalized` flag.
- `Typed`: the type invariant, with it the ceiling of the retries.

`UpgradeProofs`: for any library, any number of writes and of daemon lives, and
any faults without "late", "early", "overlap" and "swap" (`NoDisturbance`). The
invariant says where the worker stands relative to the ledger (`InStep`), who is
kept out by the reservation (`Reserving`), what a copy is of (`Copying`), that
what was verified stays whole (`Whole`), where the container must be at each
step (`Mounted`), that the plaintext is moved once (`MovedOnce`), and what a
store lock has asked for (`Locking`). `TypeOK`, `NoFootageLost`,
`PlaintextStays`, `CutOverWhole`, `SidecarsCome` and `LockSparesSwap` follow.

`SegmentationProofs`: for recordings of any length, any base and number of user
rows, edits and purges. `IInv` joins the types and `RangesDisjoint` with what a
pass knows: before the guard, a pass whose generation is still current has read
nothing that is gone and calls its tasks by what it read (`Reading`); behind it,
a full pass carries nothing that was gone at the guard (`Vetting`); and of a cached
name, what lies in its own span is not gone (`CacheClean`): a purge meets the
names whose spans it overlaps and leaves alone the others, whose spans then lose
nothing (`Apart`). What a name inherits from before its span is outside that.
`CacheClean` and `VettedNamesClean` follow; `CurationStays` is an
action property proved from `RangesDisjoint`: a replace writes below the base,
where no row the user keeps can be.

`TerminalProofs`: what is said of the files and the sentinel of one recording,
for any number of chunks, any policy and number of kills, on top of
`CustodyInv`.

- `FreedSafe`: `EvictedStaysFree`, under `Apart`: no manual upload of a recording
  that is still going on, and no local recording that is converged beside a
  thread that a timed-out drain left behind. Without either it is false (section
  4). The invariant `ApartInv` joins that the thread takes the chunks in order,
  one at a time, and none after the drain (`ThreadInOrder`), that retention works
  on chunks with a row and only under the lock (`RetentionKnows`), that no run
  is at work while a chunk is being staged (`StagesAlone`), and that a chunk's files go
  before its row says so (`FreedFiles`). Then whatever brings files
  back, the last stage or the recovery of a run, finds a chunk that has no
  eviction behind it, or one whose video is here.
- `SentinelSafe`: `SentinelMeansComplete`, for a recording with live upload whose
  drain ends. `CountIsComplete` says that when the count is frozen
  every chunk has its row, so that a gate that is satisfied speaks of
  all of them; with `UploadedMeansInBucket` the rows are evidence. It holds with
  manual uploads at any time, kills, deletes and bucket losses. The two
  assumptions are what the violated run `NoLiveUpload` and the drain timeout of
  section 4 refute.
- `DeletedSafe`: `DeletedStaysGone`, an action property, without "upload_live": a
  delete places a chunk by its manifest, which a chunk that is being staged does
  not have, since no run that could recover one is at work then
  (`StagesUnplaceable`); and a recovery asks for the video. With "upload_live" it is
  false (section 4).

`AudioControlProofs`, for any clock, number of commands and polling delay:

- `ControlTypesHold`, with the bound on the answers.
- `ConfirmedMuteHolds` and `OneAnswerHolds`, for every fault but "close", in
  which the poll loop swallows the answer. The first rests on `Suppressed`: a
  controller that is muted or paused does not capture.
- `AxesHold`: without failures, once both queues are empty the stream runs
  exactly when neither the last mute nor the last pause suppresses it.
- `MutedCoverHolds`, for every fault but "open", and `HeardHolds`, without
  faults; both without pauses, with which they are false. `InOrder` says that
  the commands in the queue are in the order of their time, and
  `CoverInv` and `HeardInv` how the intervals lie between what was applied, what is in
  the queue and what was captured.

`AudioProofs`, for any number of chunks, any guard, clock and faults:

- `ImplementsControl`: `Spec => ControlSpec`, step by step, so that the theorems
  above hold of `Audio`.
- `TypesHold`: a rotation never names a chunk out of order, so that the index of the
  file is always one of a chunk (`RotationsInOrder`).
- `FramesHold`: `FramesKept`. Three writers share the buffer; the invariant says
  that no frame leaves it but into a file, and that what is left in it when no
  file is written any more was captured after the stop (`Keeps`, `Ends`).
- `AckedFilesHold`: the action property `AckedFilesStay`. `Acks` says that an ack on
  its way, or taken, is of a file behind the current one, or of one that
  is written no more.

## 7. Only model-checked

Liveness (`StreamsEnd`, `UploadsFinish`, `DeletesFinish`, `LockEnds`,
`FrozenSettles`, `AmbientReturns`, `CutoverEnds`, `UpgradeEnds`, `StopEnds`):
fairness and `ENABLED` are out of the prover's reach.

`MutedSpeechStaysOut`, which is of a first chunk that begins with its file:
`ToWall` chooses the tick with a given number of spoken
ticks before it, so a proof would be an induction over the ticks of a chunk; and
the property holds only as long as the latencies of a chunk's mutes stay
within the guard (section 4), a bound on their sum.

Every other property of a passing run is stated by a theorem of section 6.

## 8. Not modelled

- Inside the modelled parts: the scrub column and masked video (inert while the
  masked-upload flag is off), local naming at the end of the local route, the
  account gate at the head of the cloud route, directories without a ledger,
  task protection and screenshot trimming in retention, a delete's partial
  spans, and the persistent scrubbed copy, which is taken to be rebuilt from
  what is here.
- Inside the daemon: the token loop and the scrub worker, `storage.mount`, the
  ERROR and ABSENT states of the store, claimants of the pidfile outside the
  daemon (`screencap stop --force`), a crash between an engine's launch and the
  pidfile's record of it, and the shutdown's own timeout on the reconcile.
- Inside the upgrade: the lost-original branch of the verification, the space
  estimate (the preflight may refuse at any time), and recordings inside the
  container that were made before their session is known.
- Inside segmentation: the cloud summary fallback, bullets, categories, threads,
  the day narrative, the diary index and `tasks.json`, the transcripts, and a
  purge that fails inside the scrub's transaction (its error is swallowed there).
- Inside the audio path: a file that cannot be written, the resampler, the delay
  of the feeder threads behind the queues of two processes (a message that is put
  is there), and the 10 s limit of the teardown's join.
- Components: those planned in section 2, item 6, accounts and tokens. The rest of the
  capture engine, the privacy filter and the scrubber transform data; the content index and recall
  are queries over derived data; cryptography, sharing, review, export and
  download are I/O; the macOS app, the browser extension and the cloud functions
  are separate programs in other languages. Most of the repository's lines are
  of these kinds: command-line front ends, screen capture, text classification,
  formatting and file transfer, without state that several actors share.
