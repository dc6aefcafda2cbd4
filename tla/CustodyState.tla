---------------------------- MODULE CustodyState ----------------------------
(***************************************************************************)
(* The state that the actors of the custody pipeline share: one            *)
(* recording's ledger, its files on this Mac and in the bucket, the        *)
(* per-recording terminal lock, and the questions the code asks of them.   *)
(* The actors are LiveProcessor (the engine), TerminalStage (whoever       *)
(* converges the recording) and RangeDelete (the user's delete job).       *)
(*                                                                         *)
(* A chunk is two files: its video, which nothing can rebuild, and its     *)
(* manifest, which stands for all that recovery can regenerate.            *)
(***************************************************************************)
EXTENDS ChunkLedger

CONSTANTS
  MaxChunks,    \* chunks the engine may record
  Destination,  \* the frozen destination: "local" or "cloud"
  LiveUpload,   \* FALSE for a recording started with --no-live-upload
  Retention,    \* the frozen retention policy
  KeepRecent,   \* keep_recent of the during-recording reclaim
  SampleSize,   \* _REVALIDATE_SAMPLE_SIZE
  Faults,       \* the disturbances that may happen
  MaxCrashes    \* how many processes may be killed

Chunks == 1..MaxChunks

ASSUME CustodyAssumption ==
  /\ MaxChunks \in Nat
  /\ Destination \in {"local", "cloud"}
  /\ LiveUpload \in BOOLEAN
  /\ Retention \in {"keep_forever", "delete_after_upload",
                    "delete_after_days", "size_cap"}
  /\ KeepRecent \in Nat
  /\ SampleSize \in Nat
  /\ MaxCrashes \in Nat

VARIABLES
  captured,  \* chunks 1..captured have been rotated by the recorder
  seeded,    \* chunks with a ledger row
  row,       \* the ledger rows
  expected,  \* chunks_expected, 0 until it is frozen
  local,     \* [Chunks -> files in the recording's directory]
  remote,    \* [Chunks -> files in the bucket]
  sentinel,  \* chunks_expected of the uploaded sentinel, 0 if there is none
  engine,    \* where the engine process is
  live,      \* the chunk-processor thread
  results,   \* _chunk_results
  holder,    \* who holds the terminal lock
  run,       \* the lock holder's position
  flaky,     \* TRUE while any network call may fail
  crashes,   \* kills so far
  purged,    \* chunks under an origin='user' purged_interval
  lost       \* chunks whose copy the bucket has ever lost

vars == <<captured, seeded, row, expected, local, remote, sentinel, engine,
          live, results, holder, run, flaky, crashes, purged, lost>>
history == <<purged, lost>>
env     == <<flaky, crashes>>
lock    == <<holder, run>>
thread  == <<live, results>>

Files == {"video", "manifest"}

Idle == [pc |-> "idle", step |-> "begin", todo |-> {}, cur |-> 0,
         ok |-> FALSE]

RunLabels == {"idle", "route", "holes", "reconcile", "revalidate",
              "produce", "upload", "media", "mark", "sentinel", "resume",
              "evict"}
EvictSteps == {"begin", "video", "manifest", "commit"}
RunState == [pc : RunLabels, step : EvictSteps, todo : SUBSET Chunks,
             cur : 0..MaxChunks, ok : BOOLEAN]

LiveLabels == {"wait", "taken", "head", "stage", "mark", "ship", "put",
               "retry", "mirror", "evict", "off"}
LiveState == [pc : LiveLabels, chunk : 0..MaxChunks, again : BOOLEAN,
              closed : BOOLEAN]

EngineState == {"recording", "draining", "finalize", "freeze", "converge",
                "converging", "exiting", "exited", "gone"}
Results == {"none", "pending", "emitted", "failed"}

TypeOK ==
  /\ captured \in 0..MaxChunks
  /\ seeded \in SUBSET Chunks
  /\ row \in [Chunks -> Row]
  /\ expected \in 0..MaxChunks
  /\ local \in [Chunks -> SUBSET Files]
  /\ remote \in [Chunks -> SUBSET Files]
  /\ sentinel \in 0..MaxChunks
  /\ engine \in EngineState
  /\ live \in LiveState
  /\ results \in [Chunks -> Results]
  /\ holder \in {"none", "live", "run", "delete"}
  /\ run \in RunState
  /\ flaky \in BOOLEAN
  /\ crashes \in 0..MaxCrashes
  /\ purged \in SUBSET Chunks
  /\ lost \in SUBSET Chunks

Init ==
  /\ captured = 0
  /\ seeded = {}
  /\ row = [c \in Chunks |-> PendingRow]
  /\ expected = 0
  /\ local = [c \in Chunks |-> {}]
  /\ remote = [c \in Chunks |-> {}]
  /\ sentinel = 0
  /\ engine = "recording"
  /\ live = [pc |-> "wait", chunk |-> 0, again |-> FALSE, closed |-> FALSE]
  /\ results = [c \in Chunks |-> "none"]
  /\ holder = "none"
  /\ run = Idle
  /\ flaky = ("flaky" \in Faults)
  /\ crashes = 0
  /\ purged = {}
  /\ lost = {}

-----------------------------------------------------------------------------
\* A network call that would succeed: it may fail while the network is flaky.
Outcomes(success) == IF success /\ flaky THEN {TRUE, FALSE} ELSE {success}

\* Mutant: one core file in the bucket is taken for the chunk.
ConfirmAnyFile(c) == Outcomes("video" \in local[c] /\ local[c] \cap remote[c] # {})

\* _chunk_confirmed_remote: the video must be here to be probed, and every
\* core file that is here must be in the bucket.
Confirm(c) == Outcomes("video" \in local[c] /\ local[c] \subseteq remote[c])

\* _chunk_confirmed_absent: positive evidence that a core file is missing.
ConfirmAbsent(c) ==
  Outcomes("video" \in local[c] /\ ~(local[c] \subseteq remote[c]))

UploadEnabled == Destination = "cloud" /\ LiveUpload
AutoDelete == UploadEnabled /\ Retention = "delete_after_upload"

EngineAlive == engine \notin {"exited", "gone"}

Gate == FinalizeGate(seeded, row, expected)

Oldest(c, S) == c \in S /\ \A d \in S : c <= d

Acquire(who, label, todo) ==
  /\ holder = "none"
  /\ holder' = who
  /\ run' = [Idle EXCEPT !.pc = label, !.todo = todo]

Release == holder' = "none" /\ run' = Idle
=============================================================================
