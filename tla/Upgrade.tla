------------------------------ MODULE Upgrade ------------------------------
(***************************************************************************)
(* The upgrade of a plaintext library to the encrypted container:          *)
(* migration.py, the job that drives it (daemon/encrypt_job.py), and what  *)
(* the daemon does with it at its start.  A worker thread copies and       *)
(* verifies every recording into the container, mounted beside the         *)
(* library, then swaps the two and deletes the plaintext.  Recordings go   *)
(* on meanwhile; the daemon may be killed between any two steps.           *)
(***************************************************************************)
EXTENDS Naturals, FiniteSets

CONSTANTS
  Recording,  \* names of recordings
  None,       \* no recording
  MaxWrites,  \* how often a recording is written to
  MaxLives,   \* daemon processes ever started
  Faults      \* the disturbances that may happen

ASSUME UpgradeAssumption ==
  /\ None \notin Recording
  /\ MaxWrites \in Nat \ {0}
  /\ MaxLives \in Nat \ {0}
  /\ Faults \subseteq {"crash", "reboot", "disk", "fail", "swap", "late",
                      "early", "overlap"}

VARIABLES
  now,    \* what has been written of each recording; 0 is nothing
  plain,  \* what the host directory at the recordings path has of it
  aside,  \* where the swap moves that directory; is it there, what it has
  box,    \* what the container has
  side,   \* does the container have the index databases
  at,     \* where the container is mounted
  ledger, \* the migration's run row and its unit rows
  config, \* container_enabled, and is there a container
  job,    \* the worker thread of the EncryptJob
  live,   \* the recording being made
  lock,   \* the store lock: how far it is, or that it has sealed the store
  daemon  \* is it up, does it serve recordings, daemons started

vars == <<now, plain, aside, box, side, at, ledger, config, job, live, lock,
          daemon>>
disk == <<plain, aside, box, side, at>>

Version == 0..MaxWrites
Torn == MaxWrites + 1
Nothing == [r \in Recording |-> 0]

\* A job that has just got to `pc`.
Fresh(on, pc) ==
  [on |-> on, pc |-> pc, stop |-> FALSE, held |-> FALSE,
   todo |-> {}, skipped |-> FALSE, cur |-> None, saw |-> 0]
Idle == Fresh(FALSE, "off")

\* The steps of a pass, in the order of run_migration.
Steps == {"off", "begin", "next", "copying", "verify", "wait", "reserve",
          "mark", "sidecars", "detach", "move", "attach", "enable", "commit",
          "repair", "sweep"}

Runs == {"none", "running", "paused", "cancelled", "completed"}
Phases == {"copying", "cutting", "cutover", "done"}
Statuses == {"untracked", "pending", "copied", "verified", "deleted"}

Asides == [there : BOOLEAN, has : [Recording -> Version]]
Ledgers == [state : Runs, phase : Phases, unit : [Recording -> Statuses]]
Jobs == [on : BOOLEAN, pc : Steps, stop : BOOLEAN, held : BOOLEAN,
         todo : SUBSET Recording, skipped : BOOLEAN,
         cur : Recording \cup {None}, saw : Version]
Daemons == [up : BOOLEAN, serves : BOOLEAN, lives : 0..MaxLives]

TypeOK ==
  /\ now \in [Recording -> Version] /\ plain \in [Recording -> Version]
  /\ box \in [Recording -> 0..Torn]
  /\ aside \in Asides
  /\ side \in BOOLEAN
  /\ at \in {"nowhere", "interim", "final"}
  /\ ledger \in Ledgers
  /\ config \in [enabled : BOOLEAN, bundle : BOOLEAN]
  /\ job \in Jobs
  /\ live \in Recording \cup {None}
  /\ lock \in {"no", "pause", "detach", "sealed"}
  /\ daemon \in Daemons

\* A library of closed recordings.  Without a container the daemon serves it
\* only where container_enabled is false (resolve_store_state).
Init ==
  /\ now \in [Recording -> {0, 1}] /\ now # Nothing
  /\ plain = now
  /\ aside = [there |-> FALSE, has |-> Nothing]
  /\ box = Nothing
  /\ side = FALSE
  /\ at = "nowhere"
  /\ ledger = [state |-> "none", phase |-> "copying",
               unit |-> [r \in Recording |-> "untracked"]]
  /\ \E on \in BOOLEAN :
       /\ config = [enabled |-> on, bundle |-> FALSE]
       /\ daemon = [up |-> TRUE, serves |-> ~on, lives |-> 1]
  /\ job = Idle
  /\ live = None
  /\ lock = "no"

-----------------------------------------------------------------------------
(* The ledger.                                                             *)

Units(statuses) == {r \in Recording : ledger.unit[r] \in statuses}
Tracked == Units({"pending", "copied", "verified", "deleted"})

\* seed, of a library `lib`
Seeded(lib) ==
  [r \in Recording |-> IF ledger.unit[r] = "untracked" /\ lib[r] # 0
                       THEN "pending" ELSE ledger.unit[r]]

Marked(r, status) == [ledger EXCEPT !.unit[r] = status]

AllVerified == Tracked # {} /\ Units({"pending", "copied"}) = {}

IsDone == ledger.state = "completed" /\ ledger.phase = "done"

\* should_auto_resume
AutoResumes == ledger.state \notin {"none", "cancelled"} /\ ~IsDone

\* migration_holds_plaintext_mountpoint
HoldsMountpoint ==
  ledger.state \in {"running", "paused"} /\ ledger.phase \in {"copying", "cutting"}

-----------------------------------------------------------------------------
(* The recordings.  What is mounted at the recordings path is what they    *)
(* are written to.                                                         *)

Library == IF at = "final" THEN box ELSE plain

Written(r) ==
  /\ now' = [now EXCEPT ![r] = @ + 1]
  /\ IF at = "final"
     THEN box' = [box EXCEPT ![r] = now[r] + 1] /\ UNCHANGED plain
     ELSE plain' = [plain EXCEPT ![r] = now[r] + 1] /\ UNCHANGED box
  /\ UNCHANGED <<aside, side, at, ledger, config, job, lock, daemon>>

\* spawn; with the fault "early" also while a cutover that was cut off is
\* completed, which holds no reservation.
RecordingStarts(r) ==
  /\ daemon.up /\ daemon.serves /\ ~job.held
  /\ live = None /\ now[r] = 0
  /\ ledger.phase = "cutting" => "early" \in Faults
  /\ live' = r
  /\ Written(r)

RecordingGrows ==
  /\ live # None /\ now[live] < MaxWrites
  /\ Written(live)
  /\ UNCHANGED live

RecordingEnds ==
  /\ live # None
  /\ live' = None
  /\ UNCHANGED <<now, disk, ledger, config, job, lock, daemon>>

\* A recording that is closed changes again: its terminal stage, retention or a
\* range delete goes over it, or the ambient stream reopens its day; with the
\* fault "late" also after its copy has been verified.
RecordingChanges(r) ==
  /\ daemon.up /\ daemon.serves /\ ~job.held
  /\ live # r /\ Library[r] # 0 /\ now[r] < MaxWrites
  /\ ledger.phase = "copying" /\ ledger.unit[r] = "verified" => "late" \in Faults
  /\ ledger.phase = "cutting" => "early" \in Faults
  /\ Written(r)
  /\ UNCHANGED live

-----------------------------------------------------------------------------
(* A pass of run_migration.                                                *)

At(pc) == daemon.up /\ job.on /\ job.pc = pc
To(pc) == job' = [job EXCEPT !.pc = pc]
Quiet == UNCHANGED <<now, live, lock, daemon>>

\* _halt, and a run that ends: the job is over and its reservation released.
Halted(l) == [l EXCEPT !.state = IF @ = "cancelled" THEN @ ELSE "running"]
Over == job' = Idle

PassHalts ==
  /\ job.stop
  /\ \/ At("begin") /\ ~IsDone
     \/ At("next") /\ job.todo # {}
     \/ At("reserve") /\ live = None
  /\ ledger' = Halted(ledger)
  /\ Over
  /\ UNCHANGED <<disk, config>> /\ Quiet

\* A pass that finds the migration done returns at once; one that finds it past
\* its copies takes up where it was.
PassTakesUp ==
  /\ At("begin")
  /\ CASE IsDone -> Over
       [] ~job.stop /\ ledger.phase = "cutover" -> To("sweep")
       [] ~job.stop /\ ledger.phase = "cutting" -> To("repair")
       [] OTHER -> FALSE
  /\ UNCHANGED <<disk, ledger, config>> /\ Quiet

\* Mutant: what has been copied is left alone, verified or not.
OutstandingPending(units) == {r \in Recording : units[r] = "pending"}

\* What a pass copies: a copy that is not verified is made again.
Outstanding(units) == {r \in Recording : units[r] \in {"pending", "copied"}}

\* It lists the library before it copies, and mounts the container beside it.  A
\* run that was cancelled when all was done is taken for one that copies.
PassCopies ==
  /\ At("begin") /\ ~job.stop /\ ~IsDone /\ ledger.phase \in {"copying", "done"}
  /\ ledger' = [state |-> "running", phase |-> "copying", unit |-> Seeded(plain)]
  /\ at' = IF at = "nowhere" THEN "interim" ELSE at
  /\ job' = [job EXCEPT !.pc = "next", !.skipped = FALSE,
               !.todo = Outstanding(ledger'.unit)]
  /\ UNCHANGED <<plain, aside, box, side, config>> /\ Quiet

\* The preflight, or the copy itself, finds the disk full.
PassPauses ==
  /\ "disk" \in Faults
  /\ \/ At("begin") /\ ~job.stop /\ ledger.phase = "copying"
     \/ At("copying")
  /\ ledger' = [ledger EXCEPT !.state = "paused",
                  !.unit = IF job.pc = "begin" THEN Seeded(plain) ELSE @]
  /\ Over
  /\ UNCHANGED <<disk, config>> /\ Quiet

SkipActive(r) ==
  /\ At("next") /\ ~job.stop /\ r \in job.todo /\ r = live
  /\ job' = [job EXCEPT !.todo = @ \ {r}, !.skipped = TRUE]
  /\ UNCHANGED <<disk, ledger, config>> /\ Quiet

\* A unit that was copied and matches needs no second copy.
Reverify(r) ==
  /\ At("next") /\ ~job.stop /\ r \in job.todo /\ r # live
  /\ ledger.unit[r] = "copied" /\ box[r] = plain[r]
  /\ ledger' = Marked(r, "verified")
  /\ job' = [job EXCEPT !.todo = @ \ {r}]
  /\ UNCHANGED <<disk, config>> /\ Quiet

CopyBegins(r) ==
  /\ At("next") /\ ~job.stop /\ r \in job.todo /\ r # live
  /\ ~(ledger.unit[r] = "copied" /\ box[r] = plain[r])
  /\ box' = [box EXCEPT ![r] = Torn]
  /\ job' = [job EXCEPT !.todo = @ \ {r}, !.pc = "copying", !.cur = r,
               !.saw = plain[r]]
  /\ UNCHANGED <<plain, aside, side, at, ledger, config>> /\ Quiet

\* The copy of what changed meanwhile may be of neither.
CopyEnds ==
  /\ At("copying")
  /\ \/ box' = [box EXCEPT ![job.cur] = plain[job.cur]]
     \/ job.saw # plain[job.cur] /\ UNCHANGED box
  /\ ledger' = Marked(job.cur, "copied")
  /\ To("verify")
  /\ UNCHANGED <<plain, aside, side, at, config>> /\ Quiet

\* Mutant: the plaintext goes as soon as its copy is verified.
VerifyAndDelete ==
  /\ At("verify")
  /\ IF box[job.cur] = plain[job.cur]
     THEN /\ ledger' = Marked(job.cur, "verified")
          /\ plain' = [plain EXCEPT ![job.cur] = 0]
     ELSE UNCHANGED <<ledger, plain>>
  /\ job' = [job EXCEPT !.pc = "next", !.cur = None, !.saw = 0]
  /\ UNCHANGED <<aside, box, side, at, config>> /\ Quiet

Verify ==
  /\ At("verify")
  /\ ledger' = IF box[job.cur] = plain[job.cur]
               THEN Marked(job.cur, "verified") ELSE ledger
  /\ job' = [job EXCEPT !.pc = "next", !.cur = None, !.saw = 0]
  /\ UNCHANGED <<disk, config>> /\ Quiet

\* Mutant: the gate looks at what records and what is listed only.
MayCutOverUnverified ==
  live = None /\ \A r \in Recording : plain[r] # 0 => r \in Tracked

\* The gate: everything verified, nothing recording, nothing unlisted.
MayCutOver ==
  /\ ~job.skipped /\ AllVerified
  /\ live = None
  /\ \A r \in Recording : plain[r] # 0 => r \in Tracked

GateWaits ==
  /\ At("next") /\ job.todo = {} /\ ~MayCutOver
  /\ ledger' = [ledger EXCEPT !.state = "running",
                  !.unit = IF ~job.skipped /\ AllVerified /\ live = None
                           THEN Seeded(plain) ELSE @]
  /\ To("wait")
  /\ UNCHANGED <<disk, config>> /\ Quiet

GateOpens ==
  /\ At("next") /\ job.todo = {} /\ MayCutOver
  /\ To("reserve")
  /\ UNCHANGED <<disk, ledger, config>> /\ Quiet

\* Two seconds later, or when the stop flag is set.
Redrive ==
  /\ At("wait")
  /\ IF job.stop THEN Over ELSE To("begin")
  /\ UNCHANGED <<disk, ledger, config>> /\ Quiet

-----------------------------------------------------------------------------
(* The cutover.                                                            *)

\* acquire_migration refuses while something records; the job then fails.
ReservationRefused ==
  /\ At("reserve") /\ live # None
  /\ Over
  /\ UNCHANGED <<disk, ledger, config>> /\ Quiet

\* Mutant: the stop flag is not looked at under the reservation.
ReservedUnasked ==
  /\ At("reserve") /\ live = None
  /\ job' = [job EXCEPT !.pc = "mark", !.held = TRUE]
  /\ UNCHANGED <<disk, ledger, config>> /\ Quiet

\* Under the reservation a look at the stop flag, then the mark in the ledger: a
\* stop that comes between the two comes too late.
Reserved ==
  /\ At("reserve") /\ live = None /\ ~job.stop
  /\ job' = [job EXCEPT !.pc = "mark", !.held = TRUE]
  /\ UNCHANGED <<disk, ledger, config>> /\ Quiet

CutoverBegins ==
  /\ At("mark")
  /\ ledger' = [ledger EXCEPT !.phase = "cutting"]
  /\ To("sidecars")
  /\ UNCHANGED <<disk, config>> /\ Quiet

CopySidecars ==
  /\ At("sidecars")
  /\ side' = TRUE
  /\ To("detach")
  /\ UNCHANGED <<plain, aside, box, at, ledger, config>> /\ Quiet

DetachInterim ==
  /\ At("detach")
  /\ at' = "nowhere"
  /\ To("move")
  /\ UNCHANGED <<plain, aside, box, side, ledger, config>> /\ Quiet

\* _complete_interrupted_cutover: the databases are copied again only while the
\* container is still mounted beside the library.
Repair ==
  /\ At("repair")
  /\ IF at = "interim" THEN side' = TRUE /\ at' = "nowhere"
                       ELSE UNCHANGED <<side, at>>
  /\ To("move")
  /\ UNCHANGED <<plain, aside, box, ledger, config>> /\ Quiet

\* _swap_plaintext_for_container
MoveAside ==
  /\ At("move")
  /\ IF at # "final" /\ ~aside.there
     THEN /\ aside' = [there |-> TRUE, has |-> plain]
          /\ plain' = Nothing
     ELSE UNCHANGED <<aside, plain>>
  /\ To(IF at = "final" THEN "enable" ELSE "attach")
  /\ UNCHANGED <<box, side, at, ledger, config>> /\ Quiet

AttachFinal ==
  /\ At("attach")
  /\ at' = "final"
  /\ To("enable")
  /\ UNCHANGED <<plain, aside, box, side, ledger, config>> /\ Quiet

EnableContainer ==
  /\ At("enable")
  /\ config' = [config EXCEPT !.enabled = TRUE]
  /\ To("commit")
  /\ UNCHANGED <<disk, ledger>> /\ Quiet

CutoverDone ==
  /\ At("commit")
  /\ ledger' = [ledger EXCEPT !.phase = "cutover"]
  /\ job' = [job EXCEPT !.pc = "sweep", !.held = FALSE]
  /\ UNCHANGED <<disk, config>> /\ Quiet

\* _run_sweep, one recording at a time
Sweep(r) ==
  /\ At("sweep") /\ r \in Units({"pending", "copied", "verified"})
  /\ aside' = [aside EXCEPT !.has[r] = 0]
  /\ ledger' = Marked(r, "deleted")
  /\ UNCHANGED <<plain, box, side, at, config, job>> /\ Quiet

\* Mutant: the directory is removed with all that is in it.
SweepEndsAll ==
  /\ At("sweep") /\ Units({"pending", "copied", "verified"}) = {}
  /\ aside' = [there |-> FALSE, has |-> Nothing]
  /\ ledger' = [ledger EXCEPT !.state = "completed", !.phase = "done"]
  /\ Over
  /\ UNCHANGED <<plain, box, side, at, config>> /\ Quiet

\* _sweep_aside_root keeps what the ledger does not know.
SweepEnds ==
  /\ At("sweep") /\ Units({"pending", "copied", "verified"}) = {}
  /\ aside' = IF \E r \in Recording \ Tracked : aside.has[r] # 0 THEN aside
              ELSE [there |-> FALSE, has |-> Nothing]
  /\ ledger' = [ledger EXCEPT !.state = "completed", !.phase = "done"]
  /\ Over
  /\ UNCHANGED <<plain, box, side, at, config>> /\ Quiet

-----------------------------------------------------------------------------
(* The requests that drive the job.                                        *)

Driven == job' = Fresh(TRUE, "begin")

\* storage.encrypt.start; with the fault "overlap" also during a store lock.
EncryptStart ==
  /\ daemon.up /\ ~job.on
  /\ lock # "no" => "overlap" \in Faults
  /\ config' = [config EXCEPT !.bundle = TRUE]
  /\ Driven
  /\ UNCHANGED <<disk, ledger>> /\ Quiet

\* With the fault "overlap" also of a job that is done and not yet over.
EncryptCancel ==
  /\ daemon.up /\ job.on
  /\ ledger.phase = "done" => "overlap" \in Faults
  /\ ledger' = [ledger EXCEPT !.state = "cancelled"]
  /\ job' = [job EXCEPT !.stop = TRUE]
  /\ UNCHANGED <<disk, config>> /\ Quiet

\* The key, a mount or the copy of a recording raises; with the fault "swap"
\* also once the cutover has begun.  Nothing drives the migration any more.
JobFails ==
  /\ At("begin") \/ At("copying") \/ At("sidecars") \/ At("attach")
  /\ IF ledger.phase = "copying" THEN "fail" \in Faults ELSE "swap" \in Faults
  /\ Over
  /\ UNCHANGED <<disk, ledger, config>> /\ Quiet

-----------------------------------------------------------------------------
(* storage.lock and storage.unlock.                                        *)

\* The lock is refused during a cutover; it stops the recording and asks the
\* job to pause, and waits for it, but not for ever.
LockPauses ==
  /\ daemon.up /\ daemon.serves /\ lock = "no"
  /\ ledger.phase # "cutting"
  /\ lock' = "pause"
  /\ live' = None
  /\ daemon' = [daemon EXCEPT !.serves = FALSE]
  /\ job' = [job EXCEPT !.stop = job.on]
  /\ UNCHANGED <<now, disk, ledger, config>>

\* The second look, for a cutover that had begun.  The wait before it is longer
\* than one write to the ledger, except with the fault "overlap".
LockChecks ==
  /\ daemon.up /\ lock = "pause"
  /\ At("mark") => "overlap" \in Faults
  /\ IF ledger.phase = "cutting"
     THEN lock' = "no" /\ daemon' = [daemon EXCEPT !.serves = TRUE]
     ELSE lock' = "detach" /\ UNCHANGED daemon
  /\ UNCHANGED <<now, disk, ledger, config, job, live>>

\* A library that is not mounted cannot be detached: the lock is unwound.
LockDetaches ==
  /\ daemon.up /\ lock = "detach"
  /\ IF at = "final"
     THEN lock' = "sealed" /\ at' = "nowhere" /\ UNCHANGED daemon
     ELSE /\ lock' = "no" /\ daemon' = [daemon EXCEPT !.serves = TRUE]
          /\ UNCHANGED at
  /\ UNCHANGED <<now, plain, aside, box, side, ledger, config, job, live>>

Unlock ==
  /\ daemon.up /\ lock = "sealed"
  /\ lock' = "no"
  /\ at' = "final"
  /\ daemon' = [daemon EXCEPT !.serves = TRUE]
  /\ IF ~job.on /\ AutoResumes THEN Driven ELSE UNCHANGED job
  /\ UNCHANGED <<now, plain, aside, box, side, ledger, config, live>>

-----------------------------------------------------------------------------
(* The daemon process.                                                     *)

\* A kill leaves the disk and what is mounted as they are; a reboot unmounts,
\* with the fault "swap" also between the cutover's begin and the databases.
DaemonDies ==
  /\ daemon.up
  /\ \/ "crash" \in Faults /\ UNCHANGED at
     \/ /\ "reboot" \in Faults
        /\ ledger.phase = "cutting" /\ ~side => "swap" \in Faults
        /\ at' = "nowhere"
  /\ daemon' = [daemon EXCEPT !.up = FALSE, !.serves = FALSE]
  /\ lock' = IF lock = "sealed" THEN lock ELSE "no"
  /\ live' = None
  /\ Over
  /\ UNCHANGED <<now, plain, aside, box, side, ledger, config>>

\* Mutant: only a run that was paused is taken up again.
ResumesPaused == config.enabled /\ AutoResumes /\ ledger.state = "paused"

\* _reconcile_encrypt_job_on_start
Resumes == config.enabled /\ AutoResumes

\* resolve_store_state: is there a container to be attached, over an empty
\* directory only and not while the migration holds it; and is the library that
\* is there then one the daemon may serve.
Mounts ==
  /\ config.enabled /\ config.bundle /\ lock # "sealed"
  /\ ~HoldsMountpoint /\ at # "final" /\ plain = Nothing

Serves ==
  IF config.enabled
  THEN config.bundle /\ lock # "sealed" /\ (HoldsMountpoint \/ Mounts \/ at = "final")
  ELSE ~config.bundle

DaemonStarts ==
  /\ ~daemon.up /\ daemon.lives < MaxLives
  /\ at' = IF Mounts THEN "final" ELSE at
  /\ daemon' = [up |-> TRUE, serves |-> Serves, lives |-> daemon.lives + 1]
  /\ IF Resumes THEN Driven ELSE UNCHANGED job
  /\ UNCHANGED <<now, plain, aside, box, side, ledger, config, live, lock>>

-----------------------------------------------------------------------------
Record ==
  \/ \E r \in Recording : RecordingStarts(r) \/ RecordingChanges(r)
  \/ RecordingGrows \/ RecordingEnds
Copy ==
  \/ PassTakesUp \/ PassCopies \/ PassPauses \/ PassHalts
  \/ \E r \in Recording : SkipActive(r) \/ Reverify(r) \/ CopyBegins(r)
  \/ CopyEnds \/ Verify \/ GateWaits \/ GateOpens \/ Redrive
Cutover ==
  \/ ReservationRefused \/ Reserved \/ CutoverBegins \/ CopySidecars \/ DetachInterim
  \/ Repair \/ MoveAside \/ AttachFinal \/ EnableContainer \/ CutoverDone
Clean == SweepEnds \/ \E r \in Recording : Sweep(r)
Ask == EncryptStart \/ EncryptCancel \/ JobFails
Lock == LockPauses \/ LockChecks \/ LockDetaches \/ Unlock

Next == Record \/ Copy \/ Cutover \/ Clean \/ Ask \/ Lock
          \/ DaemonDies \/ DaemonStarts

Spec == Init /\ [][Next]_vars

-----------------------------------------------------------------------------
(* Safety.                                                                 *)

\* No footage is lost: all of what was written of a recording is in the library,
\* in the container or aside, whatever is cut off or cancelled.
NoFootageLost ==
  \A r \in Recording : now[r] \in {plain[r], aside.has[r], box[r]}

\* Until the cutover the plaintext library is the library: complete, and not
\* covered by a volume ("the single authoritative root for reads and new
\* recordings until the final cutover swap").
PlaintextStays == ledger.phase = "copying" => plain = now /\ at # "final"

\* What is mounted over the library has every listed recording whole, and
\* covers nothing.
CutOverWhole ==
  at = "final" =>
    /\ \A r \in Tracked : box[r] = now[r]
    /\ plain = Nothing

\* The index databases come along.
SidecarsCome == at = "final" => side

\* The detach of a store lock never meets the swap of a cutover, although the
\* lock does not wait for the job for ever.
LockSparesSwap == lock = "detach" => ledger.phase # "cutting"

-----------------------------------------------------------------------------
(* Liveness.                                                               *)

\* The worker thread runs, and so does the handler of a lock.
Fairness == WF_vars(Copy \/ Cutover \/ Clean) /\ WF_vars(LockChecks \/ LockDetaches)

LiveSpec == Spec /\ Fairness

\* A cutover is finished, by the next daemon if it was cut off, unless it was
\* cancelled or the configuration still turns the container off.
CutoverEnds ==
  ledger.phase = "cutting" ~>
    ledger.phase \in {"cutover", "done"} \/ ~daemon.up
      \/ ~config.enabled \/ ledger.state = "cancelled"

\* The job does not run for ever once nothing records.
UpgradeEnds == job.on ~> ~job.on \/ live # None
=============================================================================
