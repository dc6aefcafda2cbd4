---------------------------- MODULE DaemonState ----------------------------
(***************************************************************************)
(* The state the tasks of the recording daemon share: the engine processes *)
(* and their recordings, the pidfile's lock, the Supervisor object, the    *)
(* ambient stream it keeps alive, and the encrypted store its recordings   *)
(* live in.  The daemon is one asyncio loop: a step of the model is what a *)
(* task does between two awaits.                                           *)
(*                                                                         *)
(* A session is one engine process and the recording it makes.  A user's   *)
(* recording is bound for the cloud, an ambient one stays on this Mac.     *)
(***************************************************************************)
EXTENDS Naturals

CONSTANTS
  MaxSessions,  \* engine processes ever started
  MaxRetries,   \* max_retries of the ambient re-arm
  MaxLives,     \* daemon processes ever started
  Faults        \* the disturbances and overlaps that may happen

Session == 1..MaxSessions

ASSUME DaemonAssumption ==
  /\ MaxSessions \in Nat
  /\ MaxRetries \in Nat
  /\ MaxLives \in Nat
  /\ Faults \subseteq {"crash", "detach", "pump", "late", "overlap",
                      "set", "roll"}

VARIABLES
  phase,      \* where each engine process is
  disk,       \* its recording: count still "open", "frozen", or "settled"
  kind,       \* who asked for it: "user" or "ambient"
  announced,  \* recording_finalized events published for each session
  crashed,    \* sessions an engine_crashed event was published for
  pid,        \* the pidfile: is its flock held, and the engine it names
  sup,        \* the Supervisor's engine handle, flags and exit poll
  op,         \* what runs under the operation lock, for whom
  amb,        \* the supervision of the ambient stream
  enabled,    \* ambient_enabled of the configuration file
  vol,        \* the store: is it mounted, is the sealed sentinel there
  store,      \* what the daemon takes the store for; the lock and unlocks
  recon,      \* the startup reconcile and the recordings it has to sweep
  resume,     \* recordings whose terminal stage the daemon runs
  daemon,     \* "up", "exiting" or "down"
  lives       \* daemon processes started

vars == <<phase, disk, kind, announced, crashed, pid, sup, op, amb, enabled,
          vol, store, recon, resume, daemon, lives>>
world  == <<phase, disk, kind>>
reports == <<announced, crashed>>
host   == <<enabled, daemon, lives>>

Live == {"booting", "recording", "finalizing", "converging", "done"}
Gone == {"clean", "crash", "killed", "reaped"}
Alive(s) == s \in Session /\ phase[s] \in Live
Exited(s) == s \in Session /\ phase[s] \in Gone

Flags == {"finalized", "stopping", "draining", "killed", "handled"}
NoEngine == [proc |-> 0, flags |-> {}, poll |-> FALSE, funnel |-> 0]
NoLock == [held |-> FALSE, engine |-> 0]
Free == [act |-> "free", by |-> "none", of |-> 0]
NoAmbient == [active |-> FALSE, degraded |-> FALSE, retries |-> 0,
              tasks |-> {}, roll |-> "no", off |-> FALSE]
Serving(state) == [sup |-> state, app |-> state, lock |-> "idle",
                   mounting |-> 0, adopting |-> 0]

TypeOK ==
  /\ phase \in [Session -> {"none"} \cup Live \cup Gone]
  /\ disk \in [Session -> {"open", "frozen", "settled"}]
  /\ kind \in [Session -> {"user", "ambient"}]
  /\ announced \in [Session -> 0..2]
  /\ crashed \subseteq Session
  /\ pid \in [held : BOOLEAN, engine : 0..MaxSessions]
  /\ sup \in [proc : 0..MaxSessions, flags : SUBSET Flags,
              poll : BOOLEAN, funnel : 0..MaxSessions]
  /\ op \in [act : {"free", "staging", "starting", "stopping"},
             by : {"none", "user", "ambient", "roll", "off", "lock"},
             of : 0..MaxSessions]
  /\ amb \in [active : BOOLEAN, degraded : BOOLEAN, retries : 0..MaxRetries+1,
              tasks : SUBSET {"backoff", "gate", "spawn"},
              roll : {"no", "stop", "gate", "spawn"}, off : BOOLEAN]
  /\ enabled \in BOOLEAN
  /\ vol \in [mounted : BOOLEAN, sealed : BOOLEAN]
  /\ store \in [sup : {"MOUNTED", "LOCKED"}, app : {"MOUNTED", "LOCKED"},
                lock : {"idle", "stop", "quiesce", "detach", "seal"},
                mounting : 0..2, adopting : 0..2]
  /\ recon \in [pc : {"idle", "queued", "killing"}, sweep : SUBSET Session]
  /\ resume \subseteq Session
  /\ daemon \in {"up", "exiting", "down"}
  /\ lives \in 0..MaxLives

Init ==
  /\ phase = [s \in Session |-> "none"]
  /\ disk = [s \in Session |-> "open"]
  /\ kind = [s \in Session |-> "user"]
  /\ announced = [s \in Session |-> 0]
  /\ crashed = {}
  /\ pid = NoLock
  /\ sup = NoEngine
  /\ op = Free
  /\ amb = NoAmbient
  /\ enabled \in BOOLEAN
  /\ vol = [mounted |-> FALSE, sealed |-> FALSE]
  /\ store = Serving("MOUNTED")
  /\ recon = [pc |-> "idle", sweep |-> {}]
  /\ resume = {}
  /\ daemon = "down"
  /\ lives = 0

-----------------------------------------------------------------------------
(* What the handlers ask.                                                  *)

Running == daemon = "up"
Recovering == recon.pc # "idle"
EngineAlive == Alive(sup.proc)

\* _quiesce_event is set from quiesce_for_lock until the lock is over.
Halting == store.lock \in {"quiesce", "detach", "seal"}

\* _recording_needs_resume, of a cloud recording.
NeedsResume(s) == kind[s] = "user" /\ disk[s] = "frozen"

\* _daemon_is_busy
Busy ==
  \/ sup.proc # 0
  \/ resume # {} \/ recon.sweep # {}
  \/ amb.active \/ amb.tasks # {}
  \/ store.lock # "idle"

\* abort_lock, and the handler's store_state with it
Unwound(st) == [st EXCEPT !.sup = "MOUNTED", !.app = "MOUNTED",
                          !.lock = "idle"]

\* _maybe_autostart_ambient
AutoStart(a, on) ==
  IF Running /\ on /\ ~a.active /\ ~a.degraded /\ a.tasks = {}
  THEN [a EXCEPT !.tasks = {"gate"}] ELSE a

\* _backoff_and_reschedule; `a` has used up one more retry
Backoff(a) ==
  IF a.retries >= MaxRetries
  THEN [a EXCEPT !.retries = MaxRetries + 1, !.degraded = TRUE]
  ELSE [a EXCEPT !.retries = @ + 1, !.tasks = @ \cup {"backoff"}]
=============================================================================
