------------------------------- MODULE Daemon -------------------------------
(***************************************************************************)
(* The recording daemon: supervisor, store lock, the HTTP requests that    *)
(* drive them, the idle watchdog, and daemon processes that are shut down, *)
(* killed and started again over the same disk, pidfile and store.         *)
(***************************************************************************)
EXTENDS Supervisor, StoreLock

-----------------------------------------------------------------------------
(* The daemon process.                                                     *)

\* What a process takes with it; `named` is what it leaves in the pidfile.
Forgets(named) ==
  /\ pid' = [held |-> FALSE, engine |-> named]
  /\ sup' = NoEngine
  /\ op' = Free
  /\ amb' = NoAmbient
  /\ store' = Serving("MOUNTED")
  /\ recon' = [pc |-> "idle", sweep |-> {}]
  /\ resume' = {}

\* Supervisor.shutdown, once the server has drained its requests: the ambient
\* tasks are cancelled and the engine gets a bounded stop.
ShutdownBegins ==
  /\ Running
  /\ op = Free \/ op.by \in {"ambient", "roll"}
  /\ store.lock = "idle" /\ store.mounting = 0 /\ store.adopting = 0
  /\ ~amb.off
  /\ daemon' = "exiting"
  /\ op' = Free
  /\ amb' = [amb EXCEPT !.tasks = {}, !.roll = "no"]
  /\ IF EngineAlive
     THEN /\ sup' = [PollCancelled EXCEPT
                       !.flags = (@ \cup {"stopping"}) \ {"draining"}]
          /\ phase' = Terminated(sup.proc)
     ELSE UNCHANGED <<sup, phase>>
  /\ UNCHANGED <<disk, kind, reports, pid, vol, store, recon, resume, enabled,
                 lives>>

ShutdownKills ==
  /\ daemon = "exiting" /\ EngineAlive
  /\ phase' = [phase EXCEPT ![sup.proc] = "killed"]
  /\ sup' = [sup EXCEPT !.flags = @ \cup {"killed"}]
  /\ UNCHANGED <<disk, kind, reports, pid, op, amb, vol, store, recon, resume,
                 host>>

\* Shutdown waits for the reconcile, which has killed what it kills by then.
ShutdownEnds ==
  /\ daemon = "exiting" /\ ~EngineAlive /\ ~Recovering
  /\ daemon' = "down"
  /\ IF "stopping" \in sup.flags /\ "handled" \notin sup.flags
     THEN /\ Report(sup.proc, phase)
          /\ phase' = Reaped(phase, sup.proc)
     ELSE UNCHANGED <<reports, phase>>
  /\ Forgets(0)
  /\ UNCHANGED <<disk, kind, vol, enabled, lives>>

\* run_watchdog: no request that counts as activity for ten minutes, and
\* nothing _daemon_is_busy knows of.
IdleFires == ~Busy /\ op = Free /\ ShutdownBegins

DaemonKilled ==
  /\ daemon # "down" /\ "crash" \in Faults
  /\ daemon' = "down"
  /\ Forgets(pid.engine)
  /\ UNCHANGED <<world, reports, vol, enabled, lives>>

\* Mutant: the daemon starts without a look at the sentinel.
DaemonStartsOpen ==
  /\ daemon = "down" /\ lives < MaxLives
  /\ daemon' = "up"
  /\ lives' = lives + 1
  /\ store' = Serving("MOUNTED")
  /\ vol' = [vol EXCEPT !.mounted = IF vol.sealed THEN @ ELSE TRUE]
  /\ recon' = [recon EXCEPT !.pc = "queued"]
  /\ UNCHANGED <<world, reports, pid, sup, op, amb, resume, enabled>>

\* lifespan: resolve_store_state, then start_reconcile.
DaemonStarts ==
  /\ daemon = "down" /\ lives < MaxLives
  /\ daemon' = "up"
  /\ lives' = lives + 1
  /\ store' = Serving(IF vol.sealed THEN "LOCKED" ELSE "MOUNTED")
  /\ vol' = [vol EXCEPT !.mounted = IF vol.sealed THEN @ ELSE TRUE]
  /\ recon' = [recon EXCEPT !.pc = "queued"]
  /\ UNCHANGED <<world, reports, pid, sup, op, amb, resume, enabled>>

-----------------------------------------------------------------------------
Engine ==
  \E s \in Session : \/ EngineStarts(s) \/ EngineEndsItself(s)
                     \/ EngineFreezes(s) \/ EngineTells(s) \/ EngineExits(s)
Spawn ==
  \/ \E by \in {"user", "ambient", "roll"} : SpawnRefused(by) \/ SpawnBegins(by)
  \/ SpawnFails \/ SpawnReturns \/ SpawnTimesOut
  \/ \E s \in Session : SpawnLaunches(s)
Stop ==
  \/ \E by \in {"user", "roll", "off", "lock"} :
       StopRefused(by) \/ StopFindsNothing(by) \/ StopBegins(by)
  \/ StopKills \/ StopDrains \/ StopEnds
Exit == PollSees \/ FunnelGoesOn \/ BackstopKills
Ambient == AmbientOn \/ AmbientOff \/ RearmWakes \/ GateAnswers \/ DayTurns
Reconcile == ReconcileTerminates \/ ReconcileKills \/ ReconcileEnds
Resume == \E s \in Session : SweepResumes(s) \/ ResumeSettles(s)
                               \/ ResumeGivesUp(s)
Process == ShutdownBegins \/ ShutdownKills \/ ShutdownEnds \/ IdleFires
             \/ DaemonKilled \/ DaemonStarts

Next == Engine \/ Spawn \/ Stop \/ Exit \/ Ambient \/ Reconcile \/ Resume
          \/ LockOrUnlock \/ Process

Spec == Init /\ [][Next]_vars

-----------------------------------------------------------------------------
(* Safety.                                                                 *)

\* No two engines record at the same time, whichever of the user, the ambient
\* stream, a day roll, a crash of the daemon and its restart started them.
OneEngine == \A s, t \in Session : Alive(s) /\ Alive(t) => s = t

\* A live engine is never left to itself: once a daemon has reconciled, it
\* holds that engine under the pidfile's lock, and a poll or a stop waits for
\* its exit.
Supervised ==
  Running /\ ~Recovering =>
    \A s \in Session : Alive(s) =>
      sup.proc = s /\ pid.held /\ (sup.poll \/ op.act = "stopping")

\* The volume is never detached under an engine: begin_lock refuses every start
\* "for the entire stop-quiesce-detach window" and the stop in it is final.
EngineHasItsStore == \A s \in Session : Alive(s) => vol.mounted

\* A daemon that runs over a sealed store refuses recordings.
SealedRefusesStart == Running /\ vol.sealed => store.sup = "LOCKED"

\* An exit is announced once, whether the engine got to say so, and however
\* stop, poll, backstop and timeouts meet over it.
AnnouncedOnce == \A s \in Session : announced[s] <= 1

\* An engine reported as crashed died by itself, or never got to say `started`.
CrashesAreReal ==
  [][\A s \in crashed' \ crashed :
       phase[s] \in {"crash", "booting"}]_vars

-----------------------------------------------------------------------------
(* Liveness.                                                               *)

\* The loop runs every task that is ready, its timeouts fire, the operation
\* lock is handed over in the order of the requests (asyncio.Lock is fair), and
\* a kill kills.  Nothing is assumed of the engine, of the user, of an unlock or of
\* a shutdown.
Fairness ==
  /\ WF_vars(op.act \in {"staging", "starting"} /\ Spawn)
  /\ \A by \in {"ambient", "roll"} :
       SF_vars(SpawnRefused(by) \/ SpawnBegins(by))
  /\ \A by \in {"roll", "off", "lock"} :
       SF_vars(StopRefused(by) \/ StopFindsNothing(by) \/ StopBegins(by))
  /\ WF_vars(StopKills \/ StopDrains \/ StopEnds)
  /\ WF_vars(Exit)
  /\ WF_vars(RearmWakes \/ GateAnswers)
  /\ WF_vars(Reconcile)
  /\ WF_vars(Resume)
  /\ WF_vars(LockQuiesced \/ LockDetaches \/ LockDetachFails \/ LockSeals)

LiveSpec == Spec /\ Fairness

\* A store lock ends, sealed or unwound, whatever the engine, the resumes and
\* the other requests do.
LockEnds == store.lock # "idle" ~> store.lock = "idle"

\* The recordings of engines that are gone are all settled in the end, once their
\* count was frozen, unless the daemon goes or the store is locked.
Unsettled(s) == NeedsResume(s) /\ ~Alive(s)
FrozenSettles ==
  (\E s \in Session : Unsettled(s))
    ~> (\A s \in Session : ~Unsettled(s)) \/ ~Running \/ store.sup = "LOCKED"

\* An ambient stream the user has enabled comes back after everything that
\* held it off: a crash, a drain, a recording of the user, a reconcile.
AmbientReturns ==
  enabled ~>
    \/ amb.active \/ amb.degraded \/ ~enabled
    \/ ~Running \/ store.sup = "LOCKED"
    \/ op.by = "user"
    \/ \E s \in Session : Alive(s) /\ kind[s] = "user"
    \/ \A s \in Session : phase[s] # "none"
=============================================================================
