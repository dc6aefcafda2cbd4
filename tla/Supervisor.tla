----------------------------- MODULE Supervisor -----------------------------
(***************************************************************************)
(* daemon/supervisor.py: the Supervisor that starts, watches and stops the *)
(* one engine process, funnels every exit of it through one handler, kills *)
(* an engine that does not end, and keeps the ambient stream alive.        *)
(***************************************************************************)
EXTENDS DaemonState

-----------------------------------------------------------------------------
(* The engine process, as the supervisor knows it: it says `started`,      *)
(* finalizes after a SIGTERM or on its own, freezes the chunk count, ships *)
(* what it can, says `recording_finalized` and exits; or it dies.  The     *)
(* task that waits for `started` wakes before anything else happens to it. *)

Waited(s) == op.act = "starting" /\ op.of = s
Moves(s, from, to) ==
  /\ phase[s] = from
  /\ phase' = [phase EXCEPT ![s] = to]

EngineStarts(s) ==
  /\ Moves(s, "booting", "recording")
  /\ UNCHANGED <<disk, kind, reports, pid, sup, op, amb, vol, store, recon,
                 resume, host>>

EngineEndsItself(s) ==
  /\ ~Waited(s)
  /\ Moves(s, "recording", "finalizing")
  /\ UNCHANGED <<disk, kind, reports, pid, sup, op, amb, vol, store, recon,
                 resume, host>>

EngineFreezes(s) ==
  /\ Moves(s, "finalizing", "converging")
  /\ disk' = [disk EXCEPT ![s] = "frozen"]
  /\ UNCHANGED <<kind, reports, pid, sup, op, amb, vol, store, recon, resume,
                 host>>

\* Mutant: the pump publishes the event and does not note that it has.
EngineTellsUnseen(s) ==
  /\ Moves(s, "converging", "done")
  /\ disk' = [disk EXCEPT ![s] = "settled"]
  /\ announced' = IF sup.proc = s
                  THEN [announced EXCEPT ![s] = IF @ < 2 THEN @ + 1 ELSE 2]
                  ELSE announced
  /\ UNCHANGED <<kind, crashed, pid, sup, op, amb, vol, store, recon, resume,
                 host>>

\* The pump reads the event, publishes it and notes it (_observe_event); the
\* engine of an earlier daemon has nobody to read it.
EngineTells(s) ==
  /\ Moves(s, "converging", "done")
  /\ \/ disk' = [disk EXCEPT ![s] = "settled"]
     \/ kind[s] = "user" /\ UNCHANGED disk
  /\ IF sup.proc = s
     THEN /\ announced' = [announced EXCEPT ![s] = IF @ < 2 THEN @ + 1 ELSE 2]
          /\ sup' = [sup EXCEPT !.flags = @ \cup {"finalized"}]
     ELSE UNCHANGED <<announced, sup>>
  /\ UNCHANGED <<kind, crashed, pid, op, amb, vol, store, recon, resume, host>>

EngineExits(s) ==
  /\ \/ Moves(s, "done", "clean")
     \/ /\ Alive(s)
        /\ phase[s] = "recording" => ~Waited(s)
        /\ Moves(s, phase[s], "crash")
  /\ UNCHANGED <<disk, kind, reports, pid, sup, op, amb, vol, store, recon,
                 resume, host>>

-----------------------------------------------------------------------------
(* _handle_engine_exit.                                                    *)

\* Mutant: a drain that the daemon itself cuts off is taken for a crash.
OperatorTerminatedUnlessDraining(flags) ==
  "stopping" \in flags /\ "draining" \notin flags

\* _exit_is_operator_terminated
OperatorTerminated(flags) ==
  "killed" \in flags \/ ("stopping" \in flags /\ "draining" \notin flags)

\* What the funnel does once the pump has ended.  The exit code is that of the
\* engine it was called for; the session it finalizes is the one the
\* supervisor holds by now.
Report(rcOf, p) ==
  LET s == sup.proc
      unseen == s # 0 /\ "finalized" \notin sup.flags
  IN /\ announced' = IF unseen
                     THEN [announced EXCEPT ![s] = IF @ < 2 THEN @ + 1 ELSE 2]
                     ELSE announced
     /\ crashed' = IF unseen /\ p[rcOf] # "clean"
                        /\ ~OperatorTerminated(sup.flags)
                   THEN crashed \cup {s} ELSE crashed

\* The exit code is read once, and gone.
Reaped(p, s) == [p EXCEPT ![s] = "reaped"]

\* Mutant: only an engine that died by itself leaves a recording to resume.
ConcludeCrashesOnly(rcOf, p) ==
  /\ Report(rcOf, p)
  /\ phase' = Reaped(p, rcOf)
  /\ pid' = NoLock
  /\ sup' = NoEngine
  /\ resume' = IF sup.proc # 0 /\ kind[sup.proc] = "user"
                  /\ ~OperatorTerminated(sup.flags)
               THEN resume \cup {sup.proc} ELSE resume

Conclude(rcOf, p) ==
  /\ Report(rcOf, p)
  /\ phase' = Reaped(p, rcOf)
  /\ pid' = NoLock
  /\ sup' = NoEngine
  /\ resume' = IF sup.proc # 0 /\ kind[sup.proc] = "user"
               THEN resume \cup {sup.proc} ELSE resume

\* Mutant: the exit of a user's recording is nothing to the ambient stream.
AfterExitOwnOnly(rcOf, p) ==
  LET ended == [amb EXCEPT !.active = FALSE]
      rearmed == [ended EXCEPT !.retries = 0, !.tasks = @ \cup {"backoff"}]
  IN IF ~amb.active THEN {amb}
     ELSE IF amb.roll # "no" \/ ~Running THEN {ended}
     ELSE IF ~enabled THEN {[ended EXCEPT !.retries = 0]}
     ELSE IF p[rcOf] = "clean" THEN {rearmed}
     ELSE {rearmed, Backoff(ended)}

\* The ambient stream after an exit: _schedule_ambient_rearm for its own, and
\* _maybe_autostart_ambient for the one that kept it out.  Whether a crash was
\* rapid is left open.
AfterExit(rcOf, p) ==
  LET ended == [amb EXCEPT !.active = FALSE]
      rearmed == [ended EXCEPT !.retries = 0, !.tasks = @ \cup {"backoff"}]
  IN IF ~amb.active THEN {AutoStart(amb, enabled)}
     ELSE IF amb.roll # "no" \/ ~Running THEN {ended}
     ELSE IF ~enabled THEN {[ended EXCEPT !.retries = 0]}
     ELSE IF p[rcOf] = "clean" THEN {rearmed}
     ELSE {rearmed, Backoff(ended)}

\* _exit_poll.  With the fault "pump" the funnel may have to wait for the pump.
PollSees ==
  /\ sup.poll /\ Exited(sup.proc) /\ sup.funnel = 0
  /\ "handled" \notin sup.flags
  /\ \/ /\ Conclude(sup.proc, phase)
        /\ amb' \in AfterExit(sup.proc, phase)
     \/ /\ "pump" \in Faults
        /\ sup' = [sup EXCEPT !.flags = @ \cup {"handled"},
                              !.funnel = sup.proc]
        /\ UNCHANGED <<phase, reports, pid, resume, amb>>
  /\ UNCHANGED <<disk, kind, op, vol, store, recon, host>>

FunnelGoesOn ==
  /\ sup.funnel # 0
  /\ Conclude(sup.funnel, phase)
  /\ amb' \in AfterExit(sup.funnel, phase)
  /\ UNCHANGED <<disk, kind, op, vol, store, recon, host>>

-----------------------------------------------------------------------------
(* spawn, under the operation lock.                                        *)

Asks(by) ==
  CASE by = "user"    -> TRUE
    [] by = "ambient" -> "spawn" \in amb.tasks
    [] by = "roll"    -> amb.roll = "spawn"

\* The asker's coroutine is over.
Answered(a, by) ==
  CASE by = "ambient" -> [a EXCEPT !.tasks = @ \ {"spawn"}]
    [] by = "roll"    -> [a EXCEPT !.roll = "no"]
    [] OTHER          -> a

\* The generic arm of _spawn_ambient
Failed(a, by) == IF by = "user" THEN a ELSE Backoff(Answered(a, by))

\* An ambient spawn that finds the lock taken or the reconcile running waits
\* for the next occasion; one that finds the store locked is a failure.
SpawnRefused(by) ==
  /\ Running /\ op = Free
  /\ by # "user" /\ Asks(by)
  /\ \/ store.sup = "LOCKED" /\ amb' = Failed(amb, by)
     \/ /\ store.sup = "MOUNTED" /\ (Recovering \/ EngineAlive)
        /\ amb' = Answered(amb, by)
  /\ UNCHANGED <<world, reports, pid, sup, op, vol, store, recon, resume, host>>

SpawnBegins(by) ==
  /\ Running /\ op = Free /\ Asks(by)
  /\ store.sup = "MOUNTED" /\ ~Recovering /\ ~EngineAlive
  /\ sup.proc # 0 => "late" \in Faults
  /\ \E s \in Session : phase[s] = "none"
  /\ op' = [act |-> "staging", by |-> by, of |-> 0]
  /\ pid' = [pid EXCEPT !.held = TRUE]
  /\ UNCHANGED <<world, reports, sup, amb, vol, store, recon, resume, host>>

SpawnFails ==
  /\ Running /\ op.act = "staging"
  /\ op' = Free
  /\ pid' = NoLock
  /\ sup' = NoEngine
  /\ amb' = Failed(amb, op.by)
  /\ UNCHANGED <<world, reports, vol, store, recon, resume, host>>

SpawnLaunches(s) ==
  /\ Running /\ op.act = "staging"
  /\ phase[s] = "none" /\ (s > 1 => phase[s - 1] # "none")
  /\ phase' = [phase EXCEPT ![s] = "booting"]
  /\ kind' = [kind EXCEPT ![s] = IF op.by = "user" THEN "user" ELSE "ambient"]
  /\ sup' = [proc |-> s, flags |-> {}, poll |-> TRUE, funnel |-> sup.funnel]
  /\ pid' = [held |-> TRUE, engine |-> s]
  /\ op' = [act |-> "starting", by |-> op.by, of |-> s]
  /\ UNCHANGED <<disk, reports, amb, vol, store, recon, resume, host>>

SpawnReturns ==
  /\ Running /\ op.act = "starting"
  /\ Alive(op.of) /\ phase[op.of] # "booting"
  /\ op' = Free
  /\ amb' = IF op.by = "user" THEN amb
            ELSE [Answered(amb, op.by) EXCEPT !.active = TRUE,
                                              !.degraded = FALSE]
  /\ UNCHANGED <<world, reports, pid, sup, vol, store, recon, resume, host>>

\* Mutant: an engine that is late is forgotten, not killed.
SpawnTimesOutAlone ==
  /\ Running /\ op.act = "starting"
  /\ phase[op.of] = "booting" \/ Exited(op.of)
  /\ pid' = NoLock
  /\ sup' = NoEngine
  /\ amb' = Failed(amb, op.by)
  /\ op' = Free
  /\ UNCHANGED <<phase, reports, resume, disk, kind, vol, store, recon, host>>

\* No `started` in time: the engine the supervisor holds is killed and its exit
\* handled; one that has died in the meantime is only forgotten.
SpawnTimesOut ==
  /\ Running /\ op.act = "starting"
  /\ \/ /\ phase[op.of] = "booting" /\ sup.proc = op.of
        /\ LET killed == [phase EXCEPT ![op.of] = "killed"]
           IN /\ Conclude(op.of, killed)
              /\ \E a \in AfterExit(op.of, killed) : amb' = Failed(a, op.by)
     \/ /\ \/ Exited(op.of)
           \/ phase[op.of] = "booting" /\ sup.proc # op.of
        /\ pid' = NoLock
        /\ sup' = NoEngine
        /\ amb' = Failed(amb, op.by)
        /\ UNCHANGED <<phase, reports, resume>>
  /\ op' = Free
  /\ UNCHANGED <<disk, kind, vol, store, recon, host>>

-----------------------------------------------------------------------------
(* stop, under the operation lock, and what its callers do next: a roll    *)
(* opens the next day's recording, a store lock quiesces.                  *)

Stops(by) ==
  CASE by = "user" -> TRUE
    [] by = "roll" -> amb.roll = "stop"
    [] by = "off"  -> amb.off
    [] by = "lock" -> store.lock = "stop"

AmbStopped(a, by) ==
  CASE by = "roll" -> [a EXCEPT !.roll = "gate"]
    [] by = "off"  -> [a EXCEPT !.off = FALSE]
    [] OTHER       -> a

StoreStopped(by) ==
  IF by = "lock" THEN [store EXCEPT !.lock = "quiesce"] ELSE store

\* A stop during the reconcile is refused, which ends a roll and unwinds a
\* store lock.
StopRefused(by) ==
  /\ Running /\ op = Free /\ Stops(by) /\ by # "user"
  /\ Recovering
  /\ amb' = IF by = "roll" THEN [amb EXCEPT !.roll = "no"]
            ELSE AmbStopped(amb, by)
  /\ store' = IF by = "lock" THEN Unwound(store) ELSE store
  /\ UNCHANGED <<world, reports, pid, sup, op, vol, recon, resume, host>>

\* _cancel_exit_poll: the poll goes, and with it a funnel of its own that was
\* waiting for the pump.
FunnelLeft == IF sup.funnel = sup.proc THEN 0 ELSE sup.funnel
PollCancelled == [sup EXCEPT !.poll = FALSE, !.funnel = FunnelLeft]

\* Nothing is being recorded, or the engine has already died: the pidfile is
\* released and the rest is left to whoever sees the exit.
StopFindsNothing(by) ==
  /\ Running /\ op = Free /\ Stops(by)
  /\ ~Recovering
  /\ \/ ~pid.held /\ UNCHANGED <<pid, sup>>
     \/ /\ pid.held /\ ~EngineAlive /\ "late" \in Faults
        /\ pid' = NoLock
        /\ sup' = PollCancelled
  /\ amb' = AmbStopped(amb, by)
  /\ store' = StoreStopped(by)
  /\ UNCHANGED <<world, reports, op, vol, recon, resume, host>>

\* SIGTERM
Terminated(s) ==
  [phase EXCEPT ![s] = IF @ = "recording" THEN "finalizing"
                       ELSE IF @ = "booting" THEN "crash" ELSE @]

StopBegins(by) ==
  /\ Running /\ op = Free /\ Stops(by)
  /\ ~Recovering /\ pid.held /\ EngineAlive
  /\ op' = [act |-> "stopping", by |-> by, of |-> sup.proc]
  /\ sup' = [PollCancelled EXCEPT !.flags = @ \cup {"stopping"}]
  /\ phase' = Terminated(sup.proc)
  /\ UNCHANGED <<disk, kind, reports, pid, amb, vol, store, recon, resume, host>>

\* Mutant: a store lock waits for the engine as any other caller does.
StopKillsFinalized ==
  /\ Running /\ op.act = "stopping"
  /\ Alive(op.of)
  /\ "finalized" \in sup.flags
  /\ phase' = [phase EXCEPT ![op.of] = "killed"]
  /\ sup' = [sup EXCEPT !.flags = @ \cup {"killed"}]
  /\ UNCHANGED <<disk, kind, reports, pid, op, amb, vol, store, recon, resume,
                 host>>

\* The engine that has said `recording_finalized` has a second to exit; one
\* that has not after stop_timeout is killed if a store lock is waiting.
StopKills ==
  /\ Running /\ op.act = "stopping"
  /\ Alive(op.of)
  /\ op.by = "lock" \/ "finalized" \in sup.flags
  /\ phase' = [phase EXCEPT ![op.of] = "killed"]
  /\ sup' = [sup EXCEPT !.flags = @ \cup {"killed"}]
  /\ UNCHANGED <<disk, kind, reports, pid, op, amb, vol, store, recon, resume,
                 host>>

\* Mutant: the exit poll is not armed again.
StopDrainsUnwatched ==
  /\ Running /\ op.act = "stopping" /\ op.by # "lock"
  /\ Alive(op.of) /\ "finalized" \notin sup.flags
  /\ sup' = [sup EXCEPT !.flags = @ \cup {"draining"}]
  /\ op' = Free
  /\ amb' = AmbStopped(amb, op.by)
  /\ UNCHANGED <<world, reports, pid, vol, store, recon, resume, host>>

\* Mutant: a store lock lets the engine drain as well.
StopDrainsForAll ==
  /\ Running /\ op.act = "stopping"
  /\ Alive(op.of) /\ "finalized" \notin sup.flags
  /\ sup' = [sup EXCEPT !.flags = @ \cup {"draining"}, !.poll = TRUE]
  /\ op' = Free
  /\ amb' = AmbStopped(amb, op.by)
  /\ store' = StoreStopped(op.by)
  /\ UNCHANGED <<world, reports, pid, vol, recon, resume, host>>

\* Otherwise it may go on draining, under the exit poll and the backstop.
StopDrains ==
  /\ Running /\ op.act = "stopping" /\ op.by # "lock"
  /\ Alive(op.of) /\ "finalized" \notin sup.flags
  /\ sup' = [sup EXCEPT !.flags = @ \cup {"draining"}, !.poll = TRUE]
  /\ op' = Free
  /\ amb' = AmbStopped(amb, op.by)
  /\ UNCHANGED <<world, reports, pid, vol, store, recon, resume, host>>

StopEnds ==
  /\ Running /\ op.act = "stopping"
  /\ Exited(op.of) /\ sup.funnel = 0
  /\ IF sup.proc = op.of /\ "handled" \notin sup.flags
     THEN /\ Conclude(op.of, phase)
          /\ \E a \in AfterExit(op.of, phase) : amb' = AmbStopped(a, op.by)
     ELSE /\ amb' = AmbStopped(amb, op.by)
          /\ UNCHANGED <<phase, reports, pid, sup, resume>>
  /\ store' = StoreStopped(op.by)
  /\ op' = Free
  /\ UNCHANGED <<disk, kind, vol, recon, host>>

\* _stop_backstop
BackstopKills ==
  /\ "draining" \in sup.flags /\ EngineAlive
  /\ phase' = [phase EXCEPT ![sup.proc] = "killed"]
  /\ sup' = [sup EXCEPT !.flags = @ \cup {"killed"}]
  /\ UNCHANGED <<disk, kind, reports, pid, op, amb, vol, store, recon, resume,
                 host>>

-----------------------------------------------------------------------------
(* The ambient stream.                                                     *)

\* ambient.set
AmbientOn ==
  /\ Running /\ "set" \in Faults
  /\ enabled' = TRUE
  /\ amb' = AutoStart(amb, TRUE)
  /\ UNCHANGED <<world, reports, pid, sup, op, vol, store, recon, resume,
                 daemon, lives>>

\* The handler stops what it finds active, and waits for the lock to do so.
AmbientOff ==
  /\ Running /\ "set" \in Faults
  /\ ~amb.off
  /\ enabled' = FALSE
  /\ amb' = [amb EXCEPT !.off = amb.active]
  /\ UNCHANGED <<world, reports, pid, sup, op, vol, store, recon, resume,
                 daemon, lives>>

\* _ambient_rearm_after
RearmWakes ==
  /\ Running /\ "backoff" \in amb.tasks
  /\ amb' = [amb EXCEPT !.tasks = (@ \ {"backoff"})
                                     \cup (IF enabled THEN {"gate"} ELSE {})]
  /\ UNCHANGED <<world, reports, pid, sup, op, vol, store, recon, resume, host>>

\* The start gate of _spawn_ambient lets it through or does not.
GateAnswers ==
  /\ Running
  /\ \/ /\ "gate" \in amb.tasks
        /\ \/ amb' = [amb EXCEPT !.tasks = (@ \ {"gate"}) \cup {"spawn"}]
           \/ amb' = [amb EXCEPT !.tasks = @ \ {"gate"}, !.degraded = TRUE]
     \/ /\ amb.roll = "gate"
        /\ \/ amb' = [amb EXCEPT !.roll = "spawn"]
           \/ amb' = [amb EXCEPT !.roll = "no", !.degraded = TRUE]
  /\ UNCHANGED <<world, reports, pid, sup, op, vol, store, recon, resume, host>>

\* _ambient_day_watch_tick sees a new day.
DayTurns ==
  /\ Running /\ "roll" \in Faults
  /\ amb.active /\ amb.roll = "no"
  /\ amb' = [amb EXCEPT !.roll = "stop"]
  /\ UNCHANGED <<world, reports, pid, sup, op, vol, store, recon, resume, host>>

-----------------------------------------------------------------------------
(* _reconcile and the sweep behind it.                                     *)

\* An engine of an earlier daemon is still there: SIGTERM, then a kill.
ReconcileTerminates ==
  /\ recon.pc = "queued" /\ Alive(pid.engine)
  /\ phase' = Terminated(pid.engine)
  /\ recon' = [recon EXCEPT !.pc = "killing"]
  /\ UNCHANGED <<disk, kind, reports, pid, sup, op, amb, vol, store, resume,
                 host>>

ReconcileKills ==
  /\ recon.pc = "killing" /\ Alive(pid.engine)
  /\ phase' = [phase EXCEPT ![pid.engine] = "killed"]
  /\ UNCHANGED <<disk, kind, reports, pid, sup, op, amb, vol, store, recon,
                 resume, host>>

ReconcileEnds ==
  /\ Recovering /\ ~Alive(pid.engine)
  /\ pid' = IF pid.held THEN pid ELSE NoLock
  /\ recon' = [pc |-> "idle",
               sweep |-> IF vol.mounted
                         THEN {s \in Session : NeedsResume(s)} ELSE {}]
  /\ amb' = AutoStart(amb, enabled)
  /\ UNCHANGED <<world, reports, sup, op, vol, store, resume, host>>

SweepResumes(s) ==
  /\ s \in recon.sweep
  /\ recon' = [recon EXCEPT !.sweep = @ \ {s}]
  /\ resume' = IF NeedsResume(s) THEN resume \cup {s} ELSE resume
  /\ UNCHANGED <<world, reports, pid, sup, op, amb, vol, store, host>>

\* resume_terminal_stage: it settles a recording whose count was frozen, halts
\* for a store lock, or has nothing it can settle.
ResumeSettles(s) ==
  /\ s \in resume
  /\ disk[s] = "frozen" /\ vol.mounted
  /\ disk' = [disk EXCEPT ![s] = "settled"]
  /\ resume' = resume \ {s}
  /\ UNCHANGED <<phase, kind, reports, pid, sup, op, amb, vol, store, recon,
                 host>>

ResumeGivesUp(s) ==
  /\ s \in resume
  /\ disk[s] # "frozen" \/ ~vol.mounted \/ Halting
  /\ resume' = resume \ {s}
  /\ UNCHANGED <<world, reports, pid, sup, op, amb, vol, store, recon, host>>
=============================================================================
