---------------------------- MODULE DaemonProofs ----------------------------
(***************************************************************************)
(* Proofs about the daemon: for any number of sessions, retries and daemon *)
(* lives no two engines record at once, a live engine is watched, it has   *)
(* its store, a sealed store refuses recordings, an exit is announced once *)
(* and a crash that is reported is one.  The proofs are about a daemon     *)
(* whose exit funnel does not wait for the pump and whose unlocks do not   *)
(* overlap a lock: with either the statements are false (README).          *)
(***************************************************************************)
EXTENDS Daemon, TLAPS

(* The inductive invariant.                                                *)

\* A daemon that is down remembers nothing.
Forgotten ==
  daemon = "down" =>
    /\ sup = NoEngine
    /\ ~pid.held
    /\ op = Free
    /\ store = Serving("MOUNTED")
    /\ recon.pc = "idle"

NoFunnel == sup.funnel = 0 /\ "handled" \notin sup.flags

\* A live engine is the one the pidfile names: the supervisor's own, or what an
\* earlier daemon left and the reconcile is about to kill.
Tracked ==
  \A s \in Session : Alive(s) =>
    /\ pid.engine = s
    /\ daemon # "down" => sup.proc = s \/ (Recovering /\ sup.proc = 0)

\* What holds the operation lock knows of every live engine.
Operated ==
  /\ op.act = "staging" => \A s \in Session : ~Alive(s)
  /\ op.act \in {"starting", "stopping"} =>
       \A s \in Session : Alive(s) => s = op.of /\ s = sup.proc

Watched ==
  EngineAlive =>
    /\ pid.held
    /\ daemon = "up" => sup.poll \/ op.act = "stopping"

\* A reconcile never runs beside an engine of its own daemon.
Recovered == Recovering => ~EngineAlive /\ op.act # "staging"

\* What the daemon takes the store for, and what it is.
StoreKnown ==
  /\ store.app = store.sup
  /\ daemon # "down" /\ store.sup = "MOUNTED" => vol.mounted /\ ~vol.sealed
  /\ store.lock # "idle" => store.sup = "LOCKED" /\ ~vol.sealed
  /\ store.lock \in {"stop", "quiesce", "detach"} => vol.mounted
  /\ op.act = "stopping" /\ op.by = "lock" => store.lock = "stop"

\* Behind the stop of a lock there is no engine and nobody to start one.
LockedOut ==
  /\ store.sup = "LOCKED" /\ store.lock # "stop" =>
       ~EngineAlive /\ op.act # "staging"
  /\ store.lock \in {"quiesce", "detach", "seal"} =>
       \A s \in Session : ~Alive(s)

\* One unlock at a time, of a store that no lock is working on.
OneUnlock ==
  /\ store.mounting + store.adopting <= 1
  /\ store.mounting + store.adopting > 0 =>
       store.lock = "idle" /\ store.sup = "LOCKED"
  /\ store.adopting > 0 => vol.mounted

\* The reports of an exit are still to be made.
Unreported ==
  /\ sup.proc \in Session =>
       /\ phase[sup.proc] \notin {"none", "reaped"}
       /\ "finalized" \notin sup.flags => announced[sup.proc] = 0
       /\ phase[sup.proc] = "killed" => "killed" \in sup.flags
  /\ sup.proc = 0 => sup.flags = {}
  /\ \A s \in Session :
       phase[s] \in {"none", "booting", "recording", "finalizing",
                     "converging"} => announced[s] = 0

Core ==
  /\ Forgotten /\ NoFunnel /\ Tracked /\ Operated /\ Watched /\ Recovered
  /\ StoreKnown /\ LockedOut /\ OneUnlock
  /\ EngineHasItsStore /\ Unreported /\ AnnouncedOnce

IInv == TypeOK /\ Core

\* The two disturbances the proofs leave out.
NoOverlaps == "pump" \notin Faults /\ "overlap" \notin Faults

-----------------------------------------------------------------------------
(* What the shared pieces of the actions do.                               *)

\* Cancelling the poll leaves the engine and its flags alone.
LEMMA CancelKeeps ==
  ASSUME TypeOK
  PROVE  /\ PollCancelled \in [proc : 0..MaxSessions, flags : SUBSET Flags,
                               poll : BOOLEAN, funnel : 0..MaxSessions]
         /\ PollCancelled.proc = sup.proc
         /\ PollCancelled.flags = sup.flags
         /\ PollCancelled.funnel \in {0, sup.funnel}
         /\ PollCancelled.poll = FALSE
<1>1. FunnelLeft \in 0..MaxSessions /\ FunnelLeft \in {0, sup.funnel}
  BY DaemonAssumption DEF TypeOK, FunnelLeft
<1> QED BY <1>1 DEF TypeOK, PollCancelled

\* Only a lock that waits for its stop asks for one.
LEMMA LockAsks == Stops("lock") <=> store.lock = "stop"
  BY DEF Stops

\* A report counts an exit once, if it was not counted before.
LEMMA ReportCounts ==
  ASSUME TypeOK, Unreported, AnnouncedOnce, NEW rcOf, NEW p, Report(rcOf, p)
  PROVE  /\ announced' \in [Session -> 0..2]
         /\ AnnouncedOnce'
         /\ \A s \in Session : s # sup.proc => announced'[s] = announced[s]
<1>1. CASE sup.proc # 0 /\ "finalized" \notin sup.flags
  <2>1. sup.proc \in Session
    BY <1>1 DEF TypeOK, Session
  <2>2. announced[sup.proc] = 0
    BY <1>1, <2>1 DEF Unreported
  <2>3. announced' = [announced EXCEPT ![sup.proc] = 1]
    BY <1>1, <2>2 DEF Report
  <2> QED BY <2>1, <2>3 DEF TypeOK, AnnouncedOnce
<1>2. CASE ~(sup.proc # 0 /\ "finalized" \notin sup.flags)
  <2>1. announced' = announced
    BY <1>2 DEF Report
  <2> QED BY <2>1 DEF TypeOK, AnnouncedOnce
<1> QED BY <1>1, <1>2
-----------------------------------------------------------------------------
(* Types.                                                                  *)

Ambients ==
  [active : BOOLEAN, degraded : BOOLEAN, retries : 0..MaxRetries+1,
   tasks : SUBSET {"backoff", "gate", "spawn"},
   roll : {"no", "stop", "gate", "spawn"}, off : BOOLEAN]
Supers ==
  [proc : 0..MaxSessions, flags : SUBSET Flags, poll : BOOLEAN,
   funnel : 0..MaxSessions]
Operations ==
  [act : {"free", "staging", "starting", "stopping"},
   by : {"none", "user", "ambient", "roll", "off", "lock"},
   of : 0..MaxSessions]
Stores ==
  [sup : {"MOUNTED", "LOCKED"}, app : {"MOUNTED", "LOCKED"},
   lock : {"idle", "stop", "quiesce", "detach", "seal"},
   mounting : 0..2, adopting : 0..2]

\* The retries have a ceiling.
LEMMA BackoffTyped ==
  ASSUME NEW a \in Ambients
  PROVE  Backoff(a) \in Ambients
<1>1. a.retries \in 0..MaxRetries+1 /\ MaxRetries \in Nat
  BY DaemonAssumption DEF Ambients
<1>2. CASE a.retries >= MaxRetries
  <2>1. Backoff(a) = [a EXCEPT !.retries = MaxRetries + 1, !.degraded = TRUE]
    BY <1>2 DEF Backoff
  <2>2. MaxRetries + 1 \in 0..MaxRetries+1
    BY <1>1
  <2> QED BY <2>1, <2>2 DEF Ambients
<1>3. CASE ~(a.retries >= MaxRetries)
  <2>1. Backoff(a) = [a EXCEPT !.retries = @ + 1,
                                !.tasks = @ \cup {"backoff"}]
    BY <1>3 DEF Backoff
  <2>2. a.retries + 1 \in 0..MaxRetries+1
    BY <1>1, <1>3
  <2> QED BY <2>1, <2>2 DEF Ambients
<1> QED BY <1>2, <1>3

\* What is done to the supervision of the ambient stream keeps its type.
LEMMA AmbientTyped ==
  ASSUME NEW a \in Ambients, NEW on \in BOOLEAN
  PROVE  /\ AutoStart(a, on) \in Ambients
         /\ Backoff(a) \in Ambients
         /\ \A by : /\ Answered(a, by) \in Ambients
                    /\ Failed(a, by) \in Ambients
                    /\ AmbStopped(a, by) \in Ambients
<1>1. AutoStart(a, on) \in Ambients
  BY DEF AutoStart, Ambients
<1>2. \A b \in Ambients : Backoff(b) \in Ambients
  BY BackoffTyped
<1>3. \A by : Answered(a, by) \in Ambients
  BY DEF Answered, Ambients
<1>4. \A by : AmbStopped(a, by) \in Ambients
  BY DEF AmbStopped, Ambients
<1> QED BY <1>1, <1>2, <1>3, <1>4 DEF Failed

\* So does what follows an exit.
LEMMA ExitTyped ==
  ASSUME TypeOK, NEW rcOf, NEW p
  PROVE  AfterExit(rcOf, p) \subseteq Ambients
<1> DEFINE ended == [amb EXCEPT !.active = FALSE]
<1>1. amb \in Ambients /\ enabled \in BOOLEAN
  BY DEF TypeOK, Ambients
<1>z. 0 \in 0..MaxRetries+1
  BY DaemonAssumption
<1>2. /\ ended \in Ambients
      /\ [ended EXCEPT !.retries = 0] \in Ambients
      /\ [ended EXCEPT !.retries = 0,
          !.tasks = @ \cup {"backoff"}] \in Ambients
  <2>1. ended \in Ambients
    BY <1>1 DEF Ambients
  <2> HIDE DEF ended
  <2> QED BY <2>1, <1>z DEF Ambients
<1>4. AutoStart(amb, enabled) \in Ambients /\ Backoff(ended) \in Ambients
  BY <1>1, <1>2, AmbientTyped
<1> QED BY <1>2, <1>4 DEF AfterExit

\* The handler of an exit keeps the types of what it changes.
LEMMA ConcludeTyped ==
  ASSUME IInv, NEW rcOf \in 0..MaxSessions,
         NEW p \in [Session -> {"none"} \cup Live \cup Gone], Conclude(rcOf, p)
  PROVE  /\ phase' \in [Session -> {"none"} \cup Live \cup Gone]
         /\ announced' \in [Session -> 0..2] /\ crashed' \subseteq Session
         /\ pid' = NoLock /\ sup' = NoEngine /\ resume' \subseteq Session
<1>1. announced' \in [Session -> 0..2]
  BY ReportCounts DEF Conclude, IInv, Core
<1>p. sup.proc # 0 => sup.proc \in Session
  BY DEF IInv, TypeOK, Session
<1>2. crashed' \subseteq Session /\ resume' \subseteq Session
  BY <1>p DEF Conclude, Report, IInv, TypeOK
<1>3. phase' \in [Session -> {"none"} \cup Live \cup Gone]
  BY DEF Conclude, Reaped, Gone
<1> QED BY <1>1, <1>2, <1>3 DEF Conclude

\* What a process starts with has its type.
LEMMA ForgottenTyped ==
  /\ NoLock \in [held : BOOLEAN, engine : 0..MaxSessions]
  /\ NoEngine \in Supers
  /\ Free \in Operations
  /\ NoAmbient \in Ambients
  /\ \A state \in {"MOUNTED", "LOCKED"} : Serving(state) \in Stores
BY DaemonAssumption
   DEF NoLock, NoEngine, Free, NoAmbient, Serving, Ambients, Supers,
       Operations, Stores

-----------------------------------------------------------------------------
(* What the actions that are alike keep.                                  *)

\* An exit that is concluded leaves nothing of its session to report.
LEMMA ExitReported ==
  ASSUME IInv, sup.proc \in Session, Conclude(sup.proc, phase)
  PROVE  Unreported'
<1>1. \A t \in Session : t # sup.proc => announced'[t] = announced[t]
  BY ReportCounts DEF IInv, Core, Conclude
<1>2. sup'.proc = 0 /\ sup'.flags = {}
  BY DEF Conclude, NoEngine
<1>3. \A t \in Session :
        phase'[t] = IF t = sup.proc THEN "reaped" ELSE phase[t]
  BY DEF IInv, TypeOK, Conclude, Reaped
<1>4. 0 \notin Session
  BY DaemonAssumption DEF Session
<1> QED BY <1>1, <1>2, <1>3, <1>4 DEF IInv, Core, Unreported

\* The pump announces the session it reads about, once.
LEMMA EngineToldIt ==
  ASSUME IInv, NEW s \in Session, EngineTells(s)
  PROVE  Forgotten' /\ Watched' /\ AnnouncedOnce'
<1>1. CASE sup.proc = s
  <2>1. daemon # "down"
    BY <1>1, DaemonAssumption DEF IInv, Core, Forgotten, NoEngine, Session
  <2>2. Forgotten'
    BY <2>1 DEF EngineTells, host, Forgotten
  <2>3. announced[s] = 0 /\ announced' = [announced EXCEPT ![s] = 1]
    BY <1>1 DEF IInv, Core, Unreported, EngineTells, Moves
  <2>4. AnnouncedOnce'
    BY <2>3 DEF IInv, TypeOK, Core, AnnouncedOnce
  <2>5. sup'.proc = s /\ sup'.poll = sup.poll /\ UNCHANGED <<pid, op, daemon>>
    BY <1>1 DEF EngineTells, IInv, TypeOK, host
  <2>6. EngineAlive
    BY <1>1 DEF EngineTells, Moves, EngineAlive, Alive, Live
  <2>7. Watched'
    BY <1>1, <2>5, <2>6 DEF IInv, Core, Watched
  <2> QED BY <2>2, <2>4, <2>7
<1>2. CASE sup.proc # s
  <2>1. UNCHANGED <<announced, sup, pid, op, store, recon, daemon>>
    BY <1>2 DEF EngineTells, host
  <2>2. Alive(sup.proc)' => Alive(sup.proc)
    BY <1>2, <2>1 DEF EngineTells, Moves, IInv, TypeOK, Alive, Live
  <2> QED BY <2>1, <2>2
          DEF IInv, Core, Forgotten, Watched, EngineAlive, AnnouncedOnce,
              Recovering, Alive
<1> QED BY <1>1, <1>2

\* A shutdown asks the engine to end and keeps track of it.
LEMMA ShutdownTerminates ==
  ASSUME IInv, ShutdownBegins
  PROVE  Tracked' /\ Unreported'
<1>1. /\ sup'.proc = sup.proc
      /\ sup.proc # 0 => ("killed" \in sup'.flags <=> "killed" \in sup.flags)
      /\ "finalized" \in sup'.flags <=> "finalized" \in sup.flags
  BY CancelKeeps DEF IInv, ShutdownBegins
<1>2. \A s \in Session : Alive(s)' => Alive(s)
  BY DEF IInv, TypeOK, ShutdownBegins, Terminated, Alive, EngineAlive, Live
<1>3. daemon # "down" /\ UNCHANGED <<recon, pid, announced>>
  BY DEF ShutdownBegins, Running, reports
<1>4. Tracked'
  BY <1>1, <1>2, <1>3 DEF IInv, Core, Tracked, Recovering
<1>5. \A s \in Session :
        \/ phase'[s] = phase[s]
        \/ /\ phase[s] \in {"booting", "recording"}
           /\ phase'[s] \in {"crash", "finalizing"}
  BY DEF IInv, TypeOK, ShutdownBegins, Terminated, EngineAlive, Alive
<1>6. sup.proc = 0 => sup'.flags = {}
  BY CancelKeeps, DaemonAssumption
     DEF IInv, Core, Unreported, ShutdownBegins, EngineAlive, Alive, Session
<1>7. Unreported'
  BY <1>1, <1>3, <1>5, <1>6 DEF IInv, Core, Unreported
<1> QED BY <1>4, <1>7

\* A daemon that starts has no engine of its own, and a reconcile before it.
LEMMA DaemonRemembersNothing ==
  ASSUME IInv, DaemonStarts
  PROVE  Tracked' /\ Recovered' /\ LockedOut'
<1>1. sup.proc = 0 /\ sup.flags = {} /\ op.act = "free"
  BY DEF IInv, Core, Forgotten, NoEngine, Free, DaemonStarts
<1>2. recon'.pc = "queued" /\ UNCHANGED <<phase, sup, op, pid>>
  BY DEF IInv, TypeOK, DaemonStarts, world
<1>3. store'.lock = "idle"
  BY DEF DaemonStarts, Serving
<1>4. Tracked'
  BY <1>1, <1>2 DEF IInv, Core, Tracked, Alive, Recovering
<1>5. Recovered'
  BY <1>1, <1>2, DaemonAssumption DEF Recovered, EngineAlive, Alive, Session
<1>6. LockedOut'
  BY <1>1, <1>2, <1>3, DaemonAssumption
     DEF LockedOut, EngineAlive, Alive, Session
<1> QED BY <1>4, <1>5, <1>6

\* What leaves engines, locks and the store alone keeps what is known of them.
LEMMA QuietKeeps ==
  ASSUME IInv, Recovering' = Recovering,
         UNCHANGED <<phase, announced, pid, sup, op, vol, store, daemon>>
  PROVE  Core'
<1>1. recon'.pc = "idle" <=> recon.pc = "idle"
  BY DEF Recovering
<1>2. Forgotten' /\ Tracked' /\ Recovered'
  BY <1>1
     DEF IInv, Core, Forgotten, Tracked, Recovered, Recovering, EngineAlive,
         Alive
<1> QED BY <1>2
        DEF IInv, Core, NoFunnel, Operated, Watched, StoreKnown, LockedOut,
            OneUnlock, EngineHasItsStore, Unreported, AnnouncedOnce,
            EngineAlive, Alive

\* An engine that gets on, ends or is killed by the reconcile stays known.
LEMMA EngineKeeps ==
  ASSUME IInv, Recovering' = Recovering,
         UNCHANGED <<announced, pid, sup, op, vol, store, daemon>>,
         \A s \in Session :
           \/ phase'[s] = phase[s]
           \/ /\ Alive(s)
              /\ \/ phase'[s] \in {"recording", "finalizing", "converging"}
                       /\ phase[s] # "done"
                 \/ phase'[s] \in {"clean", "crash"}
                 \/ phase'[s] = "killed" /\ s # sup.proc
  PROVE  Core'
<1>1. \A s \in Session : Alive(s)' => Alive(s)
  BY DEF Alive, Live
<1>2. EngineAlive' => EngineAlive
  BY <1>1 DEF EngineAlive, Alive
<1>3. recon'.pc = "idle" <=> recon.pc = "idle"
  BY DEF Recovering
<1>4. Forgotten' /\ NoFunnel' /\ Tracked' /\ Operated' /\ Watched'
      /\ Recovered'
  BY <1>1, <1>2, <1>3
     DEF IInv, Core, Forgotten, NoFunnel, Tracked, Operated, Watched,
         Recovered, Recovering
<1>5. StoreKnown' /\ LockedOut' /\ OneUnlock' /\ EngineHasItsStore'
  BY <1>1, <1>2
     DEF IInv, Core, StoreKnown, LockedOut, OneUnlock, EngineHasItsStore
<1>6. Unreported' /\ AnnouncedOnce'
  BY DEF IInv, Core, Unreported, AnnouncedOnce, Alive, Live
<1> QED BY <1>4, <1>5, <1>6 DEF Core

-----------------------------------------------------------------------------
(* Every action keeps the invariant.                                      *)

\* The engine says `started`.
LEMMA EngineStartsKeeps ==
  ASSUME IInv, NoOverlaps, NEW s \in Session, EngineStarts(s)
  PROVE  IInv'
<1>1. TypeOK'
  BY DaemonAssumption
     DEF IInv, TypeOK, EngineStarts, host, reports, Moves, Flags, Live, Gone
<1>2. Recovering' = Recovering
  BY DEF EngineStarts, Recovering, IInv, TypeOK
<1>3. Core'
  <2>1. UNCHANGED <<announced, pid, sup, op, vol, store, daemon>>
    BY DEF EngineStarts, reports, host
  <2>2. \A t \in Session :
          \/ phase'[t] = phase[t]
          \/ /\ Alive(t)
             /\ \/ phase'[t] \in {"recording", "finalizing", "converging"}
                      /\ phase[t] # "done"
                \/ phase'[t] \in {"clean", "crash"}
                \/ phase'[t] = "killed" /\ t # sup.proc
    BY DEF IInv, Core, TypeOK, EngineStarts, Moves, Alive, Live
  <2> QED BY <1>2, <2>1, <2>2, EngineKeeps
<1> QED BY <1>1, <1>3 DEF IInv

\* The engine finalizes on its own.
LEMMA EngineEndsItselfKeeps ==
  ASSUME IInv, NoOverlaps, NEW s \in Session, EngineEndsItself(s)
  PROVE  IInv'
<1>1. TypeOK'
  BY DaemonAssumption
     DEF IInv, TypeOK, EngineEndsItself, host, reports, Moves, Waited, Flags,
         Live, Gone
<1>2. Recovering' = Recovering
  BY DEF EngineEndsItself, Recovering, IInv, TypeOK
<1>3. Core'
  <2>1. UNCHANGED <<announced, pid, sup, op, vol, store, daemon>>
    BY DEF EngineEndsItself, reports, host
  <2>2. \A t \in Session :
          \/ phase'[t] = phase[t]
          \/ /\ Alive(t)
             /\ \/ phase'[t] \in {"recording", "finalizing", "converging"}
                      /\ phase[t] # "done"
                \/ phase'[t] \in {"clean", "crash"}
                \/ phase'[t] = "killed" /\ t # sup.proc
    BY DEF IInv, Core, TypeOK, EngineEndsItself, Moves, Alive, Live
  <2> QED BY <1>2, <2>1, <2>2, EngineKeeps
<1> QED BY <1>1, <1>3 DEF IInv

\* The engine freezes the chunk count.
LEMMA EngineFreezesKeeps ==
  ASSUME IInv, NoOverlaps, NEW s \in Session, EngineFreezes(s)
  PROVE  IInv'
<1>1. TypeOK'
  BY DaemonAssumption
     DEF IInv, TypeOK, EngineFreezes, host, reports, Moves, Flags, Live, Gone
<1>2. Recovering' = Recovering
  BY DEF EngineFreezes, Recovering, IInv, TypeOK
<1>3. Core'
  <2>1. UNCHANGED <<announced, pid, sup, op, vol, store, daemon>>
    BY DEF EngineFreezes, reports, host
  <2>2. \A t \in Session :
          \/ phase'[t] = phase[t]
          \/ /\ Alive(t)
             /\ \/ phase'[t] \in {"recording", "finalizing", "converging"}
                      /\ phase[t] # "done"
                \/ phase'[t] \in {"clean", "crash"}
                \/ phase'[t] = "killed" /\ t # sup.proc
    BY DEF IInv, Core, TypeOK, EngineFreezes, Moves, Alive, Live
  <2> QED BY <1>2, <2>1, <2>2, EngineKeeps
<1> QED BY <1>1, <1>3 DEF IInv

\* The pump reads `recording_finalized`, and the exit has not been announced
\* before.
LEMMA EngineTellsKeeps ==
  ASSUME IInv, NoOverlaps, NEW s \in Session, EngineTells(s)
  PROVE  IInv'
<1>1. TypeOK'
  BY DaemonAssumption
     DEF IInv, TypeOK, EngineTells, host, Moves, Flags, Live, Gone
<1>2. NoFunnel'
  BY DEF IInv, Core, TypeOK, EngineTells, NoFunnel
<1>3. Tracked'
  BY DEF IInv, Core, TypeOK, EngineTells, host, Moves, Tracked, Recovering,
         Alive, Live
<1>4. Operated'
  BY DEF IInv, Core, TypeOK, EngineTells, Moves, Operated, Alive, Live
<1>5. Recovered'
  BY DEF IInv, Core, EngineTells, Moves, Recovered, EngineAlive, Alive, Live,
         Recovering
<1>6. LockedOut'
  BY DEF IInv, Core, EngineTells, Moves, LockedOut, Alive, Live, EngineAlive
<1>7. EngineHasItsStore'
  BY DEF IInv, Core, EngineTells, Moves, EngineHasItsStore, Alive, Live
<1>8. Unreported'
  BY DaemonAssumption
     DEF IInv, Core, TypeOK, Session, EngineTells, Moves, Unreported
<1>9. Forgotten' /\ Watched' /\ AnnouncedOnce'
  BY EngineToldIt
<1>10. StoreKnown' /\ OneUnlock'
  BY DEF IInv, Core, EngineTells, host, StoreKnown, OneUnlock
<1> QED BY <1>1, <1>2, <1>3, <1>4, <1>5, <1>6, <1>7, <1>8, <1>9,
    <1>10 DEF IInv, Core

\* The engine exits or dies.
LEMMA EngineExitsKeeps ==
  ASSUME IInv, NoOverlaps, NEW s \in Session, EngineExits(s)
  PROVE  IInv'
<1>1. TypeOK'
  BY DaemonAssumption
     DEF IInv, TypeOK, EngineExits, host, reports, Moves, Waited, Alive, Live,
         Flags, Live, Gone
<1>2. Recovering' = Recovering
  BY DEF EngineExits, Recovering, IInv, TypeOK
<1>3. Core'
  <2>1. UNCHANGED <<announced, pid, sup, op, vol, store, daemon>>
    BY DEF EngineExits, reports, host
  <2>2. \A t \in Session :
          \/ phase'[t] = phase[t]
          \/ /\ Alive(t)
             /\ \/ phase'[t] \in {"recording", "finalizing", "converging"}
                      /\ phase[t] # "done"
                \/ phase'[t] \in {"clean", "crash"}
                \/ phase'[t] = "killed" /\ t # sup.proc
    BY DEF IInv, Core, TypeOK, EngineExits, Moves, Alive, Live
  <2> QED BY <1>2, <2>1, <2>2, EngineKeeps
<1> QED BY <1>1, <1>3 DEF IInv

\* The exit poll concludes the exit of the engine the pidfile names.
LEMMA PollSeesKeeps ==
  ASSUME IInv, NoOverlaps, PollSees
  PROVE  IInv'
<1>1. TypeOK'
  <2>1. Conclude(sup.proc, phase) /\ amb' \in AfterExit(sup.proc, phase)
    BY DEF PollSees, NoOverlaps
  <2>2. amb' \in Ambients
    BY <2>1, ExitTyped DEF IInv
  <2>3. /\ phase' \in [Session -> {"none"} \cup Live \cup Gone]
        /\ announced' \in [Session -> 0..2] /\ crashed' \subseteq Session
        /\ pid' = NoLock /\ sup' = NoEngine /\ resume' \subseteq Session
    <3>1. sup.proc \in 0..MaxSessions
          /\ phase \in [Session -> {"none"} \cup Live \cup Gone]
      BY DEF IInv, TypeOK
    <3> QED BY <2>1, <3>1, ConcludeTyped
  <2>4. UNCHANGED <<disk, kind, op, vol, store, recon, host>>
    BY DEF PollSees
  <2> QED BY <2>2, <2>3, <2>4, ForgottenTyped DEF IInv, TypeOK, Ambients,
      host, Supers, Operations, Stores
<1>2. Forgotten'
  BY DEF IInv, Core, PollSees, host, Forgotten, NoEngine
<1>3. NoFunnel'
  BY DEF PollSees, Conclude, NoEngine, NoFunnel, NoOverlaps
<1>4. Tracked'
  BY DaemonAssumption
     DEF IInv, Core, TypeOK, Forgotten, EngineHasItsStore, Session, PollSees,
         Conclude, NoEngine, Reaped, Exited, Tracked, Recovering, Alive, Live,
         NoOverlaps
<1>5. Operated'
  BY DaemonAssumption
     DEF IInv, Core, TypeOK, Forgotten, StoreKnown, LockedOut, AnnouncedOnce,
         PollSees, Conclude, Reaped, Operated, Alive, Live, NoOverlaps
<1>6. Watched'
  BY DEF Session, PollSees, Conclude, NoEngine, Watched, EngineAlive, Alive,
         NoOverlaps
<1>7. Recovered'
  BY DEF IInv, Core, Session, PollSees, Conclude, NoEngine, Recovered,
         EngineAlive, Alive, Recovering, NoOverlaps
<1>8. LockedOut'
  BY DaemonAssumption
     DEF IInv, Core, TypeOK, Session, PollSees, Conclude, NoEngine, Reaped,
         LockedOut, Alive, Live, EngineAlive, NoOverlaps
<1>9. EngineHasItsStore'
  BY DaemonAssumption
     DEF IInv, Core, TypeOK, PollSees, Conclude, Reaped, EngineHasItsStore,
         Alive, Live
<1>10. AnnouncedOnce'
  BY ReportCounts DEF IInv, Core, PollSees, Conclude, NoOverlaps
<1>11. Unreported'
  <2>1. Conclude(sup.proc, phase) /\ sup.proc \in Session
    BY DEF PollSees, NoOverlaps, Exited
  <2> QED BY <2>1, ExitReported
<1>12. StoreKnown' /\ OneUnlock'
  BY DEF IInv, Core, PollSees, reports, host, StoreKnown, OneUnlock
<1> QED BY <1>1, <1>2, <1>3, <1>4, <1>5, <1>6, <1>7, <1>8, <1>9, <1>10, <1>11,
    <1>12
   DEF IInv, Core

\* A spawn that is refused changes the ambient stream only.
LEMMA SpawnRefusedKeeps ==
  ASSUME IInv, NoOverlaps, NEW by \in {"user", "ambient", "roll"},
         SpawnRefused(by)
  PROVE  IInv'
<1>1. TypeOK'
  BY DaemonAssumption, AmbientTyped
     DEF IInv, TypeOK, SpawnRefused, host, reports, world, EngineAlive, Alive,
         Live, Recovering, Asks, Free, Running, Ambients, Flags, Live, Gone
<1>2. Recovering' = Recovering
  BY DEF SpawnRefused, Recovering, IInv, TypeOK
<1>3. Core'
  <2>1. UNCHANGED <<phase, announced, pid, sup, op, vol, store, daemon>>
    BY DEF SpawnRefused, world, reports, host
  <2> QED BY <1>2, <2>1, QuietKeeps
<1> QED BY <1>1, <1>3 DEF IInv

\* A spawn takes the pidfile when no engine is alive.
LEMMA SpawnBeginsKeeps ==
  ASSUME IInv, NoOverlaps, NEW by \in {"user", "ambient", "roll"},
         SpawnBegins(by)
  PROVE  IInv'
<1>1. TypeOK'
  <2>1. pid' \in [held : BOOLEAN, engine : 0..MaxSessions]
    <3>1. pid' = [pid EXCEPT !.held = TRUE]
      BY DEF SpawnBegins
    <3> QED BY <3>1 DEF IInv, TypeOK
  <2> QED BY <2>1, DaemonAssumption, ForgottenTyped
     DEF IInv, TypeOK, SpawnBegins, host, reports, world, EngineAlive, Alive,
         Live, Recovering, Asks, Free, Running, Flags, Live, Gone, Supers,
         Operations, Stores, Ambients
<1>2. Forgotten'
  BY DEF SpawnBegins, host, Running, Forgotten
<1>3. Tracked'
  BY DEF IInv, Core, SpawnBegins, world, Running, Tracked, Alive
<1>4. Operated'
  BY DEF IInv, Core, Tracked, SpawnBegins, world, EngineAlive, Running,
         Operated, Alive
<1>5. Watched'
  BY DEF SpawnBegins, world, Watched, EngineAlive, Alive
<1>6. Recovered'
  BY DEF SpawnBegins, Recovered, Recovering
<1>7. StoreKnown'
  BY DEF IInv, Core, SpawnBegins, Running, StoreKnown
<1>8. LockedOut'
  BY DEF IInv, Core, SpawnBegins, world, LockedOut, Alive
<1>9. NoFunnel' /\ OneUnlock' /\ EngineHasItsStore' /\ Unreported'
      /\ AnnouncedOnce'
  BY DEF IInv, Core, SpawnBegins, world, reports, host, NoFunnel, OneUnlock,
         EngineHasItsStore, Alive, Live, Unreported, AnnouncedOnce
<1> QED BY <1>1, <1>2, <1>3, <1>4, <1>5, <1>6, <1>7, <1>8, <1>9 DEF IInv, Core

\* A spawn that fails before its launch leaves no engine behind.
LEMMA SpawnFailsKeeps ==
  ASSUME IInv, NoOverlaps, SpawnFails
  PROVE  IInv'
<1>1. TypeOK'
  <2>1. amb' \in Ambients
    <3>1. amb \in Ambients /\ enabled \in BOOLEAN
      BY DEF IInv, TypeOK, Ambients
    <3>2. amb' = Failed(amb, op.by)
      BY DEF SpawnFails
    <3> QED BY <3>1, <3>2, AmbientTyped DEF Ambients
  <2> QED BY <2>1, DaemonAssumption, AmbientTyped, ForgottenTyped
     DEF IInv, TypeOK, SpawnFails, host, reports, world, NoEngine, NoLock,
         Free, Running, Ambients, Flags, Live, Gone, Supers, Operations,
         Stores
<1>2. Forgotten'
  BY DEF SpawnFails, host, Running, Forgotten
<1>3. NoFunnel'
  BY DEF SpawnFails, NoEngine, NoFunnel
<1>4. Tracked'
  BY DEF IInv, Core, Operated, SpawnFails, world, Tracked, Alive
<1>5. Operated'
  BY DEF SpawnFails, Free, Operated
<1>6. Watched'
  BY DEF Session, SpawnFails, NoEngine, Watched, EngineAlive, Alive
<1>7. Recovered'
  BY DEF Session, SpawnFails, NoEngine, Free, Recovered, EngineAlive, Alive
<1>8. StoreKnown'
  BY DEF IInv, Core, SpawnFails, Free, Running, StoreKnown
<1>9. LockedOut'
  BY DEF IInv, Core, SpawnFails, world, LockedOut, Alive
<1>10. Unreported'
  BY DEF IInv, Core, Session, SpawnFails, reports, world, NoEngine, Unreported
<1>11. OneUnlock' /\ EngineHasItsStore' /\ AnnouncedOnce'
  BY DEF IInv, Core, SpawnFails, world, reports, host, OneUnlock,
         EngineHasItsStore, Alive, Live, AnnouncedOnce
<1> QED BY <1>1, <1>2, <1>3, <1>4, <1>5, <1>6, <1>7, <1>8, <1>9, <1>10, <1>11
   DEF IInv, Core

\* The only live engine is the one launched, in a store that is mounted.
LEMMA SpawnLaunchesKeeps ==
  ASSUME IInv, NoOverlaps, NEW s \in Session, SpawnLaunches(s)
  PROVE  IInv'
<1>1. TypeOK'
  <2>1. pid' \in [held : BOOLEAN, engine : 0..MaxSessions]
    <3>1. pid' = [held |-> TRUE, engine |-> s] /\ s \in 0..MaxSessions
      BY DaemonAssumption DEF SpawnLaunches, Session
    <3> QED BY <3>1 DEF TypeOK, Supers, Operations
  <2>2. sup' \in Supers
    <3>1. /\ sup' = [proc |-> s, flags |-> {}, poll |-> TRUE,
                     funnel |-> sup.funnel]
          /\ s \in 0..MaxSessions
      BY DaemonAssumption DEF SpawnLaunches, Session
    <3> QED BY <3>1 DEF IInv, TypeOK, Supers, Operations
  <2>3. op' \in Operations
    <3>1. /\ op' = [act |-> "starting", by |-> op.by, of |-> s]
          /\ s \in 0..MaxSessions
      BY DaemonAssumption DEF SpawnLaunches, Session
    <3> QED BY <3>1 DEF IInv, TypeOK, Supers, Operations
  <2> QED BY <2>1, <2>2, <2>3, DaemonAssumption, ForgottenTyped
     DEF IInv, TypeOK, SpawnLaunches, host, reports, Running, Flags, Live,
         Gone, Supers, Operations, Stores, Ambients
<1>2. Forgotten'
  BY DEF SpawnLaunches, host, Running, Forgotten
<1>3. NoFunnel'
  BY DEF IInv, Core, SpawnLaunches, NoFunnel
<1>4. Tracked'
  BY DEF IInv, Core, Operated, SpawnLaunches, Tracked, Alive
<1>5. Operated'
  BY DEF IInv, Core, SpawnLaunches, Operated, Alive
<1>6. Watched'
  BY DEF SpawnLaunches, Watched
<1>7. Recovered'
  BY DEF IInv, Core, SpawnLaunches, Recovered, Recovering
<1>8. StoreKnown'
  BY DEF IInv, Core, SpawnLaunches, Running, StoreKnown
<1>9. LockedOut'
  BY DEF IInv, Core, StoreKnown, SpawnLaunches, LockedOut
<1>10. EngineHasItsStore'
  BY DEF IInv, Core, TypeOK, StoreKnown, LockedOut, SpawnLaunches, Running,
         EngineHasItsStore
<1>11. Unreported'
  BY DEF IInv, Core, TypeOK, SpawnLaunches, reports, Unreported
<1>12. OneUnlock' /\ AnnouncedOnce'
  BY DEF IInv, Core, SpawnLaunches, reports, host, OneUnlock, AnnouncedOnce
<1> QED BY <1>1, <1>2, <1>3, <1>4, <1>5, <1>6, <1>7, <1>8, <1>9, <1>10, <1>11,
    <1>12
   DEF IInv, Core

\* A spawn that has heard `started` leaves its engine to the poll.
LEMMA SpawnReturnsKeeps ==
  ASSUME IInv, NoOverlaps, SpawnReturns
  PROVE  IInv'
<1>1. TypeOK'
  <2>1. amb' \in Ambients
    <3>1. amb \in Ambients /\ Answered(amb, op.by) \in Ambients
      BY AmbientTyped DEF IInv, TypeOK, Ambients
    <3>2. \/ amb' = amb
          \/ amb' = [Answered(amb, op.by) EXCEPT !.active = TRUE,
                                                 !.degraded = FALSE]
      BY DEF SpawnReturns
    <3> QED BY <3>1, <3>2 DEF Ambients
  <2> QED BY <2>1, DaemonAssumption, AmbientTyped, ForgottenTyped
     DEF IInv, TypeOK, SpawnReturns, host, reports, world, Free, Alive, Live,
         Running, Ambients, Flags, Live, Gone, Supers, Operations, Stores
<1>2. Forgotten'
  BY DEF SpawnReturns, host, Running, Forgotten
<1>3. Operated'
  BY DEF SpawnReturns, Free, Operated
<1>4. Watched'
  BY DEF IInv, Core, SpawnReturns, world, Running, Watched, EngineAlive, Alive
<1>5. Recovered'
  BY DEF IInv, Core, SpawnReturns, world, Free, Recovered, EngineAlive, Alive,
         Recovering
<1>6. StoreKnown'
  BY DEF IInv, Core, SpawnReturns, Free, Running, StoreKnown
<1>7. LockedOut'
  BY DEF IInv, Core, SpawnReturns, world, Free, LockedOut, Alive, EngineAlive
<1>8. NoFunnel' /\ Tracked' /\ OneUnlock' /\ EngineHasItsStore'
      /\ Unreported' /\
      AnnouncedOnce'
  BY DEF IInv, Core, SpawnReturns, world, reports, host, NoFunnel, Tracked,
         Recovering, Alive, Live, OneUnlock, EngineHasItsStore, Unreported,
         AnnouncedOnce
<1> QED BY <1>1, <1>2, <1>3, <1>4, <1>5, <1>6, <1>7, <1>8 DEF IInv, Core

\* A spawn that gives up has killed its engine first.
LEMMA SpawnTimesOutKeeps ==
  ASSUME IInv, NoOverlaps, SpawnTimesOut
  PROVE  IInv'
<1>1. TypeOK'
  <2> USE DEF IInv
  <2>1. op.of \in 0..MaxSessions
        /\ phase \in [Session -> {"none"} \cup Live \cup Gone]
          /\ amb \in Ambients
    BY DEF TypeOK, Ambients
  <2>2. UNCHANGED <<disk, kind, vol, store, recon, host>> /\ op' = Free
    BY DEF SpawnTimesOut
  <2>3. CASE phase[op.of] = "booting" /\ sup.proc = op.of
    <3> DEFINE killed == [phase EXCEPT ![op.of] = "killed"]
    <3>1. killed \in [Session -> {"none"} \cup Live \cup Gone]
      BY <2>1 DEF Gone
    <3>2. /\ Conclude(op.of, killed)
          /\ \E a \in AfterExit(op.of, killed) : amb' = Failed(a, op.by)
      BY <2>3 DEF SpawnTimesOut, Exited, Gone
    <3> HIDE DEF killed
    <3>3. amb' \in Ambients
      BY <3>2, ExitTyped, AmbientTyped
    <3>4. /\ phase' \in [Session -> {"none"} \cup Live \cup Gone]
          /\ announced' \in [Session -> 0..2] /\ crashed' \subseteq Session
          /\ pid' = NoLock /\ sup' = NoEngine /\ resume' \subseteq Session
      BY <2>1, <3>1, <3>2, ConcludeTyped
    <3> QED BY <2>2, <3>3, <3>4, ForgottenTyped DEF TypeOK, Ambients, host,
        Supers, Operations, Stores
  <2>4. CASE ~(phase[op.of] = "booting" /\ sup.proc = op.of)
    <3>1. /\ pid' = NoLock /\ sup' = NoEngine /\ amb' = Failed(amb, op.by)
          /\ UNCHANGED <<phase, reports, resume>>
      BY <2>4 DEF SpawnTimesOut
    <3>2. amb' \in Ambients
      BY <2>1, <3>1, AmbientTyped
    <3> QED BY <2>2, <3>1, <3>2, ForgottenTyped DEF TypeOK, Ambients, host,
        reports, Supers, Operations, Stores
  <2> QED BY <2>3, <2>4
<1>2. Forgotten'
  BY DEF SpawnTimesOut, host, Running, Forgotten
<1>3. NoFunnel'
  BY DEF SpawnTimesOut, NoEngine, Conclude, NoFunnel
<1>4. Tracked'
  BY DaemonAssumption
     DEF IInv, Core, TypeOK, Operated, SpawnTimesOut, Exited, Gone, Conclude,
         Reaped, Tracked, Alive, Live
<1>5. Operated'
  BY DEF SpawnTimesOut, Free, Operated
<1>6. Watched'
  BY DEF Session, SpawnTimesOut, NoEngine, Conclude, Watched, EngineAlive,
         Alive
<1>7. Recovered'
  BY DEF Session, SpawnTimesOut, Free, NoEngine, Conclude, Recovered,
         EngineAlive, Alive
<1>8. StoreKnown'
  BY DEF IInv, Core, SpawnTimesOut, Free, Running, StoreKnown
<1>9. LockedOut'
  BY DaemonAssumption
     DEF IInv, Core, TypeOK, Session, SpawnTimesOut, Free, NoEngine, Conclude,
         Reaped, LockedOut, Alive, EngineAlive
<1>10. EngineHasItsStore'
  BY DaemonAssumption
     DEF IInv, Core, TypeOK, NoFunnel, SpawnTimesOut, Conclude, Reaped,
         EngineHasItsStore, Alive
<1>11. Unreported'
  BY DaemonAssumption
     DEF IInv, Core, TypeOK, Session, SpawnTimesOut, reports, NoEngine,
         Conclude, Reaped, Report, Unreported
<1>12. AnnouncedOnce'
  BY DaemonAssumption
     DEF IInv, Core, TypeOK, SpawnTimesOut, reports, Conclude, Reaped, Report,
         AnnouncedOnce
<1>13. OneUnlock'
  BY DEF IInv, Core, SpawnTimesOut, reports, host, OneUnlock
<1> QED BY <1>1, <1>2, <1>3, <1>4, <1>5, <1>6, <1>7, <1>8, <1>9, <1>10, <1>11,
    <1>12,
   <1>13
   DEF IInv, Core

\* A stop that is refused by the reconcile unwinds the lock it was for.
LEMMA StopRefusedKeeps ==
  ASSUME IInv, NoOverlaps, NEW by \in {"user", "roll", "off", "lock"},
         StopRefused(by)
  PROVE  IInv'
<1>1. TypeOK'
  <2>1. amb' \in Ambients
    <3>1. amb \in Ambients /\ enabled \in BOOLEAN
      BY DEF IInv, TypeOK, Ambients, Stores
    <3>2. \/ amb' = [amb EXCEPT !.roll = "no"]
          \/ amb' = AmbStopped(amb, by)
      BY DEF StopRefused
    <3> QED BY <3>1, <3>2, AmbientTyped DEF Ambients
  <2>2. store' \in Stores
    <3>1. store \in Stores
      BY DEF IInv, TypeOK, Unwound, Ambients, Stores
    <3>2. Unwound(store) \in Stores
      BY DEF IInv, TypeOK, Unwound, Ambients, Stores
    <3>3. \/ store' = store
          \/ store' = Unwound(store)
      BY DEF StopRefused
    <3> QED BY <3>1, <3>2, <3>3
  <2> QED BY <2>1, <2>2, DaemonAssumption, AmbientTyped, ForgottenTyped
     DEF IInv, TypeOK, StopRefused, host, reports, world, Unwound, Recovering,
         Stops, Free, Running, Ambients, Flags, Live, Gone, Supers,
         Operations, Stores
<1>2. Forgotten'
  BY DEF StopRefused, host, Running, Forgotten
<1>3. StoreKnown'
  BY LockAsks DEF IInv, Core, StopRefused, Unwound, Free, Running, StoreKnown
<1>4. LockedOut'
  BY DEF IInv, Core, StopRefused, world, Unwound, LockedOut, Alive,
         EngineAlive
<1>5. OneUnlock'
  BY LockAsks DEF IInv, Core, StopRefused, Unwound, OneUnlock
<1>6. NoFunnel' /\ Tracked' /\ Operated' /\ Watched' /\ Recovered' /\
      EngineHasItsStore' /\ Unreported' /\ AnnouncedOnce'
  BY DEF IInv, Core, StopRefused, world, reports, host, NoFunnel, Tracked,
         Recovering, Alive, Live, Operated, Watched, EngineAlive, Recovered,
         EngineHasItsStore, Unreported, AnnouncedOnce
<1> QED BY <1>1, <1>2, <1>3, <1>4, <1>5, <1>6 DEF IInv, Core

\* A stop without an engine lets the lock go on to quiesce.
LEMMA StopFindsNothingKeeps ==
  ASSUME IInv, NoOverlaps, NEW by \in {"user", "roll", "off", "lock"},
         StopFindsNothing(by)
  PROVE  IInv'
<1>1. TypeOK'
  <2>1. pid' \in [held : BOOLEAN, engine : 0..MaxSessions]
    <3>1. pid \in [held : BOOLEAN, engine : 0..MaxSessions]
      BY DEF IInv, TypeOK, Supers
    <3>2. NoLock \in [held : BOOLEAN, engine : 0..MaxSessions]
      BY ForgottenTyped DEF IInv, TypeOK, Supers
    <3>3. \/ pid' = pid
          \/ pid' = NoLock
      BY DEF StopFindsNothing
    <3> QED BY <3>1, <3>2, <3>3
  <2>2. sup' \in Supers
    <3>1. sup \in Supers
      BY DEF IInv, TypeOK, Supers
    <3>2. PollCancelled \in Supers
      BY CancelKeeps DEF IInv, TypeOK, Supers
    <3>3. \/ sup' = sup
          \/ sup' = PollCancelled
      BY DEF StopFindsNothing
    <3> QED BY <3>1, <3>2, <3>3
  <2> QED BY <2>1, <2>2, DaemonAssumption, AmbientTyped, CancelKeeps,
      ForgottenTyped
     DEF IInv, TypeOK, StopFindsNothing, host, reports, world, StoreStopped,
         NoLock, EngineAlive, Alive, Live, Recovering, Stops, Free, Running,
         Ambients, Flags, Live, Gone, Supers, Operations, Stores
<1>2. Forgotten'
  BY DEF StopFindsNothing, host, Running, Forgotten
<1>3. NoFunnel'
  BY CancelKeeps DEF IInv, Core, StopFindsNothing, NoFunnel
<1>4. Tracked'
  BY DEF IInv, Core, StopFindsNothing, world, EngineAlive, Running, Tracked,
         Alive
<1>5. Operated'
  BY DEF StopFindsNothing, Free, Operated
<1>6. Watched'
  BY DEF IInv, Core, Tracked, StopFindsNothing, world, Running, Watched,
         EngineAlive, Alive
<1>7. Recovered'
  BY DEF StopFindsNothing, Recovered, Recovering
<1>8. StoreKnown'
  BY LockAsks
     DEF IInv, Core, StopFindsNothing, StoreStopped, Free, Running, StoreKnown
<1>9. LockedOut'
  BY DEF IInv, Core, Tracked, Watched, StopFindsNothing, world, Free, Running,
         LockedOut, Alive, EngineAlive
<1>10. OneUnlock'
  BY LockAsks DEF IInv, Core, StopFindsNothing, StoreStopped, OneUnlock
<1>11. Unreported'
  BY CancelKeeps DEF IInv, Core, StopFindsNothing, reports, world, Unreported
<1>12. EngineHasItsStore' /\ AnnouncedOnce'
  BY DEF IInv, Core, StopFindsNothing, world, reports, host,
         EngineHasItsStore, Alive, Live, AnnouncedOnce
<1> QED BY <1>1, <1>2, <1>3, <1>4, <1>5, <1>6, <1>7, <1>8, <1>9, <1>10, <1>11,
    <1>12
   DEF IInv, Core

\* A stop watches the engine in place of the poll.
LEMMA StopBeginsKeeps ==
  ASSUME IInv, NoOverlaps, NEW by \in {"user", "roll", "off", "lock"},
         StopBegins(by)
  PROVE  IInv'
<1>1. TypeOK'
  <2>1. sup' \in Supers
    <3>1. sup' = [PollCancelled EXCEPT !.flags = @ \cup {"stopping"}]
      BY DEF StopBegins
    <3> QED BY <3>1, CancelKeeps DEF IInv, Flags, Supers
  <2> QED BY <2>1, DaemonAssumption, CancelKeeps, ForgottenTyped
     DEF IInv, TypeOK, StopBegins, host, reports, Terminated, EngineAlive,
         Alive, Live, Recovering, Stops, Free, Running, Ambients, Flags, Live,
         Gone, Supers, Operations, Stores
<1>2. Forgotten'
  BY DEF StopBegins, host, Running, Forgotten
<1>3. NoFunnel'
  BY CancelKeeps DEF IInv, Core, StopBegins, NoFunnel
<1>4. Tracked'
  BY CancelKeeps
     DEF IInv, Core, StopBegins, Terminated, Running, Tracked, Alive, Live
<1>5. Operated'
  BY CancelKeeps
     DEF IInv, Core, Tracked, StopBegins, Terminated, Running, Operated, Alive
<1>6. Watched'
  BY DEF StopBegins, Watched
<1>7. Recovered'
  BY DEF StopBegins, Recovered, Recovering
<1>8. StoreKnown'
  BY LockAsks DEF IInv, Core, StopBegins, Running, StoreKnown
<1>9. LockedOut'
  BY DEF IInv, Core, StopBegins, LockedOut, Alive, EngineAlive
<1>10. EngineHasItsStore'
  BY DEF IInv, Core, StopBegins, EngineAlive, EngineHasItsStore, Alive
<1>11. Unreported'
  BY CancelKeeps
     DEF IInv, Core, Session, StopBegins, reports, Terminated, EngineAlive,
         Alive, Unreported
<1>12. OneUnlock' /\ AnnouncedOnce'
  BY DEF IInv, Core, StopBegins, reports, host, OneUnlock, AnnouncedOnce
<1> QED BY <1>1, <1>2, <1>3, <1>4, <1>5, <1>6, <1>7, <1>8, <1>9, <1>10, <1>11,
    <1>12
   DEF IInv, Core

\* The kill of a stop is noted before the exit is seen.
LEMMA StopKillsKeeps ==
  ASSUME IInv, NoOverlaps, StopKills
  PROVE  IInv'
<1>1. TypeOK'
  BY DaemonAssumption
     DEF IInv, TypeOK, StopKills, host, reports, Alive, Live, Running, Flags,
         Live, Gone
<1>2. Forgotten'
  BY DEF StopKills, host, Running, Forgotten
<1>3. NoFunnel'
  BY DEF IInv, Core, StopKills, NoFunnel
<1>4. Tracked'
  BY DEF IInv, Core, StopKills, Running, Tracked, Recovering, Alive
<1>5. Operated'
  BY DEF IInv, Core, StopKills, Operated, Alive
<1>6. Watched'
  BY DEF IInv, Core, StopKills, Watched, EngineAlive, Alive
<1>7. Recovered'
  BY DEF IInv, Core, StopKills, Recovered, EngineAlive, Alive, Recovering
<1>8. LockedOut'
  BY DEF IInv, Core, StopKills, LockedOut, Alive, EngineAlive
<1>9. EngineHasItsStore'
  BY DEF IInv, Core, StopKills, EngineHasItsStore, Alive
<1>10. Unreported'
  BY DEF IInv, Core, Operated, Session, StopKills, reports, Alive, Unreported
<1>11. StoreKnown' /\ OneUnlock' /\ AnnouncedOnce'
  BY DEF IInv, Core, StopKills, reports, host, StoreKnown, OneUnlock,
         AnnouncedOnce
<1> QED BY <1>1, <1>2, <1>3, <1>4, <1>5, <1>6, <1>7, <1>8, <1>9, <1>10, <1>11
   DEF IInv, Core

\* A stop that lets the engine drain arms the poll again.
LEMMA StopDrainsKeeps ==
  ASSUME IInv, NoOverlaps, StopDrains
  PROVE  IInv'
<1>1. TypeOK'
  <2>1. amb' \in Ambients
    <3>1. amb \in Ambients /\ enabled \in BOOLEAN
      BY DEF IInv, TypeOK, Ambients, Supers
    <3>2. amb' = AmbStopped(amb, op.by)
      BY DEF StopDrains
    <3> QED BY <3>1, <3>2, AmbientTyped DEF Ambients
  <2>2. sup' \in Supers
    <3>1. sup' = [sup EXCEPT !.flags = @ \cup {"draining"}, !.poll = TRUE]
      BY DEF StopDrains
    <3> QED BY <3>1 DEF IInv, TypeOK, Flags, Ambients, Supers
  <2> QED BY <2>1, <2>2, DaemonAssumption, AmbientTyped, ForgottenTyped
     DEF IInv, TypeOK, StopDrains, host, reports, world, Free, Alive, Live,
         Running, Ambients, Flags, Live, Gone, Supers, Operations, Stores
<1>2. Forgotten'
  BY DEF StopDrains, host, Running, Forgotten
<1>3. NoFunnel'
  BY DEF IInv, Core, StopDrains, NoFunnel
<1>4. Tracked'
  BY DEF IInv, Core, StopDrains, world, Running, Tracked, Recovering, Alive
<1>5. Operated'
  BY DEF StopDrains, Free, Operated
<1>6. Watched'
  BY DEF IInv, Core, StopDrains, world, Watched, EngineAlive, Alive
<1>7. Recovered'
  BY DEF IInv, Core, StopDrains, world, Free, Recovered, EngineAlive, Alive,
         Recovering
<1>8. StoreKnown'
  BY DEF IInv, Core, StopDrains, Free, Running, StoreKnown
<1>9. LockedOut'
  BY DEF IInv, Core, StopDrains, world, Free, LockedOut, Alive, EngineAlive
<1>10. Unreported'
  BY DEF IInv, Core, Operated, Session, StopDrains, reports, world, Alive,
         Unreported
<1>11. OneUnlock' /\ EngineHasItsStore' /\ AnnouncedOnce'
  BY DEF IInv, Core, StopDrains, world, reports, host, OneUnlock,
         EngineHasItsStore, Alive, Live, AnnouncedOnce
<1> QED BY <1>1, <1>2, <1>3, <1>4, <1>5, <1>6, <1>7, <1>8, <1>9, <1>10, <1>11
   DEF IInv, Core

\* A stop ends behind the exit of its engine.
LEMMA StopEndsKeeps ==
  ASSUME IInv, NoOverlaps, StopEnds
  PROVE  IInv'
<1>1. TypeOK'
  <2> USE DEF IInv
  <2>1. op.of \in 0..MaxSessions
        /\ phase \in [Session -> {"none"} \cup Live \cup Gone]
          /\ amb \in Ambients
    BY DEF TypeOK, Ambients
  <2>2. UNCHANGED <<disk, kind, vol, recon, host>> /\ op' = Free
    BY DEF StopEnds
  <2>s. store' = store \/ store' = [store EXCEPT !.lock = "quiesce"]
    BY DEF StopEnds, StoreStopped
  <2>t. store' \in Stores
    BY <2>s DEF TypeOK, Stores
  <2>3. CASE sup.proc = op.of /\ "handled" \notin sup.flags
    <3>2. /\ Conclude(op.of, phase)
          /\ \E a \in AfterExit(op.of, phase) : amb' = AmbStopped(a, op.by)
      BY <2>3 DEF StopEnds
    <3>3. amb' \in Ambients
      BY <3>2, ExitTyped, AmbientTyped
    <3>4. /\ phase' \in [Session -> {"none"} \cup Live \cup Gone]
          /\ announced' \in [Session -> 0..2] /\ crashed' \subseteq Session
          /\ pid' = NoLock /\ sup' = NoEngine /\ resume' \subseteq Session
      BY <2>1, <3>2, ConcludeTyped
    <3> QED BY <2>2, <2>t, <3>3, <3>4, ForgottenTyped DEF TypeOK, Ambients,
        host, Supers, Operations, Stores
  <2>4. CASE ~(sup.proc = op.of /\ "handled" \notin sup.flags)
    <3>1. amb' = AmbStopped(amb, op.by) /\ UNCHANGED <<phase, reports, pid,
          sup, resume>>
      BY <2>4 DEF StopEnds
    <3>2. amb' \in Ambients
      BY <2>1, <3>1, AmbientTyped
    <3> QED BY <2>2, <2>t, <3>1, <3>2, ForgottenTyped DEF TypeOK, Ambients,
        host, reports, Supers, Operations, Stores
  <2> QED BY <2>3, <2>4
<1>2. Forgotten'
  BY DEF StopEnds, host, Running, Forgotten
<1>3. NoFunnel'
  BY DEF IInv, Core, StopEnds, Conclude, NoEngine, NoFunnel
<1>4. Tracked'
  BY DaemonAssumption
     DEF IInv, Core, TypeOK, Operated, StopEnds, Conclude, Reaped, Tracked,
         Alive, Live
<1>5. Operated'
  BY DEF StopEnds, Free, Operated
<1>6. Watched'
  BY DaemonAssumption
     DEF IInv, Core, Operated, Session, StopEnds, Conclude, NoEngine, Exited,
         Gone, Watched, EngineAlive, Alive, Live
<1>7. Recovered'
  BY DaemonAssumption
     DEF IInv, Core, Session, StopEnds, Free, Conclude, NoEngine, Recovered,
         EngineAlive, Alive, Recovering
<1>8. StoreKnown'
  BY DEF IInv, Core, StopEnds, Free, StoreStopped, Running, StoreKnown
<1>9. LockedOut'
  BY DaemonAssumption
     DEF IInv, Core, TypeOK, Tracked, Operated, Watched, Recovered, OneUnlock,
         EngineHasItsStore, StopEnds, Free, Conclude, Reaped, Exited, Gone,
         LockedOut, Alive, Live, EngineAlive
<1>10. OneUnlock'
  BY DEF IInv, Core, StoreKnown, StopEnds, StoreStopped, OneUnlock
<1>11. EngineHasItsStore'
  BY DaemonAssumption
     DEF IInv, Core, TypeOK, StopEnds, Conclude, Reaped, EngineHasItsStore,
         Alive, Live
<1>12. AnnouncedOnce'
  BY ReportCounts DEF IInv, Core, StopEnds, reports, Conclude, AnnouncedOnce
<1>13. Unreported'
  <2>1. CASE sup.proc = op.of /\ "handled" \notin sup.flags
    <3>1. Conclude(sup.proc, phase) /\ sup.proc \in Session
      BY <2>1 DEF StopEnds, Exited
    <3> QED BY <3>1, ExitReported
  <2>2. CASE ~(sup.proc = op.of /\ "handled" \notin sup.flags)
    BY <2>2 DEF StopEnds, reports, IInv, Core, Unreported
  <2> QED BY <2>1, <2>2
<1> QED BY <1>1, <1>2, <1>3, <1>4, <1>5, <1>6, <1>7, <1>8, <1>9, <1>10, <1>11,
    <1>12,
   <1>13
   DEF IInv, Core

\* The backstop kills and notes it.
LEMMA BackstopKillsKeeps ==
  ASSUME IInv, NoOverlaps, BackstopKills
  PROVE  IInv'
<1>1. TypeOK'
  BY DaemonAssumption
     DEF IInv, TypeOK, BackstopKills, host, reports, EngineAlive, Alive, Live,
         Flags, Live, Gone
<1>2. Forgotten'
  BY DEF IInv, Core, BackstopKills, host, Forgotten, NoEngine
<1>3. NoFunnel'
  BY DEF IInv, Core, BackstopKills, NoFunnel
<1>4. Tracked'
  BY DEF IInv, Core, BackstopKills, EngineAlive, Tracked, Alive
<1>5. Operated'
  BY DEF IInv, Core, BackstopKills, Operated, Alive, Live
<1>6. Watched'
  BY DEF IInv, TypeOK, BackstopKills, Watched, EngineAlive, Alive, Live
<1>7. Recovered'
  BY DEF IInv, Core, BackstopKills, Recovered, Recovering
<1>8. LockedOut'
  BY DEF IInv, Core, BackstopKills, LockedOut, Alive, EngineAlive
<1>9. EngineHasItsStore'
  BY DEF IInv, Core, BackstopKills, EngineHasItsStore, Alive, Live
<1>10. Unreported'
  BY DEF IInv, Core, BackstopKills, reports, Unreported
<1>11. StoreKnown' /\ OneUnlock' /\ AnnouncedOnce'
  BY DEF IInv, Core, BackstopKills, reports, host, StoreKnown, OneUnlock,
         AnnouncedOnce
<1> QED BY <1>1, <1>2, <1>3, <1>4, <1>5, <1>6, <1>7, <1>8, <1>9, <1>10, <1>11
   DEF IInv, Core

\* The ambient stream is enabled.
LEMMA AmbientOnKeeps ==
  ASSUME IInv, NoOverlaps, AmbientOn
  PROVE  IInv'
<1>1. TypeOK'
  <2>1. amb' \in Ambients /\ enabled' \in BOOLEAN
    <3>1. amb \in Ambients
      BY DEF IInv, TypeOK, Ambients
    <3> QED BY <3>1, AmbientTyped DEF AmbientOn
  <2>2. UNCHANGED <<world, reports, pid, sup, op, vol, store, recon, resume,
                    daemon, lives>>
    BY DEF AmbientOn
  <2> QED BY <2>1, <2>2 DEF IInv, TypeOK, Ambients, world, reports
<1>2. Recovering' = Recovering
  BY DEF AmbientOn, Recovering, IInv, TypeOK
<1>3. Core'
  <2>1. UNCHANGED <<phase, announced, pid, sup, op, vol, store, daemon>>
    BY DEF AmbientOn, world, reports
  <2> QED BY <1>2, <2>1, QuietKeeps
<1> QED BY <1>1, <1>3 DEF IInv

\* The ambient stream is disabled.
LEMMA AmbientOffKeeps ==
  ASSUME IInv, NoOverlaps, AmbientOff
  PROVE  IInv'
<1>1. TypeOK'
  <2>1. enabled' \in BOOLEAN
    <3>1. enabled' = FALSE
      BY DEF AmbientOff
    <3> QED BY <3>1 DEF TypeOK
  <2> QED BY <2>1, DaemonAssumption, ForgottenTyped
     DEF IInv, TypeOK, AmbientOff, reports, world, Running, Flags, Live, Gone,
         Supers, Operations, Stores, Ambients
<1>2. Recovering' = Recovering
  BY DEF AmbientOff, Recovering, IInv, TypeOK
<1>3. Core'
  <2>1. UNCHANGED <<phase, announced, pid, sup, op, vol, store, daemon>>
    BY DEF AmbientOff, world, reports
  <2> QED BY <1>2, <2>1, QuietKeeps
<1> QED BY <1>1, <1>3 DEF IInv

\* A back-off is over.
LEMMA RearmWakesKeeps ==
  ASSUME IInv, NoOverlaps, RearmWakes
  PROVE  IInv'
<1>1. TypeOK'
  BY DaemonAssumption
     DEF IInv, TypeOK, RearmWakes, host, reports, world, Running, Flags, Live,
         Gone
<1>2. Recovering' = Recovering
  BY DEF RearmWakes, Recovering, IInv, TypeOK
<1>3. Core'
  <2>1. UNCHANGED <<phase, announced, pid, sup, op, vol, store, daemon>>
    BY DEF RearmWakes, world, reports, host
  <2> QED BY <1>2, <2>1, QuietKeeps
<1> QED BY <1>1, <1>3 DEF IInv

\* The start gate answers.
LEMMA GateAnswersKeeps ==
  ASSUME IInv, NoOverlaps, GateAnswers
  PROVE  IInv'
<1>1. TypeOK'
  <2>1. amb' \in Ambients
    <3>1. [amb EXCEPT !.tasks = (@ \ {"gate"}) \cup {"spawn"}] \in Ambients
      BY DEF IInv, TypeOK, Ambients
    <3>2. [amb EXCEPT !.tasks = @ \ {"gate"}, !.degraded = TRUE] \in Ambients
      BY DEF IInv, TypeOK, Ambients
    <3>3. [amb EXCEPT !.roll = "spawn"] \in Ambients
      BY DEF IInv, TypeOK, Ambients
    <3>4. [amb EXCEPT !.roll = "no", !.degraded = TRUE] \in Ambients
      BY DEF IInv, TypeOK, Ambients
    <3>5. \/ amb' = [amb EXCEPT !.tasks = (@ \ {"gate"}) \cup {"spawn"}]
          \/ amb' = [amb EXCEPT !.tasks = @ \ {"gate"}, !.degraded = TRUE]
          \/ amb' = [amb EXCEPT !.roll = "spawn"]
          \/ amb' = [amb EXCEPT !.roll = "no", !.degraded = TRUE]
      BY DEF GateAnswers
    <3> QED BY <3>1, <3>2, <3>3, <3>4, <3>5
  <2> QED BY <2>1, DaemonAssumption, ForgottenTyped
     DEF IInv, TypeOK, GateAnswers, host, reports, world, Running, Flags,
         Live, Gone, Supers, Operations, Stores, Ambients
<1>2. Recovering' = Recovering
  BY DEF GateAnswers, Recovering, IInv, TypeOK
<1>3. Core'
  <2>1. UNCHANGED <<phase, announced, pid, sup, op, vol, store, daemon>>
    BY DEF GateAnswers, world, reports, host
  <2> QED BY <1>2, <2>1, QuietKeeps
<1> QED BY <1>1, <1>3 DEF IInv

\* A new day begins.
LEMMA DayTurnsKeeps ==
  ASSUME IInv, NoOverlaps, DayTurns
  PROVE  IInv'
<1>1. TypeOK'
  BY DaemonAssumption
     DEF IInv, TypeOK, DayTurns, host, reports, world, Running, Flags, Live,
         Gone
<1>2. Recovering' = Recovering
  BY DEF DayTurns, Recovering, IInv, TypeOK
<1>3. Core'
  <2>1. UNCHANGED <<phase, announced, pid, sup, op, vol, store, daemon>>
    BY DEF DayTurns, world, reports, host
  <2> QED BY <1>2, <2>1, QuietKeeps
<1> QED BY <1>1, <1>3 DEF IInv

\* The reconcile terminates what an earlier daemon left.
LEMMA ReconcileTerminatesKeeps ==
  ASSUME IInv, NoOverlaps, ReconcileTerminates
  PROVE  IInv'
<1>1. TypeOK'
  BY DaemonAssumption
     DEF IInv, TypeOK, ReconcileTerminates, host, reports, Terminated, Alive,
         Live, Flags, Live, Gone
<1>2. Recovering' = Recovering
  BY DEF ReconcileTerminates, Recovering, IInv, TypeOK
<1>3. Core'
  <2>1. UNCHANGED <<announced, pid, sup, op, vol, store, daemon>>
    BY DEF ReconcileTerminates, reports, host
  <2>2. \A t \in Session :
          \/ phase'[t] = phase[t]
          \/ /\ Alive(t)
             /\ \/ phase'[t] \in {"recording", "finalizing", "converging"}
                      /\ phase[t] # "done"
                \/ phase'[t] \in {"clean", "crash"}
                \/ phase'[t] = "killed" /\ t # sup.proc
    BY DEF IInv, Core, TypeOK, ReconcileTerminates, Terminated, Alive, Live
  <2> QED BY <1>2, <2>1, <2>2, EngineKeeps
<1> QED BY <1>1, <1>3 DEF IInv

\* The reconcile kills what does not terminate: no engine of its own daemon.
LEMMA ReconcileKillsKeeps ==
  ASSUME IInv, NoOverlaps, ReconcileKills
  PROVE  IInv'
<1>1. TypeOK'
  BY DaemonAssumption
     DEF IInv, TypeOK, ReconcileKills, host, reports, Alive, Live, Flags,
         Live, Gone
<1>2. Recovering' = Recovering
  BY DEF ReconcileKills, Recovering, IInv, TypeOK
<1>3. Core'
  <2>1. UNCHANGED <<announced, pid, sup, op, vol, store, daemon>>
    BY DEF ReconcileKills, reports, host
  <2>2. \A t \in Session :
          \/ phase'[t] = phase[t]
          \/ /\ Alive(t)
             /\ \/ phase'[t] \in {"recording", "finalizing", "converging"}
                      /\ phase[t] # "done"
                \/ phase'[t] \in {"clean", "crash"}
                \/ phase'[t] = "killed" /\ t # sup.proc
    BY DEF IInv, Core, TypeOK, ReconcileKills, Recovering, Recovered, Tracked,
           EngineAlive, Alive, Live
  <2> QED BY <1>2, <2>1, <2>2, EngineKeeps
<1> QED BY <1>1, <1>3 DEF IInv

\* The reconcile ends with no engine alive.
LEMMA ReconcileEndsKeeps ==
  ASSUME IInv, NoOverlaps, ReconcileEnds
  PROVE  IInv'
<1>1. TypeOK'
  BY DaemonAssumption, AmbientTyped
     DEF IInv, TypeOK, ReconcileEnds, host, reports, world, NeedsResume,
         NoLock, Alive, Live, Recovering, Ambients, Flags, Live, Gone
<1>2. Forgotten'
  BY DEF IInv, Core, ReconcileEnds, host, Recovering, Forgotten
<1>3. Tracked'
  BY DEF IInv, Core, ReconcileEnds, world, Tracked, Alive
<1>4. Watched'
  BY DEF IInv, Core, ReconcileEnds, host, world, Watched, EngineAlive, Alive
<1>5. Recovered'
  BY DEF ReconcileEnds, Recovered, Recovering
<1>6. NoFunnel' /\ Operated' /\ StoreKnown' /\ LockedOut' /\ OneUnlock' /\
      EngineHasItsStore' /\ Unreported' /\ AnnouncedOnce'
  BY DEF IInv, Core, ReconcileEnds, world, reports, host, NoFunnel, Operated,
         Alive, Live, StoreKnown, LockedOut, EngineAlive, OneUnlock,
         EngineHasItsStore, Unreported, AnnouncedOnce
<1> QED BY <1>1, <1>2, <1>3, <1>4, <1>5, <1>6 DEF IInv, Core

\* The sweep picks a recording.
LEMMA SweepResumesKeeps ==
  ASSUME IInv, NoOverlaps, NEW s \in Session, SweepResumes(s)
  PROVE  IInv'
<1>1. TypeOK'
  BY DaemonAssumption
     DEF IInv, TypeOK, SweepResumes, host, reports, world, NeedsResume, Flags,
         Live, Gone
<1>2. Recovering' = Recovering
  BY DEF SweepResumes, Recovering, IInv, TypeOK
<1>3. Core'
  <2>1. UNCHANGED <<phase, announced, pid, sup, op, vol, store, daemon>>
    BY DEF SweepResumes, world, reports, host
  <2> QED BY <1>2, <2>1, QuietKeeps
<1> QED BY <1>1, <1>3 DEF IInv

\* A resume settles a recording.
LEMMA ResumeSettlesKeeps ==
  ASSUME IInv, NoOverlaps, NEW s \in Session, ResumeSettles(s)
  PROVE  IInv'
<1>1. TypeOK'
  BY DaemonAssumption
     DEF IInv, TypeOK, ResumeSettles, host, reports, Flags, Live, Gone
<1>2. Recovering' = Recovering
  BY DEF ResumeSettles, Recovering, IInv, TypeOK
<1>3. Core'
  <2>1. UNCHANGED <<phase, announced, pid, sup, op, vol, store, daemon>>
    BY DEF ResumeSettles, reports, host
  <2> QED BY <1>2, <2>1, QuietKeeps
<1> QED BY <1>1, <1>3 DEF IInv

\* A resume ends without.
LEMMA ResumeGivesUpKeeps ==
  ASSUME IInv, NoOverlaps, NEW s \in Session, ResumeGivesUp(s)
  PROVE  IInv'
<1>1. TypeOK'
  BY DaemonAssumption
     DEF IInv, TypeOK, ResumeGivesUp, host, reports, world, Halting, Flags,
         Live, Gone
<1>2. Recovering' = Recovering
  BY DEF ResumeGivesUp, Recovering, IInv, TypeOK
<1>3. Core'
  <2>1. UNCHANGED <<phase, announced, pid, sup, op, vol, store, daemon>>
    BY DEF ResumeGivesUp, world, reports, host
  <2> QED BY <1>2, <2>1, QuietKeeps
<1> QED BY <1>1, <1>3 DEF IInv

\* A lock begins and refuses every start from there on.
LEMMA LockBeginsKeeps ==
  ASSUME IInv, NoOverlaps, LockBegins
  PROVE  IInv'
<1>1. TypeOK'
  <2>1. store' \in Stores
    <3>1. store' = [store EXCEPT !.sup = "LOCKED", !.app = "LOCKED",
                                   !.lock = "stop"]
      BY DEF LockBegins
    <3> QED BY <3>1 DEF IInv, TypeOK, Stores
  <2> QED BY <2>1, DaemonAssumption, ForgottenTyped
     DEF IInv, TypeOK, LockBegins, host, reports, world, Running, Flags, Live,
         Gone, Supers, Operations, Stores, Ambients
<1>2. Forgotten'
  BY DEF LockBegins, host, Running, Forgotten
<1>3. StoreKnown'
  BY DEF IInv, Core, LockBegins, Running, StoreKnown
<1>4. LockedOut'
  BY DEF LockBegins, LockedOut
<1>5. OneUnlock'
  BY DEF IInv, Core, StoreKnown, LockBegins, OneUnlock
<1>6. NoFunnel' /\ Tracked' /\ Operated' /\ Watched' /\ Recovered' /\
      EngineHasItsStore' /\ Unreported' /\ AnnouncedOnce'
  BY DEF IInv, Core, LockBegins, world, reports, host, NoFunnel, Tracked,
         Recovering, Alive, Live, Operated, Watched, EngineAlive, Recovered,
         EngineHasItsStore, Unreported, AnnouncedOnce
<1> QED BY <1>1, <1>2, <1>3, <1>4, <1>5, <1>6 DEF IInv, Core

\* A lock has quiesced.
LEMMA LockQuiescedKeeps ==
  ASSUME IInv, NoOverlaps, LockQuiesced
  PROVE  IInv'
<1>1. TypeOK'
  BY DaemonAssumption
     DEF IInv, TypeOK, LockQuiesced, host, reports, world, Running, Flags,
         Live, Gone
<1>2. Forgotten'
  BY DEF LockQuiesced, host, Running, Forgotten
<1>3. StoreKnown'
  BY DEF IInv, Core, LockQuiesced, StoreKnown
<1>4. LockedOut'
  BY DEF IInv, Core, LockQuiesced, world, LockedOut, Alive, EngineAlive
<1>5. OneUnlock'
  BY DEF IInv, Core, LockQuiesced, OneUnlock
<1>6. NoFunnel' /\ Tracked' /\ Operated' /\ Watched' /\ Recovered' /\
      EngineHasItsStore' /\ Unreported' /\ AnnouncedOnce'
  BY DEF IInv, Core, LockQuiesced, world, reports, host, NoFunnel, Tracked,
         Recovering, Alive, Live, Operated, Watched, EngineAlive, Recovered,
         EngineHasItsStore, Unreported, AnnouncedOnce
<1> QED BY <1>1, <1>2, <1>3, <1>4, <1>5, <1>6 DEF IInv, Core

\* A lock detaches the volume when no engine is alive.
LEMMA LockDetachesKeeps ==
  ASSUME IInv, NoOverlaps, LockDetaches
  PROVE  IInv'
<1>1. TypeOK'
  <2>1. vol' \in [mounted : BOOLEAN, sealed : BOOLEAN]
    <3>1. vol' = [vol EXCEPT !.mounted = FALSE]
      BY DEF LockDetaches
    <3> QED BY <3>1 DEF IInv, TypeOK
  <2> QED BY <2>1, DaemonAssumption, ForgottenTyped
     DEF IInv, TypeOK, LockDetaches, host, reports, world, Running, Flags,
         Live, Gone, Supers, Operations, Stores, Ambients
<1>2. Forgotten'
  BY DEF LockDetaches, host, Running, Forgotten
<1>3. StoreKnown'
  BY DEF IInv, Core, LockDetaches, StoreKnown
<1>4. LockedOut'
  BY DEF IInv, Core, LockDetaches, world, LockedOut, Alive, EngineAlive
<1>5. OneUnlock'
  BY DEF IInv, Core, TypeOK, LockDetaches, OneUnlock
<1>6. EngineHasItsStore'
  BY DEF IInv, Core, LockedOut, LockDetaches, world, EngineHasItsStore, Alive
<1>7. NoFunnel' /\ Tracked' /\ Operated' /\ Watched' /\ Recovered'
      /\ Unreported' /\
      AnnouncedOnce'
  BY DEF IInv, Core, LockDetaches, world, reports, host, NoFunnel, Tracked,
         Recovering, Alive, Live, Operated, Watched, EngineAlive, Recovered,
         Unreported, AnnouncedOnce
<1> QED BY <1>1, <1>2, <1>3, <1>4, <1>5, <1>6, <1>7 DEF IInv, Core

\* A lock whose detach fails gives the store back, still mounted.
LEMMA LockDetachFailsKeeps ==
  ASSUME IInv, NoOverlaps, LockDetachFails
  PROVE  IInv'
<1>1. TypeOK'
  <2>1. store' \in Stores
    <3>1. store' = Unwound(store)
      BY DEF LockDetachFails
    <3> QED BY <3>1 DEF IInv, TypeOK, Unwound, Stores
  <2> QED BY <2>1, DaemonAssumption, ForgottenTyped
     DEF IInv, TypeOK, LockDetachFails, host, reports, world, Unwound,
         Running, Flags, Live, Gone, Supers, Operations, Stores, Ambients
<1>2. Forgotten'
  BY DEF LockDetachFails, host, Running, Forgotten
<1>3. StoreKnown'
  BY DEF IInv, Core, LockDetachFails, Unwound, StoreKnown
<1>4. LockedOut'
  BY DEF LockDetachFails, Unwound, LockedOut
<1>5. OneUnlock'
  BY DEF IInv, Core, LockDetachFails, Unwound, OneUnlock
<1>6. NoFunnel' /\ Tracked' /\ Operated' /\ Watched' /\ Recovered' /\
      EngineHasItsStore' /\ Unreported' /\ AnnouncedOnce'
  BY DEF IInv, Core, LockDetachFails, world, reports, host, NoFunnel, Tracked,
         Recovering, Alive, Live, Operated, Watched, EngineAlive, Recovered,
         EngineHasItsStore, Unreported, AnnouncedOnce
<1> QED BY <1>1, <1>2, <1>3, <1>4, <1>5, <1>6 DEF IInv, Core

\* A lock seals what it has detached.
LEMMA LockSealsKeeps ==
  ASSUME IInv, NoOverlaps, LockSeals
  PROVE  IInv'
<1>1. TypeOK'
  <2>1. vol' \in [mounted : BOOLEAN, sealed : BOOLEAN]
    <3>1. vol' = [vol EXCEPT !.sealed = TRUE]
      BY DEF LockSeals
    <3> QED BY <3>1 DEF IInv, TypeOK, Stores
  <2>2. store' \in Stores
    <3>1. store' = [store EXCEPT !.app = "LOCKED", !.lock = "idle"]
      BY DEF LockSeals
    <3> QED BY <3>1 DEF IInv, TypeOK, Stores
  <2> QED BY <2>1, <2>2, DaemonAssumption, ForgottenTyped
     DEF IInv, TypeOK, LockSeals, host, reports, world, Running, Flags, Live,
         Gone, Supers, Operations, Stores, Ambients
<1>2. Forgotten'
  BY DEF LockSeals, host, Running, Forgotten
<1>3. StoreKnown'
  BY DEF IInv, Core, LockSeals, StoreKnown
<1>4. LockedOut'
  BY DEF IInv, Core, LockSeals, world, LockedOut, Alive, EngineAlive
<1>5. OneUnlock'
  BY DEF IInv, Core, LockSeals, OneUnlock
<1>6. EngineHasItsStore'
  BY DEF IInv, Core, LockSeals, world, EngineHasItsStore, Alive
<1>7. NoFunnel' /\ Tracked' /\ Operated' /\ Watched' /\ Recovered'
      /\ Unreported' /\
      AnnouncedOnce'
  BY DEF IInv, Core, LockSeals, world, reports, host, NoFunnel, Tracked,
         Recovering, Alive, Live, Operated, Watched, EngineAlive, Recovered,
         Unreported, AnnouncedOnce
<1> QED BY <1>1, <1>2, <1>3, <1>4, <1>5, <1>6, <1>7 DEF IInv, Core

\* An unlock begins when no lock is under way and no other unlock.
LEMMA UnlockBeginsKeeps ==
  ASSUME IInv, NoOverlaps, UnlockBegins
  PROVE  IInv'
<1>1. TypeOK'
  BY DaemonAssumption
     DEF IInv, TypeOK, UnlockBegins, host, reports, world, Running, Flags,
         Live, Gone
<1>2. Forgotten'
  BY DEF UnlockBegins, host, Running, Forgotten
<1>3. StoreKnown'
  BY DEF IInv, Core, UnlockBegins, Running, StoreKnown
<1>4. LockedOut'
  BY DEF IInv, Core, UnlockBegins, world, LockedOut, Alive, EngineAlive
<1>5. OneUnlock'
  BY DEF IInv, Core, TypeOK, StoreKnown, UnlockBegins, Running, OneUnlock,
         NoOverlaps
<1>6. NoFunnel' /\ Tracked' /\ Operated' /\ Watched' /\ Recovered' /\
      EngineHasItsStore' /\ Unreported' /\ AnnouncedOnce'
  BY DEF IInv, Core, UnlockBegins, world, reports, host, NoFunnel, Tracked,
         Recovering, Alive, Live, Operated, Watched, EngineAlive, Recovered,
         EngineHasItsStore, Unreported, AnnouncedOnce
<1> QED BY <1>1, <1>2, <1>3, <1>4, <1>5, <1>6 DEF IInv, Core

\* An unlock mounts.
LEMMA UnlockMountsKeeps ==
  ASSUME IInv, NoOverlaps, UnlockMounts
  PROVE  IInv'
<1>1. TypeOK'
  <2>1. vol' \in [mounted : BOOLEAN, sealed : BOOLEAN]
    <3>1. vol' = [vol EXCEPT !.mounted = TRUE]
      BY DEF UnlockMounts
    <3> QED BY <3>1 DEF IInv, TypeOK, Stores
  <2>2. store' \in Stores
    <3>1. store.mounting - 1 \in 0..2 /\ store.adopting + 1 \in 0..2
      BY DEF UnlockMounts, IInv, TypeOK, Core, OneUnlock, Stores
    <3>2. store' = [store EXCEPT !.mounting = @ - 1, !.adopting = @ + 1]
      BY DEF UnlockMounts
    <3> QED BY <3>1, <3>2 DEF IInv, TypeOK, Stores
  <2> QED BY <2>1, <2>2, DaemonAssumption, ForgottenTyped
     DEF IInv, TypeOK, UnlockMounts, host, reports, world, Running, Flags,
         Live, Gone, Supers, Operations, Stores, Ambients
<1>2. Forgotten'
  BY DEF UnlockMounts, host, Running, Forgotten
<1>3. StoreKnown'
  BY DEF IInv, Core, UnlockMounts, Running, StoreKnown
<1>4. LockedOut'
  BY DEF IInv, Core, UnlockMounts, world, LockedOut, Alive, EngineAlive
<1>5. OneUnlock'
  BY DEF IInv, Core, TypeOK, UnlockMounts, OneUnlock
<1>6. EngineHasItsStore'
  BY DEF UnlockMounts, EngineHasItsStore
<1>7. NoFunnel' /\ Tracked' /\ Operated' /\ Watched' /\ Recovered'
      /\ Unreported' /\
      AnnouncedOnce'
  BY DEF IInv, Core, UnlockMounts, world, reports, host, NoFunnel, Tracked,
         Recovering, Alive, Live, Operated, Watched, EngineAlive, Recovered,
         Unreported, AnnouncedOnce
<1> QED BY <1>1, <1>2, <1>3, <1>4, <1>5, <1>6, <1>7 DEF IInv, Core

\* An unlock fails to mount.
LEMMA UnlockFailsKeeps ==
  ASSUME IInv, NoOverlaps, UnlockFails
  PROVE  IInv'
<1>1. TypeOK'
  BY DaemonAssumption
     DEF IInv, TypeOK, UnlockFails, host, reports, world, Running, Flags,
         Live, Gone
<1>2. Forgotten'
  BY DEF UnlockFails, host, Running, Forgotten
<1>3. StoreKnown'
  BY DEF IInv, Core, UnlockFails, Running, StoreKnown
<1>4. LockedOut'
  BY DEF IInv, Core, UnlockFails, world, LockedOut, Alive, EngineAlive
<1>5. OneUnlock'
  BY DEF IInv, Core, TypeOK, UnlockFails, OneUnlock
<1>6. NoFunnel' /\ Tracked' /\ Operated' /\ Watched' /\ Recovered' /\
      EngineHasItsStore' /\ Unreported' /\ AnnouncedOnce'
  BY DEF IInv, Core, UnlockFails, world, reports, host, NoFunnel, Tracked,
         Recovering, Alive, Live, Operated, Watched, EngineAlive, Recovered,
         EngineHasItsStore, Unreported, AnnouncedOnce
<1> QED BY <1>1, <1>2, <1>3, <1>4, <1>5, <1>6 DEF IInv, Core

\* An unlock gives the store back and starts a reconcile: no engine is alive.
LEMMA UnlockAdoptsKeeps ==
  ASSUME IInv, NoOverlaps, UnlockAdopts
  PROVE  IInv'
<1>1. TypeOK'
  <2>1. vol' \in [mounted : BOOLEAN, sealed : BOOLEAN]
    <3>1. vol' = [vol EXCEPT !.sealed = FALSE]
      BY DEF UnlockAdopts
    <3> QED BY <3>1 DEF IInv, TypeOK, Stores
  <2>2. store' \in Stores
    <3>1. store.adopting - 1 \in 0..2
      BY DEF UnlockAdopts, IInv, TypeOK, Stores
    <3>2. store' = [store EXCEPT !.adopting = @ - 1, !.sup = "MOUNTED",
                                  !.app = "MOUNTED"]
      BY DEF UnlockAdopts
    <3> QED BY <3>1, <3>2 DEF IInv, TypeOK, Stores
  <2> QED BY <2>1, <2>2, DaemonAssumption, ForgottenTyped
     DEF IInv, TypeOK, UnlockAdopts, host, reports, world, Recovering,
         Running, Flags, Live, Gone, Supers, Operations, Stores, Ambients
<1>2. Forgotten'
  BY DEF UnlockAdopts, host, Running, Forgotten
<1>3. Tracked'
  BY DEF IInv, Core, UnlockAdopts, world, Running, Tracked, Recovering, Alive
<1>4. Recovered'
  BY DEF IInv, Core, TypeOK, LockedOut, OneUnlock, UnlockAdopts, world,
         Recovered, EngineAlive, Alive
<1>5. StoreKnown'
  BY DEF IInv, Core, TypeOK, OneUnlock, UnlockAdopts, StoreKnown
<1>6. LockedOut'
  BY DEF IInv, Core, UnlockAdopts, world, LockedOut, Alive
<1>7. OneUnlock'
  BY DEF IInv, Core, TypeOK, UnlockAdopts, OneUnlock
<1>8. EngineHasItsStore'
  BY DEF IInv, Core, UnlockAdopts, world, EngineHasItsStore, Alive
<1>9. NoFunnel' /\ Operated' /\ Watched' /\ Unreported' /\ AnnouncedOnce'
  BY DEF IInv, Core, UnlockAdopts, world, reports, host, NoFunnel, Operated,
         Alive, Live, Watched, EngineAlive, Unreported, AnnouncedOnce
<1> QED BY <1>1, <1>2, <1>3, <1>4, <1>5, <1>6, <1>7, <1>8, <1>9 DEF IInv, Core

\* A shutdown terminates the engine.
LEMMA ShutdownBeginsKeeps ==
  ASSUME IInv, NoOverlaps, ShutdownBegins
  PROVE  IInv'
<1>1. TypeOK'
  <2>1. sup' \in Supers
    <3>1. sup \in Supers
      BY DEF IInv, TypeOK, Flags, Supers, Ambients
    <3>2. [PollCancelled EXCEPT
                !.flags = (@ \cup {"stopping"}) \ {"draining"}] \in Supers
      BY CancelKeeps DEF IInv, TypeOK, Flags, Supers, Ambients
    <3>3. \/ sup' = sup
          \/ sup' = [PollCancelled EXCEPT
                !.flags = (@ \cup {"stopping"}) \ {"draining"}]
      BY DEF ShutdownBegins
    <3> QED BY <3>1, <3>2, <3>3
  <2>2. amb' \in Ambients
    <3>1. amb' = [amb EXCEPT !.tasks = {}, !.roll = "no"]
      BY DEF ShutdownBegins
    <3> QED BY <3>1 DEF IInv, TypeOK, Supers, Ambients
  <2> QED BY <2>1, <2>2, DaemonAssumption, CancelKeeps, ForgottenTyped
     DEF IInv, TypeOK, ShutdownBegins, reports, Terminated, EngineAlive,
         Alive, Live, Free, Running, Ambients, Flags, Live, Gone, Supers,
         Operations, Stores
<1>2. Forgotten'
  BY DEF ShutdownBegins, Forgotten
<1>3. NoFunnel'
  BY CancelKeeps DEF IInv, Core, ShutdownBegins, NoFunnel
<1>4. Operated'
  BY DEF ShutdownBegins, Free, Operated
<1>5. Watched'
  BY DaemonAssumption
     DEF IInv, Core, ShutdownBegins, Watched, EngineAlive, Alive
<1>6. Recovered'
  BY DaemonAssumption
     DEF IInv, Core, ShutdownBegins, Free, Recovered, EngineAlive, Alive,
         Recovering
<1>7. StoreKnown'
  BY DEF IInv, Core, ShutdownBegins, Free, Running, StoreKnown
<1>8. LockedOut'
  BY DaemonAssumption
     DEF IInv, Core, ShutdownBegins, Free, LockedOut, Alive, EngineAlive
<1>9. EngineHasItsStore'
  BY DaemonAssumption
     DEF IInv, Core, ShutdownBegins, EngineAlive, EngineHasItsStore, Alive
<1>10. Tracked' /\ Unreported'
  BY ShutdownTerminates
<1>11. OneUnlock' /\ AnnouncedOnce'
  BY DEF IInv, Core, ShutdownBegins, reports, OneUnlock, AnnouncedOnce
<1> QED BY <1>1, <1>2, <1>3, <1>4, <1>5, <1>6, <1>7, <1>8, <1>9, <1>10, <1>11
   DEF IInv, Core

\* A shutdown kills the engine and notes it.
LEMMA ShutdownKillsKeeps ==
  ASSUME IInv, NoOverlaps, ShutdownKills
  PROVE  IInv'
<1>1. TypeOK'
  BY DaemonAssumption
     DEF IInv, TypeOK, ShutdownKills, host, reports, EngineAlive, Alive, Live,
         Flags, Live, Gone
<1>2. Forgotten'
  BY DEF ShutdownKills, host, Forgotten
<1>3. NoFunnel'
  BY DEF IInv, Core, ShutdownKills, NoFunnel
<1>4. Tracked'
  BY DEF IInv, Core, ShutdownKills, Tracked, Recovering, Alive, Live
<1>5. Operated'
  BY DEF IInv, Core, ShutdownKills, Operated, Alive, Live
<1>6. Watched'
  BY DEF IInv, TypeOK, ShutdownKills, Watched, EngineAlive, Alive, Live
<1>7. Recovered'
  BY DEF IInv, Core, ShutdownKills, Recovered, Recovering
<1>8. LockedOut'
  BY DEF IInv, Core, ShutdownKills, LockedOut, Alive, EngineAlive
<1>9. EngineHasItsStore'
  BY DEF IInv, Core, ShutdownKills, EngineHasItsStore, Alive, Live
<1>10. Unreported'
  BY DEF IInv, Core, Session, ShutdownKills, reports, EngineAlive, Alive,
         Unreported
<1>11. StoreKnown' /\ OneUnlock' /\ AnnouncedOnce'
  BY DEF IInv, Core, ShutdownKills, reports, host, StoreKnown, OneUnlock,
         AnnouncedOnce
<1> QED BY <1>1, <1>2, <1>3, <1>4, <1>5, <1>6, <1>7, <1>8, <1>9, <1>10, <1>11
   DEF IInv, Core

\* A shutdown ends with no engine alive, its exit reported once.
LEMMA ShutdownEndsKeeps ==
  ASSUME IInv, NoOverlaps, ShutdownEnds
  PROVE  IInv'
<1>1. TypeOK'
  <2> USE DEF IInv
  <2>1. /\ phase' \in [Session -> {"none"} \cup Live \cup Gone]
        /\ announced' \in [Session -> 0..2] /\ crashed' \subseteq Session
    <3>1. CASE "stopping" \in sup.flags /\ "handled" \notin sup.flags
      <4>1. Report(sup.proc, phase) /\ phase' = Reaped(phase, sup.proc)
        BY <3>1 DEF ShutdownEnds
      <4>2. announced' \in [Session -> 0..2]
        BY <4>1, ReportCounts DEF Core
      <4>3. sup.proc # 0 => sup.proc \in Session
        BY DEF TypeOK, Session
      <4>4. crashed' \subseteq Session
        BY <4>1, <4>3 DEF Report, TypeOK
      <4>5. phase' \in [Session -> {"none"} \cup Live \cup Gone]
        BY <4>1 DEF Reaped, Gone, TypeOK
      <4> QED BY <4>2, <4>4, <4>5
    <3>2. CASE ~("stopping" \in sup.flags /\ "handled" \notin sup.flags)
      BY <3>2 DEF ShutdownEnds, reports, TypeOK
    <3> QED BY <3>1, <3>2
  <2>2. /\ Forgets(0) /\ daemon' = "down"
        /\ UNCHANGED <<disk, kind, vol, enabled, lives>>
    BY DEF ShutdownEnds
  <2> QED BY <2>1, <2>2, ForgottenTyped, DaemonAssumption DEF Forgets, TypeOK,
      Ambients, Supers, Operations, Stores
<1>2. Forgotten'
  BY DEF ShutdownEnds, Forgets, Forgotten
<1>3. NoFunnel'
  BY DEF ShutdownEnds, Forgets, NoEngine, NoFunnel
<1>4. Tracked'
  BY DaemonAssumption
     DEF IInv, Core, TypeOK, Unreported, ShutdownEnds, Reaped, EngineAlive,
         Tracked, Alive, Live
<1>5. Operated'
  BY DEF ShutdownEnds, Forgets, Free, Operated
<1>6. Watched'
  BY DEF Session, ShutdownEnds, Forgets, NoEngine, Watched, EngineAlive, Alive
<1>7. Recovered'
  BY DEF ShutdownEnds, Forgets, Recovered, Recovering
<1>8. StoreKnown'
  BY DEF ShutdownEnds, Forgets, Serving, Free, StoreKnown
<1>9. LockedOut'
  BY DEF ShutdownEnds, Forgets, Serving, LockedOut
<1>10. OneUnlock'
  BY DEF ShutdownEnds, Forgets, Serving, OneUnlock
<1>11. EngineHasItsStore'
  BY DaemonAssumption
     DEF IInv, Core, TypeOK, ShutdownEnds, Reaped, EngineHasItsStore, Alive,
         Live
<1>12. Unreported'
  BY DaemonAssumption
     DEF IInv, Core, TypeOK, EngineHasItsStore, Session, ShutdownEnds,
         Forgets, NoEngine, reports, Reaped, Report, Unreported
<1>13. AnnouncedOnce'
  BY DaemonAssumption
     DEF IInv, Core, TypeOK, NoFunnel, Operated, LockedOut, OneUnlock,
         EngineHasItsStore, Unreported, ShutdownEnds, reports, Report,
         AnnouncedOnce
<1> QED BY <1>1, <1>2, <1>3, <1>4, <1>5, <1>6, <1>7, <1>8, <1>9, <1>10, <1>11,
    <1>12,
   <1>13
   DEF IInv, Core

\* A daemon that is killed leaves the engine to the pidfile's record.
LEMMA DaemonKilledKeeps ==
  ASSUME IInv, NoOverlaps, DaemonKilled
  PROVE  IInv'
<1>1. TypeOK'
  BY DaemonAssumption
     DEF IInv, TypeOK, DaemonKilled, reports, world, Forgets, Serving,
         NoAmbient, Free, NoEngine, Flags, Live, Gone
<1>2. Forgotten'
  BY DEF DaemonKilled, Forgets, Forgotten
<1>3. NoFunnel'
  BY DEF DaemonKilled, Forgets, NoEngine, NoFunnel
<1>4. Tracked'
  BY DEF IInv, Core, DaemonKilled, world, Forgets, Tracked, Alive
<1>5. Operated'
  BY DEF DaemonKilled, Forgets, Free, Operated
<1>6. Watched'
  BY DEF Session, DaemonKilled, Forgets, NoEngine, Watched, EngineAlive, Alive
<1>7. Recovered'
  BY DEF DaemonKilled, Forgets, Recovered, Recovering
<1>8. StoreKnown'
  BY DEF DaemonKilled, Forgets, Serving, Free, StoreKnown
<1>9. LockedOut'
  BY DEF DaemonKilled, Forgets, Serving, LockedOut
<1>10. OneUnlock'
  BY DEF DaemonKilled, Forgets, Serving, OneUnlock
<1>11. Unreported'
  BY DEF IInv, Core, Session, DaemonKilled, reports, world, Forgets, NoEngine,
         Unreported
<1>12. EngineHasItsStore' /\ AnnouncedOnce'
  BY DEF IInv, Core, DaemonKilled, world, reports, EngineHasItsStore, Alive,
         Live, AnnouncedOnce
<1> QED BY <1>1, <1>2, <1>3, <1>4, <1>5, <1>6, <1>7, <1>8, <1>9, <1>10, <1>11,
    <1>12
   DEF IInv, Core

\* A daemon starts with what the disk says.
LEMMA DaemonStartsKeeps ==
  ASSUME IInv, NoOverlaps, DaemonStarts
  PROVE  IInv'
<1>1. TypeOK'
  <2>1. vol' \in [mounted : BOOLEAN, sealed : BOOLEAN]
    <3>1. \E m \in BOOLEAN : vol' = [vol EXCEPT !.mounted = m]
      BY DEF DaemonStarts, IInv, TypeOK
    <3> QED BY <3>1 DEF IInv, TypeOK
  <2> QED BY <2>1, DaemonAssumption, ForgottenTyped
     DEF IInv, TypeOK, DaemonStarts, reports, world, Serving, Flags, Live,
         Gone, Supers, Operations, Stores, Ambients
<1>2. Forgotten'
  BY DEF DaemonStarts, Forgotten
<1>3. Watched'
  BY DEF IInv, Core, Forgotten, DaemonStarts, world, Watched, EngineAlive,
         Alive
<1>4. StoreKnown'
  BY DEF IInv, Core, Forgotten, DaemonStarts, Serving, StoreKnown
<1>5. OneUnlock'
  BY DEF DaemonStarts, Serving, OneUnlock
<1>6. EngineHasItsStore'
  BY DEF IInv, Core, DaemonStarts, world, EngineHasItsStore, Alive
<1>7. Tracked' /\ Recovered' /\ LockedOut'
  BY DaemonRemembersNothing
<1>8. NoFunnel' /\ Operated' /\ Unreported' /\ AnnouncedOnce'
  BY DEF IInv, Core, DaemonStarts, world, reports, NoFunnel, Operated, Alive,
         Live, Unreported, AnnouncedOnce
<1> QED BY <1>1, <1>2, <1>3, <1>4, <1>5, <1>6, <1>7, <1>8 DEF IInv, Core

-----------------------------------------------------------------------------
(* The invariant.                                                          *)

\* A fresh install: nothing has run, nothing is mounted.
LEMMA Initially ==
  ASSUME Init
  PROVE  IInv
<1>1. TypeOK
  BY ForgottenTyped, DaemonAssumption
     DEF Init, TypeOK, Live, Gone, Ambients, Supers, Operations, Stores
<1>2. \A s \in Session : ~Alive(s) /\ phase[s] = "none" /\ announced[s] = 0
  BY DEF Init, Alive, Live
<1>3. sup.proc = 0 /\ sup.flags = {} /\ sup.funnel = 0 /\ 0 \notin Session
  BY DaemonAssumption DEF Init, NoEngine, Session
<1>4. Forgotten /\ NoFunnel /\ Operated /\ Recovered /\ StoreKnown
  BY <1>2, <1>3
     DEF Init, Forgotten, NoFunnel, Operated, Recovered, StoreKnown, NoEngine,
         Free, Serving, NoLock, Recovering, EngineAlive
<1>5. Tracked /\ Watched /\ LockedOut /\ EngineHasItsStore
  BY <1>2, <1>3
     DEF Init, Tracked, Watched, LockedOut, EngineHasItsStore, Serving,
         EngineAlive, Alive
<1>6. OneUnlock /\ Unreported /\ AnnouncedOnce
  BY <1>2, <1>3
     DEF Init, OneUnlock, Unreported, AnnouncedOnce, Serving
<1> QED BY <1>1, <1>4, <1>5, <1>6 DEF IInv, Core

\* No funnel waits for the pump.
LEMMA NoFunnelGoesOn ==
  ASSUME IInv
  PROVE  ~FunnelGoesOn
BY DEF IInv, Core, NoFunnel, FunnelGoesOn

\* Every step keeps the invariant.
LEMMA StepKeeps ==
  ASSUME NoOverlaps, IInv, [Next]_vars
  PROVE  IInv'
<1>1. CASE Engine
  BY <1>1, EngineStartsKeeps, EngineEndsItselfKeeps, EngineFreezesKeeps,
     EngineTellsKeeps, EngineExitsKeeps DEF Engine
<1>2. CASE Spawn
  BY <1>2, SpawnRefusedKeeps, SpawnBeginsKeeps, SpawnFailsKeeps,
     SpawnReturnsKeeps, SpawnTimesOutKeeps, SpawnLaunchesKeeps DEF Spawn
<1>3. CASE Stop
  BY <1>3, StopRefusedKeeps, StopFindsNothingKeeps, StopBeginsKeeps,
     StopKillsKeeps, StopDrainsKeeps, StopEndsKeeps DEF Stop
<1>4. CASE Exit
  BY <1>4, PollSeesKeeps, NoFunnelGoesOn, BackstopKillsKeeps DEF Exit
<1>5. CASE Ambient
  BY <1>5, AmbientOnKeeps, AmbientOffKeeps, RearmWakesKeeps, GateAnswersKeeps,
     DayTurnsKeeps DEF Ambient
<1>6. CASE Reconcile
  BY <1>6, ReconcileTerminatesKeeps, ReconcileKillsKeeps, ReconcileEndsKeeps
     DEF Reconcile
<1>7. CASE Resume
  BY <1>7, SweepResumesKeeps, ResumeSettlesKeeps, ResumeGivesUpKeeps
     DEF Resume
<1>8. CASE LockOrUnlock
  BY <1>8, LockBeginsKeeps, LockQuiescedKeeps, LockDetachesKeeps,
     LockDetachFailsKeeps, LockSealsKeeps, UnlockBeginsKeeps,
     UnlockMountsKeeps, UnlockFailsKeeps, UnlockAdoptsKeeps DEF LockOrUnlock
<1>9. CASE Process
  BY <1>9, ShutdownBeginsKeeps, ShutdownKillsKeeps, ShutdownEndsKeeps,
     DaemonKilledKeeps, DaemonStartsKeeps DEF Process, IdleFires
<1>10. CASE UNCHANGED vars
  <2>1. TypeOK'
    BY <1>10 DEF IInv, TypeOK, vars
  <2>2. Core'
    <3>1. /\ UNCHANGED <<phase, announced, pid, sup, op, vol, store, daemon>>
          /\ Recovering' = Recovering
      BY <1>10 DEF vars, Recovering
    <3> QED BY <3>1, QuietKeeps
  <2> QED BY <2>1, <2>2 DEF IInv
<1> QED BY <1>1, <1>2, <1>3, <1>4, <1>5, <1>6, <1>7, <1>8, <1>9, <1>10 DEF Next

\* The invariant holds for any number of sessions, retries and daemon lives.
THEOREM Invariant ==
  ASSUME NoOverlaps
  PROVE  Spec => []IInv
<1>1. Init => IInv
  BY Initially
<1>2. IInv /\ [Next]_vars => IInv'
  BY StepKeeps
<1> QED BY <1>1, <1>2, PTL DEF Spec

-----------------------------------------------------------------------------
(* What it says.                                                           *)

\* Every reachable state of the daemon has its type: the bounds on retries, on
\* announcements and on unlocks are never passed.
THEOREM Typed ==
  ASSUME NoOverlaps
  PROVE  Spec => []TypeOK
<1>1. IInv => TypeOK
  BY DEF IInv
<1> QED BY <1>1, Invariant, PTL

\* No two engines record at once, over any number of sessions and daemons.
THEOREM OneEngineAtATime ==
  ASSUME NoOverlaps
  PROVE  Spec => []OneEngine
<1>1. IInv => OneEngine
  BY DEF IInv, Core, Tracked, OneEngine, Alive
<1> QED BY <1>1, Invariant, PTL

\* Once a daemon has reconciled, every live engine is its own and is waited
\* for.
THEOREM EnginesAreSupervised ==
  ASSUME NoOverlaps
  PROVE  Spec => []Supervised
<1>1. IInv => Supervised
  BY DEF IInv, Core, Tracked, Watched, Supervised, Running, EngineAlive, Alive
<1> QED BY <1>1, Invariant, PTL

\* A store lock never detaches the volume under a live engine.
THEOREM EnginesHaveTheirStore ==
  ASSUME NoOverlaps
  PROVE  Spec => []EngineHasItsStore
<1>1. IInv => EngineHasItsStore
  BY DEF IInv, Core
<1> QED BY <1>1, Invariant, PTL

\* A daemon over a sealed store refuses recordings, after every lock, unlock,
\* crash and restart.
THEOREM SealedStoresRefuse ==
  ASSUME NoOverlaps
  PROVE  Spec => []SealedRefusesStart
<1>1. IInv => SealedRefusesStart
  BY DEF IInv, Core, StoreKnown, TypeOK, SealedRefusesStart, Running
<1> QED BY <1>1, Invariant, PTL

\* No exit is announced twice.
THEOREM ExitsAreAnnouncedOnce ==
  ASSUME NoOverlaps
  PROVE  Spec => []AnnouncedOnce
<1>1. IInv => AnnouncedOnce
  BY DEF IInv, Core
<1> QED BY <1>1, Invariant, PTL

-----------------------------------------------------------------------------
(* Crashes.                                                                *)

\* A crash is reported of an engine whose exit is seen: it was not clean, no
\* stop had asked for it and nobody killed it, since every kill is noted first.
LEMMA CrashReported ==
  ASSUME IInv, Exited(sup.proc), Report(sup.proc, phase),
         NEW s \in crashed' \ crashed
  PROVE  phase[s] = "crash"
<1>1. /\ s = sup.proc /\ phase[s] # "clean"
      /\ ~OperatorTerminated(sup.flags)
  BY DEF Report
<1>2. phase[s] \in Gone \ {"reaped", "killed"}
  BY <1>1 DEF IInv, Core, Unreported, OperatorTerminated, Exited
<1> QED BY <1>1, <1>2 DEF Gone

\* A spawn that gives up reports the engine it waited for.
LEMMA LateEngineReported ==
  ASSUME SpawnTimesOut, NEW s \in crashed' \ crashed
  PROVE  phase[s] = "booting"
<1>1. PICK p : /\ phase[op.of] = "booting" /\ sup.proc = op.of
               /\ Report(op.of, p)
  BY DEF SpawnTimesOut, Conclude, reports
<1> QED BY <1>1 DEF Report

\* A shutdown reports an engine it has waited for.
LEMMA ShutdownSeesTheExit ==
  ASSUME IInv, ShutdownEnds, "stopping" \in sup.flags
  PROVE  Exited(sup.proc)
<1>1. sup.proc \in Session
  BY DEF IInv, TypeOK, Core, Unreported, Session
<1> QED BY <1>1
        DEF IInv, TypeOK, Core, Unreported, ShutdownEnds, EngineAlive, Alive,
            Exited

\* Who reports crashes, and of what.
LEMMA StepReportsCrashes ==
  ASSUME IInv, [Next]_vars, NEW s \in crashed' \ crashed
  PROVE  phase[s] \in {"crash", "booting"}
<1>1. CASE PollSees
  <2>1. Exited(sup.proc) /\ Report(sup.proc, phase)
    BY <1>1 DEF PollSees, Conclude, reports
  <2> QED BY <2>1, CrashReported
<1>2. CASE StopEnds
  <2>1. sup.proc = op.of /\ Exited(op.of) /\ Report(op.of, phase)
    BY <1>2 DEF StopEnds, Conclude, reports
  <2> QED BY <2>1, CrashReported
<1>3. CASE ShutdownEnds
  <2>1. "stopping" \in sup.flags /\ Report(sup.proc, phase)
    BY <1>3 DEF ShutdownEnds, reports
  <2> QED BY <1>3, <2>1, ShutdownSeesTheExit, CrashReported
<1>4. CASE SpawnTimesOut
  BY <1>4, LateEngineReported
<1>5. ~Engine
  BY DEF Engine, EngineStarts, EngineEndsItself, EngineFreezes, EngineTells,
         EngineExits, reports
<1>6. Spawn => SpawnTimesOut
  BY DEF Spawn, SpawnRefused, SpawnBegins, SpawnFails, SpawnReturns,
         SpawnLaunches, reports
<1>7. Stop => StopEnds
  BY DEF Stop, StopRefused, StopFindsNothing, StopBegins, StopKills,
         StopDrains, reports
<1>8. Exit => PollSees
  BY NoFunnelGoesOn DEF Exit, BackstopKills, reports
<1>9. ~Ambient
  BY DEF Ambient, AmbientOn, AmbientOff, RearmWakes, GateAnswers, DayTurns,
         reports
<1>10. ~Reconcile /\ ~Resume
  BY DEF Reconcile, ReconcileTerminates, ReconcileKills, ReconcileEnds,
         Resume, SweepResumes, ResumeSettles, ResumeGivesUp, reports
<1>11. ~LockOrUnlock
  BY DEF LockOrUnlock, LockBegins, LockQuiesced, LockDetaches,
         LockDetachFails, LockSeals, UnlockBegins, UnlockMounts, UnlockFails,
         UnlockAdopts, reports
<1>12. Process => ShutdownEnds
  BY DEF Process, IdleFires, ShutdownBegins, ShutdownKills, DaemonKilled,
         DaemonStarts, reports
<1>13. ~UNCHANGED vars
  BY DEF vars
<1> QED BY <1>1, <1>2, <1>3, <1>4, <1>5, <1>6, <1>7, <1>8, <1>9, <1>10, <1>11,
           <1>12, <1>13 DEF Next

\* An engine reported as crashed died by itself or never got to say `started`:
\* no stop, backstop, shutdown or reconcile of the daemon is taken for a crash.
THEOREM ReportedCrashesAreReal ==
  ASSUME NoOverlaps
  PROVE  Spec => CrashesAreReal
<1>1. IInv /\ [Next]_vars =>
        [\A s \in crashed' \ crashed : phase[s] \in {"crash", "booting"}]_vars
  BY StepReportsCrashes
<1> QED BY <1>1, Invariant, PTL DEF Spec, CrashesAreReal
=============================================================================
