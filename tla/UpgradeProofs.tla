--------------------------- MODULE UpgradeProofs ---------------------------
(***************************************************************************)
(* Proofs about the upgrade to the encrypted container: for any library,   *)
(* any number of daemon lives and of writes no footage is lost, the        *)
(* plaintext stays the library until the cutover, the container that is    *)
(* mounted over it is whole, and a store lock never detaches while a       *)
(* cutover swaps.  They are about an upgrade without the disturbances that *)
(* refute these properties (README).                                       *)
(***************************************************************************)
EXTENDS Upgrade, TLAPS

(* The inductive invariant.                                                *)

\* A daemon that is down runs nothing, and a job that is over remembers
\* nothing.
Settled ==
  /\ ~job.on => job.pc = "off" /\ ~job.held
  /\ job.on => job.pc # "off"
  /\ ~daemon.up => /\ ~job.on /\ ~daemon.serves
                   /\ live = None /\ lock \in {"no", "sealed"}

\* Where the worker stands says how far the ledger is.
InStep ==
  /\ job.pc \in {"next", "copying", "verify", "wait", "reserve", "mark"} =>
       ledger.phase = "copying"
  /\ job.pc \in {"sidecars", "detach", "move", "attach", "enable", "commit",
                 "repair"} => ledger.phase = "cutting"
  /\ job.pc = "sweep" => ledger.phase = "cutover"
  /\ ledger.phase = "done" => ledger.state = "completed"
  /\ ledger.phase \in {"cutover", "done"} \/ job.pc = "commit" =>
       config.enabled

\* The reservation keeps recordings out from the look at the stop flag on.
Reserving ==
  /\ job.held => job.pc \in {"mark", "sidecars", "detach", "move", "attach",
                             "enable", "commit"}
  /\ job.pc = "mark" => job.held /\ live = None
  /\ ledger.phase = "cutting" => live = None

\* What is being copied, and what is still to be, is not verified.
Copying ==
  /\ job.pc \in {"copying", "verify"} =>
       /\ job.cur \in Recording /\ job.cur # live /\ job.cur \notin job.todo
       /\ ledger.unit[job.cur] \in {"pending", "copied"}
  /\ job.pc \in {"next", "copying", "verify"} =>
       job.todo \subseteq Outstanding(ledger.unit)
  /\ ledger.phase = "copying" /\ live # None =>
       ledger.unit[live] \in {"untracked", "pending"}
  /\ \A r \in Recording : ledger.unit[r] # "untracked" => now[r] # 0

\* A copy that was verified stays whole, and nothing is cut over without one.
Whole ==
  /\ \A r \in Recording :
       ledger.unit[r] \in {"verified", "deleted"} => box[r] = now[r]
  /\ ledger.phase = "copying" => Units({"deleted"}) = {}
  /\ ledger.phase # "copying" \/ job.pc \in {"reserve", "mark"} =>
       Outstanding(ledger.unit) = {}

\* Where the container is, what it needs to be there, and who may use it.
Mounted ==
  /\ now # Nothing
  /\ job.pc \in {"next", "copying", "verify", "wait", "reserve", "mark",
                 "sidecars"} => at = "interim"
  /\ job.pc \in {"enable", "commit"} => at = "final"
  /\ ledger.phase = "cutting" /\ ~side => at = "interim" /\ plain # Nothing
  /\ job.pc \in {"detach", "move", "attach", "enable", "commit"} => side
  /\ ledger.phase \in {"cutover", "done"} => side
  /\ ledger.phase \in {"cutover", "done"}
       /\ (daemon.serves \/ lock \in {"pause", "detach"}) => at = "final"

\* The plaintext is moved once, as a whole.
MovedOnce ==
  /\ ~aside.there => aside.has = Nothing
  /\ ledger.phase = "copying" => ~aside.there
  /\ ledger.phase = "cutting"
    /\ (aside.there \/ at = "final" \/ job.pc = "attach") =>
       plain = Nothing
  /\ ledger.phase \in {"cutover", "done"} => plain = Nothing

\* A lock asks the job to stop before it detaches, and nothing starts it again.
Locking ==
  /\ live # None => daemon.serves
  /\ lock # "no" => ~daemon.serves
  /\ lock \in {"pause", "detach"} /\ job.on => job.stop
  /\ lock = "detach" => job.pc # "mark"
  /\ lock = "sealed" => ledger.phase \in {"cutover", "done"}

Core ==
  /\ Settled /\ InStep /\ Reserving /\ Copying /\ Whole /\ Mounted /\ MovedOnce
  /\ Locking /\ NoFootageLost /\ PlaintextStays /\ LockSparesSwap

IInv == TypeOK /\ Core

\* The disturbances the proofs leave out.
NoDisturbance == Faults \cap {"late", "early", "overlap", "swap"} = {}

-----------------------------------------------------------------------------
(* Types.                                                                 *)

LEMMA FreshTyped ==
  /\ Idle \in Jobs
  /\ Fresh(TRUE, "begin") \in Jobs
<1>1. 0 \in Version
  BY UpgradeAssumption DEF Version
<1> QED BY <1>1 DEF Idle, Fresh, Jobs, Steps

LEMMA SeededTyped ==
  ASSUME TypeOK
  PROVE  Seeded(plain) \in [Recording -> Statuses]
BY DEF TypeOK, Ledgers, Seeded, Statuses

-----------------------------------------------------------------------------
(* Every action keeps the invariant.                                      *)

\* A recording that starts is not listed yet, and none starts under the
\* reservation or during a cutover.
LEMMA RecordingStartsKeeps ==
  ASSUME NoDisturbance, IInv, NEW r \in Recording, RecordingStarts(r)
  PROVE  IInv'
<1>1. TypeOK'
  <2>1. now' \in [Recording -> Version]
    BY UpgradeAssumption
       DEF IInv, TypeOK, RecordingStarts, Written, Version, Torn, Steps, Runs,
           Phases, Statuses, Asides, Ledgers, Jobs, Daemons
  <2>2. plain' \in [Recording -> Version]
    BY UpgradeAssumption
       DEF IInv, TypeOK, RecordingStarts, Written, Version, Torn, Steps, Runs,
           Phases, Statuses, Asides, Ledgers, Jobs, Daemons
  <2>3. box' \in [Recording -> 0..Torn]
    BY UpgradeAssumption
       DEF IInv, TypeOK, RecordingStarts, Written, Version, Torn, Steps, Runs,
           Phases, Statuses, Asides, Ledgers, Jobs, Daemons
  <2>4. live' \in Recording \cup {None}
    BY DEF IInv, TypeOK, RecordingStarts, Written, Version, Torn, Steps, Runs,
           Phases, Statuses, Asides, Ledgers, Jobs, Daemons
  <2> QED BY <2>1, <2>2, <2>3, <2>4 DEF IInv, TypeOK, RecordingStarts, Written
<1>2. Settled'
  BY DEF IInv, Core, RecordingStarts, Written, Settled
<1>3. Reserving'
  BY DEF IInv, Core, RecordingStarts, Written, Reserving, NoDisturbance
<1>4. Copying'
  BY DEF IInv, Core, RecordingStarts, Written, Copying, Outstanding
<1>5. Whole'
  BY DEF IInv, Core, TypeOK, Copying, RecordingStarts, Written, Whole, Units
<1>6. Mounted'
  BY UpgradeAssumption
     DEF IInv, Core, TypeOK, RecordingStarts, Written, Mounted, Nothing
<1>7. MovedOnce'
  BY DEF IInv, Core, Mounted, RecordingStarts, Written, MovedOnce,
         NoDisturbance
<1>8. Locking'
  BY DEF IInv, Core, RecordingStarts, Written, Locking
<1>9. NoFootageLost'
  BY UpgradeAssumption
     DEF IInv, Core, TypeOK, RecordingStarts, Written, NoFootageLost
<1>10. PlaintextStays'
  BY DEF IInv, Core, RecordingStarts, Written, PlaintextStays
<1>11. InStep' /\ LockSparesSwap'
  BY DEF IInv, Core, RecordingStarts, Written, InStep, LockSparesSwap
<1> QED BY <1>1, <1>2, <1>3, <1>4, <1>5, <1>6, <1>7, <1>8, <1>9, <1>10, <1>11
   DEF IInv, Core

\* A recording that changes has no verified copy, unless the copy is what
\* changes.
LEMMA RecordingChangesKeeps ==
  ASSUME NoDisturbance, IInv, NEW r \in Recording, RecordingChanges(r)
  PROVE  IInv'
<1>1. TypeOK'
  <2>1. now' \in [Recording -> Version]
    BY UpgradeAssumption DEF IInv, TypeOK, RecordingChanges, Written, Version
  <2>2. plain' \in [Recording -> Version]
    BY UpgradeAssumption DEF IInv, TypeOK, RecordingChanges, Written, Version
  <2>3. box' \in [Recording -> 0..Torn]
    BY UpgradeAssumption
       DEF IInv, TypeOK, RecordingChanges, Written, Version, Torn
  <2> QED BY <2>1, <2>2, <2>3 DEF IInv, TypeOK, RecordingChanges, Written
<1>2. Copying'
  <2>1. Written(r)
    BY DEF RecordingChanges, IInv, TypeOK
  <2>2. now' = [now EXCEPT ![r] = @ + 1] /\ now[r] \in Nat
    BY <2>1, UpgradeAssumption DEF Written, IInv, TypeOK, Version
  <2>3. \A q \in Recording : now[q] # 0 => now'[q] # 0
    BY <2>1, <2>2 DEF IInv, TypeOK
  <2> QED BY <2>1, <2>3 DEF RecordingChanges, Written, IInv, Core, Copying,
      Outstanding
<1>3. Whole'
  <2>1. now' = [now EXCEPT ![r] = @ + 1] /\ now[r] \in Nat
    BY DEF RecordingChanges, Written, IInv, TypeOK, Version
  <2>2. CASE at = "final"
    <3>1. box' = [box EXCEPT ![r] = now[r] + 1]
      BY <2>2 DEF RecordingChanges, Written
    <3> QED BY <2>1, <3>1
            DEF RecordingChanges, Written, IInv, TypeOK, Core, Whole, Units,
              Outstanding
  <2>3. CASE at # "final"
    <3>1. box' = box
      BY <2>3 DEF RecordingChanges, Written
    <3>2. ledger.phase \notin {"cutover", "done"}
      BY <2>3 DEF RecordingChanges, IInv, Core, Mounted
    <3>3. ledger.phase = "copying"
      BY <3>2 DEF RecordingChanges, NoDisturbance, IInv, TypeOK, Ledgers,
         Phases
    <3>4. ledger.unit[r] \notin {"verified", "deleted"}
      BY <3>3 DEF RecordingChanges, NoDisturbance, IInv, Core, Whole, Units
    <3> QED BY <2>1, <3>1, <3>4
            DEF RecordingChanges, Written, IInv, TypeOK, Core, Whole, Units,
              Outstanding
  <2> QED BY <2>2, <2>3
<1>4. Mounted'
  <2>1. Written(r)
    BY DEF RecordingChanges, IInv, TypeOK
  <2>2. now' = [now EXCEPT ![r] = @ + 1] /\ now[r] \in Nat
    BY <2>1, UpgradeAssumption DEF Written, IInv, TypeOK, Version
  <2>3. now'[r] # 0
    BY <2>1, <2>2 DEF IInv, TypeOK
  <2>4. now' # Nothing
    BY <2>1, <2>3 DEF Nothing
  <2>5. ledger.phase # "cutting"
    BY DEF RecordingChanges, NoDisturbance
  <2> QED BY <2>1, <2>4, <2>5 DEF Written, IInv, Core, Mounted
<1>5. MovedOnce'
  BY DEF IInv, Core, RecordingChanges, Written, Library, MovedOnce, Nothing
<1>6. NoFootageLost'
  BY UpgradeAssumption
     DEF IInv, Core, TypeOK, RecordingChanges, Written, Library, NoFootageLost
<1>7. PlaintextStays'
  BY DEF IInv, Core, RecordingChanges, Written, Library, PlaintextStays
<1>8. Settled' /\ InStep' /\ Reserving' /\ Locking' /\ LockSparesSwap'
  BY DEF IInv, Core, RecordingChanges, Written, Settled, InStep, Reserving,
         Locking, LockSparesSwap
<1> QED BY <1>1, <1>2, <1>3, <1>4, <1>5, <1>6, <1>7, <1>8 DEF IInv, Core

\* The same of the recording that is being made: the passes leave it out.
LEMMA RecordingGrowsKeeps ==
  ASSUME NoDisturbance, IInv, RecordingGrows
  PROVE  IInv'
<1>1. TypeOK'
  <2>1. now' \in [Recording -> Version]
    BY UpgradeAssumption
       DEF IInv, TypeOK, RecordingGrows, Written, Version, Torn, Steps, Runs,
           Phases, Statuses, Asides, Ledgers, Jobs, Daemons
  <2>2. plain' \in [Recording -> Version]
    BY UpgradeAssumption
       DEF IInv, TypeOK, RecordingGrows, Written, Version, Torn, Steps, Runs,
           Phases, Statuses, Asides, Ledgers, Jobs, Daemons
  <2>3. box' \in [Recording -> 0..Torn]
    BY UpgradeAssumption
       DEF IInv, TypeOK, RecordingGrows, Written, Version, Torn, Steps, Runs,
           Phases, Statuses, Asides, Ledgers, Jobs, Daemons
  <2> QED BY <2>1, <2>2, <2>3 DEF IInv, TypeOK, RecordingGrows, Written
<1>2. Copying'
  <2>1. live \in Recording /\ Written(live)
    BY DEF RecordingGrows, IInv, TypeOK
  <2>2. now' = [now EXCEPT ![live] = @ + 1] /\ now[live] \in Nat
    BY <2>1, UpgradeAssumption DEF Written, IInv, TypeOK, Version
  <2>3. \A r \in Recording : now[r] # 0 => now'[r] # 0
    BY <2>1, <2>2 DEF IInv, TypeOK
  <2> QED BY <2>1, <2>3 DEF RecordingGrows, Written, IInv, Core, Copying,
      Outstanding
<1>3. Whole'
  <2>1. live \in Recording /\ Written(live)
    BY DEF RecordingGrows, IInv, TypeOK
  <2>2. now' = [now EXCEPT ![live] = @ + 1]
    BY <2>1 DEF Written
  <2>3. CASE at = "final"
    <3>1. box' = [box EXCEPT ![live] = now[live] + 1]
      BY <2>1, <2>3 DEF Written
    <3> QED BY <2>1, <2>2, <3>1 DEF Written, IInv, TypeOK, Core, Whole, Units,
        Outstanding
  <2>4. CASE at # "final"
    <3>1. box' = box
      BY <2>1, <2>4 DEF Written
    <3>2. ledger.phase = "copying" 
      BY <2>1, <2>4 DEF RecordingGrows, IInv, Core, Mounted, Locking,
         Reserving, TypeOK, Ledgers, Phases
    <3>3. ledger.unit[live] \in {"untracked", "pending"}
      BY <3>2, <2>1 DEF RecordingGrows, IInv, Core, Copying
    <3> QED BY <2>1, <2>2, <3>1, <3>3 DEF Written, IInv, TypeOK, Core, Whole,
        Units, Outstanding
  <2> QED BY <2>3, <2>4
<1>4. Mounted'
  <2>1. live \in Recording /\ Written(live)
    BY DEF RecordingGrows, IInv, TypeOK
  <2>2. now' = [now EXCEPT ![live] = @ + 1] /\ now[live] \in Nat
    BY <2>1, UpgradeAssumption DEF Written, IInv, TypeOK, Version
  <2>3. now'[live] # 0
    BY <2>1, <2>2 DEF IInv, TypeOK
  <2>4. now' # Nothing
    BY <2>1, <2>3 DEF Nothing
  <2>5. ledger.phase # "cutting"
    BY DEF RecordingGrows, IInv, Core, Reserving
  <2> QED BY <2>1, <2>4, <2>5 DEF Written, IInv, Core, Mounted
<1>5. MovedOnce'
  BY DEF IInv, Core, Reserving, Mounted, Locking, RecordingGrows, Written,
         MovedOnce
<1>6. NoFootageLost'
  BY UpgradeAssumption
     DEF IInv, Core, TypeOK, RecordingGrows, Written, NoFootageLost
<1>7. PlaintextStays'
  BY DEF IInv, Core, RecordingGrows, Written, PlaintextStays
<1>8. Settled' /\ InStep' /\ Reserving' /\ Locking' /\ LockSparesSwap'
  BY DEF IInv, Core, RecordingGrows, Written, Settled, InStep, Reserving,
         Locking, LockSparesSwap
<1> QED BY <1>1, <1>2, <1>3, <1>4, <1>5, <1>6, <1>7, <1>8 DEF IInv, Core

\* A recording ends.
LEMMA RecordingEndsKeeps ==
  ASSUME NoDisturbance, IInv, RecordingEnds
  PROVE  IInv'
<1>1. TypeOK'
  <2>1. live' \in Recording \cup {None}
    BY DEF IInv, TypeOK, RecordingEnds, disk, Version, Torn, Steps, Runs,
           Phases, Statuses, Asides, Ledgers, Jobs, Daemons
  <2> QED BY <2>1 DEF IInv, TypeOK, RecordingEnds, disk
<1>2. Settled'
  BY DEF IInv, Core, RecordingEnds, disk, Settled
<1>3. Reserving'
  BY DEF IInv, Core, RecordingEnds, disk, Reserving
<1>4. Copying'
  BY UpgradeAssumption
     DEF IInv, Core, TypeOK, RecordingEnds, disk, Copying, Outstanding
<1>5. Locking'
  BY DEF IInv, Core, RecordingEnds, disk, Locking
<1>6. InStep' /\ Whole' /\ Mounted' /\ MovedOnce' /\ NoFootageLost'
      /\ PlaintextStays' /\
      LockSparesSwap'
  BY DEF IInv, Core, RecordingEnds, disk, InStep, Whole, Mounted, MovedOnce,
         NoFootageLost, PlaintextStays, LockSparesSwap, Units
<1> QED BY <1>1, <1>2, <1>3, <1>4, <1>5, <1>6 DEF IInv, Core

\* A pass takes up where the ledger says the last one was.
LEMMA PassTakesUpKeeps ==
  ASSUME NoDisturbance, IInv, PassTakesUp
  PROVE  IInv'
<1>1. TypeOK'
  <2>1. job' \in Jobs
    <3>1. job' = Idle \/ \E pc \in {"sweep",
                                    "repair"} : job' = [job EXCEPT !.pc = pc]
      BY DEF PassTakesUp, Over, To
    <3> QED BY <3>1, FreshTyped DEF IInv, TypeOK, Jobs, Steps
  <2> QED BY <2>1 DEF IInv, TypeOK, PassTakesUp, Quiet, disk
<1>2. Settled'
  BY DEF IInv, TypeOK, Jobs, PassTakesUp, Quiet, To, Over, Idle, Fresh, At,
         Settled
<1>3. InStep'
  BY DEF IInv, Core, TypeOK, Jobs, PassTakesUp, To, Over, Idle, Fresh, InStep
<1>4. Reserving'
  BY DEF IInv, Core, TypeOK, Jobs, PassTakesUp, Quiet, To, Over, Idle, Fresh,
         At, Reserving
<1>5. Copying'
  BY DEF IInv, Core, TypeOK, Jobs, PassTakesUp, Quiet, To, Over, Idle, Fresh,
         Copying
<1>6. Whole'
  BY DEF IInv, Core, PassTakesUp, Quiet, disk, IsDone, Whole
<1>7. Mounted'
  BY DEF IInv, Core, TypeOK, Jobs, PassTakesUp, Quiet, disk, To, Over, Idle,
         Fresh, Mounted
<1>8. MovedOnce'
  BY DEF IInv, Core, TypeOK, Jobs, PassTakesUp, disk, To, IsDone, MovedOnce
<1>9. Locking'
  BY DEF IInv, Core, PassTakesUp, Quiet, disk, To, Over, Idle, Fresh, IsDone,
         At, Locking
<1>10. NoFootageLost' /\ PlaintextStays' /\ LockSparesSwap'
  BY DEF IInv, Core, PassTakesUp, Quiet, disk, NoFootageLost, PlaintextStays,
         LockSparesSwap
<1> QED BY <1>1, <1>2, <1>3, <1>4, <1>5, <1>6, <1>7, <1>8, <1>9,
    <1>10 DEF IInv, Core

\* A pass lists what is there, and works on what has no verified copy.
LEMMA PassCopiesKeeps ==
  ASSUME NoDisturbance, IInv, PassCopies
  PROVE  IInv'
<1>1. TypeOK'
  <2>1. at' \in {"nowhere", "interim", "final"}
    BY DEF IInv, TypeOK, PassCopies
  <2>2. ledger' \in Ledgers
    BY DEF IInv, TypeOK, PassCopies, Seeded, Runs, Phases, Statuses, Ledgers
  <2>3. job' \in Jobs
    <3>1. job' = [job EXCEPT !.pc = "next", !.skipped = FALSE,
                              !.todo = Outstanding(ledger'.unit)]
      BY DEF PassCopies
    <3>2. Outstanding(ledger'.unit) \subseteq Recording
      BY DEF Outstanding
    <3> QED BY <3>1, <3>2 DEF IInv, TypeOK, Jobs, Steps
  <2> QED BY <2>1, <2>2, <2>3 DEF IInv, TypeOK, PassCopies, Quiet
<1>2. Settled'
  BY DEF PassCopies, Quiet, Outstanding, Seeded, IsDone, At, Settled
<1>3. InStep'
  BY DEF PassCopies, Quiet, Outstanding, Seeded, IsDone, At, InStep
<1>4. Reserving'
  BY DEF IInv, Core, PassCopies, Quiet, Outstanding, Seeded, IsDone, At,
         Reserving
<1>5. Copying'
  BY DEF IInv, Core, TypeOK, InStep, PlaintextStays, PassCopies, Quiet,
         Seeded, IsDone, Copying
<1>6. Whole'
  BY DEF IInv, Core, InStep, PassCopies, Quiet, Seeded, IsDone, At, Whole,
         Outstanding, Units
<1>7. Mounted'
  BY DEF IInv, Core, TypeOK, InStep, PlaintextStays, PassCopies, Quiet,
         IsDone, Mounted
<1>8. MovedOnce'
  BY DEF IInv, Core, InStep, PassCopies, Quiet, Outstanding, Seeded, IsDone,
         At, MovedOnce, Nothing
<1>9. Locking'
  BY DEF IInv, Core, InStep, PassCopies, Quiet, Outstanding, Seeded, IsDone,
         At, Locking
<1>10. PlaintextStays'
  BY DEF IInv, Core, InStep, PassCopies, Quiet, Outstanding, Seeded, IsDone,
         At, PlaintextStays
<1>11. LockSparesSwap'
  BY DEF PassCopies, Quiet, Outstanding, Seeded, IsDone, At, LockSparesSwap
<1>12. NoFootageLost'
  BY DEF IInv, Core, PassCopies, Quiet, NoFootageLost
<1> QED BY <1>1, <1>2, <1>3, <1>4, <1>5, <1>6, <1>7, <1>8, <1>9, <1>10, <1>11,
    <1>12
   DEF IInv, Core

\* A full disk pauses the job, and no copy was verified by it.
LEMMA PassPausesKeeps ==
  ASSUME NoDisturbance, IInv, PassPauses
  PROVE  IInv'
<1>1. TypeOK'
  <2>1. ledger' \in Ledgers
    <3>1. PICK u \in {ledger.unit, Seeded(plain)} :
                  ledger' = [ledger EXCEPT !.state = "paused", !.unit = u]
      BY DEF PassPauses
    <3>2. u \in [Recording -> Statuses]
      BY <3>1, SeededTyped DEF IInv, TypeOK, Ledgers
    <3> QED BY <3>1, <3>2 DEF IInv, TypeOK, Ledgers, Runs
  <2>2. job' \in Jobs
    BY UpgradeAssumption
       DEF PassPauses, Over, Idle, Fresh, Version, Steps, Jobs
  <2> QED BY <2>1, <2>2 DEF IInv, TypeOK, PassPauses, Quiet, disk
<1>2. Settled'
  BY DEF PassPauses, Quiet, disk, Over, Idle, Fresh, Seeded, At, Settled
<1>3. InStep'
  BY DEF IInv, Core, PassPauses, Quiet, disk, Over, Idle, Fresh, Seeded, At,
         InStep
<1>4. Reserving'
  BY DEF IInv, Core, PassPauses, Quiet, disk, Over, Idle, Fresh, Seeded, At,
         Reserving
<1>5. Copying'
  BY DEF IInv, Core, TypeOK, PlaintextStays, PassPauses, Quiet, Over, Idle,
         Fresh, Seeded, At, Copying
<1>6. Whole'
  BY DEF IInv, Core, PassPauses, Quiet, disk, Over, Idle, Fresh, Seeded, At,
         Whole, Outstanding, Units
<1>7. Mounted'
  BY DEF IInv, Core, PassPauses, Quiet, disk, Over, Idle, Fresh, Seeded, At,
         Mounted, Nothing
<1>8. MovedOnce'
  BY DEF IInv, Core, PassPauses, Quiet, disk, Over, Idle, Fresh, Seeded, At,
         MovedOnce, Nothing
<1>9. Locking'
  BY DEF IInv, Core, PassPauses, Quiet, disk, Over, Idle, Fresh, Seeded, At,
         Locking
<1>10. PlaintextStays'
  BY DEF IInv, Core, PassPauses, Quiet, disk, Over, Idle, Fresh, Seeded, At,
         PlaintextStays
<1>11. LockSparesSwap'
  BY DEF IInv, Core, PassPauses, Quiet, disk, Over, Idle, Fresh, Seeded, At,
         LockSparesSwap
<1>12. NoFootageLost'
  BY DEF IInv, Core, PassPauses, Quiet, disk, NoFootageLost
<1> QED BY <1>1, <1>2, <1>3, <1>4, <1>5, <1>6, <1>7, <1>8, <1>9, <1>10, <1>11,
    <1>12
   DEF IInv, Core

\* A halt leaves the ledger ready to be resumed, before the cutover.
LEMMA PassHaltsKeeps ==
  ASSUME NoDisturbance, IInv, PassHalts
  PROVE  IInv'
<1>1. TypeOK'
  <2>1. ledger' \in Ledgers
    BY DEF IInv, TypeOK, PassHalts, Halted, Runs, Ledgers
  <2>2. job' \in Jobs
    BY UpgradeAssumption DEF PassHalts, Over, Idle, Fresh, Version, Steps, Jobs
  <2> QED BY <2>1, <2>2 DEF IInv, TypeOK, PassHalts, Quiet, disk
<1>2. Settled'
  BY DEF PassHalts, Quiet, disk, Over, Idle, Fresh, Halted, At, IsDone,
         Settled
<1>3. InStep'
  BY DEF IInv, Core, PassHalts, Quiet, disk, Over, Idle, Fresh, Halted, At,
         IsDone, InStep
<1>4. Reserving'
  BY DEF IInv, Core, PassHalts, Quiet, disk, Over, Idle, Fresh, Halted, At,
         IsDone, Reserving
<1>5. Copying'
  BY DEF IInv, Core, PassHalts, Quiet, disk, Over, Idle, Fresh, Halted, At,
         IsDone, Copying, Outstanding
<1>6. Whole'
  BY DEF IInv, Core, PassHalts, Quiet, disk, Over, Idle, Fresh, Halted, Whole,
         Units
<1>7. Mounted'
  BY DEF IInv, Core, PassHalts, Quiet, disk, Over, Idle, Fresh, Halted, At,
         IsDone, Mounted, Nothing
<1>8. MovedOnce'
  BY DEF IInv, Core, PassHalts, Quiet, disk, Over, Idle, Fresh, Halted, At,
         IsDone, MovedOnce, Nothing
<1>9. Locking'
  BY DEF IInv, Core, PassHalts, Quiet, disk, Over, Idle, Fresh, Halted, At,
         IsDone, Locking
<1>10. PlaintextStays'
  BY DEF IInv, Core, PassHalts, Quiet, disk, Over, Idle, Fresh, Halted, At,
         IsDone, PlaintextStays
<1>11. LockSparesSwap'
  BY DEF IInv, Core, PassHalts, Quiet, disk, Over, Idle, Fresh, Halted, At,
         IsDone, LockSparesSwap
<1>12. NoFootageLost'
  BY DEF IInv, Core, PassHalts, Quiet, disk, NoFootageLost
<1> QED BY <1>1, <1>2, <1>3, <1>4, <1>5, <1>6, <1>7, <1>8, <1>9, <1>10, <1>11,
    <1>12
   DEF IInv, Core

\* The recording being made is left to a later pass.
LEMMA SkipActiveKeeps ==
  ASSUME NoDisturbance, IInv, NEW r \in Recording, SkipActive(r)
  PROVE  IInv'
<1>1. TypeOK'
  <2>1. job' \in Jobs
    <3>1. job' = [job EXCEPT !.todo = @ \ {r}, !.skipped = TRUE]
      BY DEF SkipActive
    <3> QED BY <3>1 DEF IInv, TypeOK, Jobs
  <2> QED BY <2>1 DEF IInv, TypeOK, SkipActive, Quiet, disk
<1>2. Settled'
  BY DEF SkipActive, Quiet, disk, At, Settled
<1>3. InStep'
  BY DEF IInv, Core, SkipActive, Quiet, disk, At, InStep
<1>4. Reserving'
  BY DEF IInv, Core, SkipActive, Quiet, disk, At, Reserving
<1>5. Copying'
  BY DEF IInv, Core, SkipActive, Quiet, disk, At, Copying, Outstanding
<1>6. Whole'
  BY DEF IInv, Core, SkipActive, Quiet, disk, At, Whole, Outstanding, Units
<1>7. Mounted'
  BY DEF IInv, Core, SkipActive, Quiet, disk, At, Mounted, Nothing
<1>8. MovedOnce'
  BY DEF IInv, Core, SkipActive, Quiet, disk, At, MovedOnce, Nothing
<1>9. Locking'
  BY DEF IInv, Core, SkipActive, Quiet, disk, At, Locking
<1>10. NoFootageLost' /\ PlaintextStays' /\ LockSparesSwap'
  BY DEF IInv, Core, SkipActive, Quiet, disk, NoFootageLost, PlaintextStays,
         LockSparesSwap
<1> QED BY <1>1, <1>2, <1>3, <1>4, <1>5, <1>6, <1>7, <1>8, <1>9,
    <1>10 DEF IInv, Core

\* A copy that matches is whole.
LEMMA ReverifyKeeps ==
  ASSUME NoDisturbance, IInv, NEW r \in Recording, Reverify(r)
  PROVE  IInv'
<1>1. TypeOK'
  <2>1. ledger' \in Ledgers
    BY DEF IInv, TypeOK, Reverify, Marked, Statuses, Ledgers
  <2>2. job' \in Jobs
    BY DEF IInv, TypeOK, Reverify, Jobs
  <2> QED BY <2>1, <2>2 DEF IInv, TypeOK, Reverify, Quiet, disk
<1>2. Settled'
  BY DEF Reverify, Quiet, disk, Marked, At, Settled
<1>3. InStep'
  BY DEF IInv, Core, Reverify, Quiet, disk, Marked, At, InStep
<1>4. Reserving'
  BY DEF IInv, Core, Reverify, Quiet, disk, Marked, At, Reserving
<1>5. Copying'
  BY DEF IInv, Core, Reverify, Quiet, disk, Marked, At, Copying, Outstanding
<1>6. Whole'
  BY DEF IInv, Core, PlaintextStays, Reverify, Quiet, disk, Marked, At, Whole,
         Outstanding, Units
<1>7. Mounted'
  BY DEF IInv, Core, Reverify, Quiet, disk, Marked, At, Mounted, Nothing
<1>8. MovedOnce'
  BY DEF IInv, Core, Reverify, Quiet, disk, Marked, At, MovedOnce, Nothing
<1>9. Locking'
  BY DEF IInv, Core, Reverify, Quiet, disk, Marked, At, Locking
<1>10. PlaintextStays'
  BY DEF IInv, Core, Reverify, Quiet, disk, Marked, At, PlaintextStays
<1>11. LockSparesSwap'
  BY DEF IInv, Core, Reverify, Quiet, disk, Marked, At, LockSparesSwap
<1>12. NoFootageLost'
  BY DEF IInv, Core, Reverify, Quiet, disk, NoFootageLost
<1> QED BY <1>1, <1>2, <1>3, <1>4, <1>5, <1>6, <1>7, <1>8, <1>9, <1>10, <1>11,
    <1>12
   DEF IInv, Core

\* A torn copy is of a unit that is not verified.
LEMMA CopyBeginsKeeps ==
  ASSUME NoDisturbance, IInv, NEW r \in Recording, CopyBegins(r)
  PROVE  IInv'
<1>1. TypeOK'
  <2>1. box' \in [Recording -> 0..Torn]
    BY UpgradeAssumption DEF IInv, TypeOK, CopyBegins, Torn
  <2>2. job' \in Jobs
    <3>1. job' = [job EXCEPT !.todo = @ \ {r}, !.pc = "copying", !.cur = r,
                  !.saw = plain[r]]
      BY DEF CopyBegins
    <3> QED BY <3>1 DEF IInv, TypeOK, Jobs, Steps
  <2> QED BY <2>1, <2>2 DEF IInv, TypeOK, CopyBegins, Quiet
<1>2. Settled'
  BY DEF CopyBegins, Quiet, Torn, At, Settled
<1>3. InStep'
  BY DEF IInv, Core, CopyBegins, Quiet, Torn, At, InStep
<1>4. Reserving'
  BY DEF IInv, Core, CopyBegins, Quiet, Torn, At, Reserving
<1>5. Copying'
  BY DEF IInv, Core, CopyBegins, Quiet, Torn, At, Copying, Outstanding
<1>6. Whole'
  BY DEF IInv, Core, Copying, CopyBegins, Quiet, Torn, At, Whole, Outstanding,
         Units
<1>7. Mounted'
  BY DEF IInv, Core, CopyBegins, Quiet, Torn, At, Mounted, Nothing
<1>8. MovedOnce'
  BY DEF IInv, Core, CopyBegins, Quiet, Torn, At, MovedOnce, Nothing
<1>9. Locking'
  BY DEF IInv, Core, CopyBegins, Quiet, Torn, At, Locking
<1>10. NoFootageLost'
  BY DEF IInv, Core, Copying, Whole, PlaintextStays, CopyBegins, Quiet, At,
         NoFootageLost
<1>11. PlaintextStays' /\ LockSparesSwap'
  BY DEF IInv, Core, CopyBegins, Quiet, PlaintextStays, LockSparesSwap
<1> QED BY <1>1, <1>2, <1>3, <1>4, <1>5, <1>6, <1>7, <1>8, <1>9, <1>10, <1>11
   DEF IInv, Core

\* A copy that was made is not verified yet.
LEMMA CopyEndsKeeps ==
  ASSUME NoDisturbance, IInv, CopyEnds
  PROVE  IInv'
<1>1. TypeOK'
  <2>1. box' \in [Recording -> 0..Torn]
    BY UpgradeAssumption DEF IInv, TypeOK, CopyEnds, Version, Torn
  <2>2. ledger' \in Ledgers
    BY DEF IInv, TypeOK, CopyEnds, Marked, Statuses, Ledgers
  <2>3. job' \in Jobs
    BY DEF IInv, TypeOK, CopyEnds, To, Steps, Jobs
  <2> QED BY <2>1, <2>2, <2>3 DEF IInv, TypeOK, CopyEnds, Quiet
<1>2. Settled'
  BY DEF CopyEnds, Quiet, To, Marked, At, Settled
<1>3. InStep'
  BY DEF IInv, Core, CopyEnds, Quiet, To, Marked, At, InStep
<1>4. Reserving'
  BY DEF IInv, Core, CopyEnds, Quiet, To, Marked, At, Reserving
<1>5. Copying'
  BY DEF IInv, Core, CopyEnds, Quiet, To, Marked, At, Copying, Outstanding
<1>6. Whole'
  BY DEF IInv, Core, TypeOK, Copying, CopyEnds, Quiet, To, Marked, At, Whole,
         Outstanding, Units
<1>7. Mounted'
  BY DEF IInv, Core, CopyEnds, Quiet, To, Marked, At, Mounted, Nothing
<1>8. MovedOnce'
  BY DEF IInv, Core, CopyEnds, Quiet, To, Marked, At, MovedOnce, Nothing
<1>9. Locking'
  BY DEF IInv, Core, CopyEnds, Quiet, To, Marked, At, Locking
<1>10. NoFootageLost'
  BY DEF IInv, Core, InStep, PlaintextStays, CopyEnds, Quiet, At,
         NoFootageLost
<1>11. PlaintextStays'
  BY DEF IInv, Core, CopyEnds, Quiet, To, Marked, At, PlaintextStays
<1>12. LockSparesSwap'
  BY DEF IInv, Core, CopyEnds, Quiet, To, Marked, At, LockSparesSwap
<1> QED BY <1>1, <1>2, <1>3, <1>4, <1>5, <1>6, <1>7, <1>8, <1>9, <1>10, <1>11,
    <1>12
   DEF IInv, Core

\* A copy that matches is whole, also when what it is of has changed since the
\* copy began.
LEMMA VerifyKeeps ==
  ASSUME NoDisturbance, IInv, Verify
  PROVE  IInv'
<1>1. TypeOK'
  <2>1. ledger' \in Ledgers
    BY DEF IInv, TypeOK, Verify, Marked, Statuses, Ledgers
  <2>2. job' \in Jobs
    <3>1. job' = [job EXCEPT !.pc = "next", !.cur = None, !.saw = 0]
      BY DEF Verify
    <3>2. 0 \in Version
      BY UpgradeAssumption DEF Version
    <3> QED BY <3>1, <3>2 DEF IInv, TypeOK, Jobs, Steps
  <2> QED BY <2>1, <2>2 DEF IInv, TypeOK, Verify, Quiet, disk
<1>2. Settled'
  BY DEF Verify, Quiet, disk, Marked, At, Settled
<1>3. InStep'
  BY DEF IInv, Core, Verify, Quiet, disk, Marked, At, InStep
<1>4. Reserving'
  BY DEF IInv, Core, Verify, Quiet, disk, Marked, At, Reserving
<1>5. Copying'
  BY DEF IInv, Core, Verify, Quiet, disk, Marked, At, Copying, Outstanding
<1>6. Whole'
  BY DEF IInv, Core, Copying, PlaintextStays, Verify, Quiet, disk, Marked, At,
         Whole, Outstanding, Units
<1>7. Mounted'
  BY DEF IInv, Core, Verify, Quiet, disk, Marked, At, Mounted, Nothing
<1>8. MovedOnce'
  BY DEF IInv, Core, Verify, Quiet, disk, Marked, At, MovedOnce, Nothing
<1>9. Locking'
  BY DEF IInv, Core, Verify, Quiet, disk, Marked, At, Locking
<1>10. PlaintextStays'
  BY DEF IInv, Core, Verify, Quiet, disk, Marked, At, PlaintextStays
<1>11. LockSparesSwap'
  BY DEF IInv, Core, Verify, Quiet, disk, Marked, At, LockSparesSwap
<1>12. NoFootageLost'
  BY DEF IInv, Core, Verify, Quiet, disk, NoFootageLost
<1> QED BY <1>1, <1>2, <1>3, <1>4, <1>5, <1>6, <1>7, <1>8, <1>9, <1>10, <1>11,
    <1>12
   DEF IInv, Core

\* The gate lists what it finds unlisted.
LEMMA GateWaitsKeeps ==
  ASSUME NoDisturbance, IInv, GateWaits
  PROVE  IInv'
<1>1. TypeOK'
  <2>1. ledger' \in Ledgers
    <3>1. PICK u \in {ledger.unit, Seeded(plain)} :
                  ledger' = [ledger EXCEPT !.state = "running", !.unit = u]
      BY DEF GateWaits
    <3>2. u \in [Recording -> Statuses]
      BY <3>1, SeededTyped DEF IInv, TypeOK, Ledgers
    <3> QED BY <3>1, <3>2 DEF IInv, TypeOK, Ledgers, Runs
  <2>2. job' \in Jobs
    BY DEF IInv, TypeOK, GateWaits, To, Steps, Jobs
  <2> QED BY <2>1, <2>2 DEF IInv, TypeOK, GateWaits, Quiet, disk
<1>2. Settled'
  BY DEF GateWaits, Quiet, disk, To, Seeded, AllVerified, Units, Tracked,
         MayCutOver, At, Settled
<1>3. InStep'
  BY DEF IInv, Core, GateWaits, Quiet, disk, To, Seeded, AllVerified, Units,
         Tracked, MayCutOver, At, InStep
<1>4. Reserving'
  BY DEF IInv, Core, GateWaits, Quiet, disk, To, Seeded, AllVerified, Units,
         Tracked, MayCutOver, At, Reserving
<1>5. Copying'
  BY DEF IInv, Core, InStep, PlaintextStays, GateWaits, Quiet, To, Seeded, At,
         Copying
<1>6. Whole'
  BY DEF IInv, Core, InStep, GateWaits, Quiet, disk, To, Seeded, At, Whole,
         Units
<1>7. Mounted'
  BY DEF IInv, Core, GateWaits, Quiet, disk, To, At, Mounted
<1>8. MovedOnce'
  BY DEF IInv, Core, GateWaits, disk, To, MovedOnce
<1>9. Locking'
  BY DEF IInv, Core, GateWaits, Quiet, disk, To, Seeded, AllVerified, Units,
         Tracked, MayCutOver, At, Locking
<1>10. PlaintextStays'
  BY DEF IInv, Core, GateWaits, Quiet, disk, To, Seeded, AllVerified, Units,
         Tracked, MayCutOver, At, PlaintextStays
<1>11. LockSparesSwap'
  BY DEF IInv, Core, GateWaits, Quiet, disk, To, Seeded, AllVerified, Units,
         Tracked, MayCutOver, At, LockSparesSwap
<1>12. NoFootageLost'
  BY DEF IInv, Core, GateWaits, Quiet, disk, NoFootageLost
<1> QED BY <1>1, <1>2, <1>3, <1>4, <1>5, <1>6, <1>7, <1>8, <1>9, <1>10, <1>11,
    <1>12
   DEF IInv, Core

\* The gate opens when everything that is listed is verified.
LEMMA GateOpensKeeps ==
  ASSUME NoDisturbance, IInv, GateOpens
  PROVE  IInv'
<1>1. TypeOK'
  <2>1. job' \in Jobs
    BY DEF IInv, TypeOK, GateOpens, To, Steps, Jobs
  <2> QED BY <2>1 DEF IInv, TypeOK, GateOpens, Quiet, disk
<1>2. Settled'
  BY DEF GateOpens, Quiet, disk, To, MayCutOver, Tracked, Units, AllVerified,
         At, Settled
<1>3. InStep'
  BY DEF IInv, Core, GateOpens, Quiet, disk, To, MayCutOver, Tracked, Units,
         AllVerified, At, InStep
<1>4. Reserving'
  BY DEF IInv, Core, GateOpens, Quiet, disk, To, MayCutOver, Tracked, Units,
         AllVerified, At, Reserving
<1>5. Copying'
  BY DEF IInv, Core, GateOpens, Quiet, disk, To, MayCutOver, Tracked, Units,
         AllVerified, At, Copying, Outstanding
<1>6. Whole'
  BY DEF IInv, Core, GateOpens, Quiet, disk, To, MayCutOver, Tracked,
         AllVerified, At, Whole, Outstanding, Units
<1>7. Mounted'
  BY DEF IInv, Core, GateOpens, Quiet, disk, To, MayCutOver, Tracked, Units,
         AllVerified, At, Mounted, Nothing
<1>8. MovedOnce'
  BY DEF IInv, Core, GateOpens, Quiet, disk, To, MayCutOver, Tracked, Units,
         AllVerified, At, MovedOnce, Nothing
<1>9. Locking'
  BY DEF IInv, Core, GateOpens, Quiet, disk, To, MayCutOver, Tracked, Units,
         AllVerified, At, Locking
<1>10. NoFootageLost' /\ PlaintextStays' /\ LockSparesSwap'
  BY DEF IInv, Core, GateOpens, Quiet, disk, NoFootageLost, PlaintextStays,
         LockSparesSwap
<1> QED BY <1>1, <1>2, <1>3, <1>4, <1>5, <1>6, <1>7, <1>8, <1>9,
    <1>10 DEF IInv, Core

\* A pass begins again.
LEMMA RedriveKeeps ==
  ASSUME NoDisturbance, IInv, Redrive
  PROVE  IInv'
<1>1. TypeOK'
  <2>1. job' \in Jobs
    <3>1. job' = Idle \/ job' = [job EXCEPT !.pc = "begin"]
      BY DEF Redrive, Over, To
    <3> QED BY <3>1, FreshTyped DEF IInv, TypeOK, Jobs, Steps
  <2> QED BY <2>1 DEF IInv, TypeOK, Redrive, Quiet, disk
<1>2. Settled'
  BY DEF IInv, TypeOK, Jobs, Redrive, Quiet, To, Over, Idle, Fresh, At,
         Settled
<1>3. InStep'
  BY DEF IInv, Core, TypeOK, Jobs, Redrive, To, Over, Idle, Fresh, InStep
<1>4. Reserving'
  BY DEF IInv, Core, TypeOK, Jobs, Redrive, Quiet, To, Over, Idle, Fresh, At,
         Reserving
<1>5. Copying'
  BY DEF IInv, Core, TypeOK, Jobs, Redrive, Quiet, To, Over, Idle, Fresh,
         Copying
<1>6. Whole'
  BY DEF IInv, Core, TypeOK, Jobs, Redrive, Quiet, disk, To, Over, Idle,
         Fresh, Whole, Units
<1>7. Mounted'
  BY DEF IInv, Core, TypeOK, Jobs, Redrive, Quiet, disk, To, Over, Idle,
         Fresh, Mounted
<1>8. MovedOnce'
  BY DEF IInv, Core, TypeOK, Jobs, Redrive, disk, To, Over, Idle, Fresh,
         MovedOnce
<1>9. Locking'
  BY DEF IInv, Core, Redrive, Quiet, disk, To, Over, Idle, Fresh, At, Locking
<1>10. NoFootageLost' /\ PlaintextStays' /\ LockSparesSwap'
  BY DEF IInv, Core, Redrive, Quiet, disk, NoFootageLost, PlaintextStays,
         LockSparesSwap
<1> QED BY <1>1, <1>2, <1>3, <1>4, <1>5, <1>6, <1>7, <1>8, <1>9,
    <1>10 DEF IInv, Core

\* A refused reservation ends the job before the cutover.
LEMMA ReservationRefusedKeeps ==
  ASSUME NoDisturbance, IInv, ReservationRefused
  PROVE  IInv'
<1>1. TypeOK'
  <2>1. job' \in Jobs
    BY UpgradeAssumption
       DEF ReservationRefused, Over, Idle, Fresh, Version, Steps, Jobs
  <2> QED BY <2>1 DEF IInv, TypeOK, ReservationRefused, Quiet, disk
<1>2. Settled'
  BY DEF ReservationRefused, Quiet, disk, Over, Idle, Fresh, At, Settled
<1>3. InStep'
  BY DEF IInv, Core, ReservationRefused, Quiet, disk, Over, Idle, Fresh, At,
         InStep
<1>4. Reserving'
  BY DEF IInv, Core, ReservationRefused, Quiet, disk, Over, Idle, Fresh, At,
         Reserving
<1>5. Copying'
  BY DEF IInv, Core, ReservationRefused, Quiet, disk, Over, Idle, Fresh, At,
         Copying, Outstanding
<1>6. Whole'
  BY DEF IInv, Core, ReservationRefused, Quiet, disk, Over, Idle, Fresh, At,
         Whole, Outstanding, Units
<1>7. Mounted'
  BY DEF IInv, Core, ReservationRefused, Quiet, disk, Over, Idle, Fresh, At,
         Mounted, Nothing
<1>8. MovedOnce'
  BY DEF IInv, Core, ReservationRefused, Quiet, disk, Over, Idle, Fresh, At,
         MovedOnce, Nothing
<1>9. Locking'
  BY DEF IInv, Core, ReservationRefused, Quiet, disk, Over, Idle, Fresh, At,
         Locking
<1>10. NoFootageLost' /\ PlaintextStays' /\ LockSparesSwap'
  BY DEF IInv, Core, ReservationRefused, Quiet, disk, NoFootageLost,
         PlaintextStays, LockSparesSwap
<1> QED BY <1>1, <1>2, <1>3, <1>4, <1>5, <1>6, <1>7, <1>8, <1>9,
    <1>10 DEF IInv, Core

\* The reservation is held when nothing records and no stop was asked for.
LEMMA ReservedKeeps ==
  ASSUME NoDisturbance, IInv, Reserved
  PROVE  IInv'
<1>1. TypeOK'
  <2>1. job' \in Jobs
    <3>1. job' = [job EXCEPT !.pc = "mark", !.held = TRUE]
      BY DEF Reserved
    <3> QED BY <3>1 DEF IInv, TypeOK, Jobs, Steps
  <2> QED BY <2>1 DEF IInv, TypeOK, Reserved, Quiet, disk
<1>2. Settled'
  BY DEF Reserved, Quiet, disk, At, Settled
<1>3. InStep'
  BY DEF IInv, Core, Reserved, Quiet, disk, At, InStep
<1>4. Reserving'
  BY DEF Reserved, Quiet, disk, At, Reserving
<1>5. Copying'
  BY DEF IInv, Core, Reserved, Quiet, disk, At, Copying, Outstanding
<1>6. Whole'
  BY DEF IInv, Core, Reserved, Quiet, disk, At, Whole, Outstanding, Units
<1>7. Mounted'
  BY DEF IInv, Core, Reserved, Quiet, disk, At, Mounted, Nothing
<1>8. MovedOnce'
  BY DEF IInv, Core, Reserved, Quiet, disk, At, MovedOnce, Nothing
<1>9. Locking'
  BY DEF IInv, Core, Reserved, Quiet, disk, At, Locking
<1>10. NoFootageLost' /\ PlaintextStays' /\ LockSparesSwap'
  BY DEF IInv, Core, Reserved, Quiet, disk, NoFootageLost, PlaintextStays,
         LockSparesSwap
<1> QED BY <1>1, <1>2, <1>3, <1>4, <1>5, <1>6, <1>7, <1>8, <1>9,
    <1>10 DEF IInv, Core

\* The cutover begins under the reservation, and no lock is about to detach.
LEMMA CutoverBeginsKeeps ==
  ASSUME NoDisturbance, IInv, CutoverBegins
  PROVE  IInv'
<1>1. TypeOK'
  <2>1. ledger' \in Ledgers
    BY DEF IInv, TypeOK, CutoverBegins, Phases, Ledgers
  <2>2. job' \in Jobs
    BY DEF IInv, TypeOK, CutoverBegins, To, Steps, Jobs
  <2> QED BY <2>1, <2>2 DEF IInv, TypeOK, CutoverBegins, Quiet, disk
<1>2. Settled'
  BY DEF CutoverBegins, Quiet, disk, To, At, Settled
<1>3. InStep'
  BY DEF CutoverBegins, Quiet, disk, To, At, InStep
<1>4. Reserving'
  BY DEF IInv, Core, CutoverBegins, Quiet, disk, To, At, Reserving
<1>5. Copying'
  BY DEF IInv, Core, CutoverBegins, Quiet, disk, To, At, Copying, Outstanding
<1>6. Whole'
  BY DEF IInv, Core, CutoverBegins, Quiet, disk, To, At, Whole, Outstanding,
         Units
<1>7. Mounted'
  BY DEF IInv, Core, InStep, PlaintextStays, CutoverBegins, Quiet, disk, To,
         At, Mounted
<1>8. MovedOnce'
  BY DEF IInv, Core, InStep, PlaintextStays, CutoverBegins, disk, To, At,
         MovedOnce
<1>9. Locking'
  BY DEF IInv, Core, InStep, CutoverBegins, Quiet, disk, To, At, Locking
<1>10. PlaintextStays'
  BY DEF CutoverBegins, Quiet, disk, To, At, PlaintextStays
<1>11. LockSparesSwap'
  BY DEF IInv, Core, Locking, CutoverBegins, Quiet, disk, To, At,
         LockSparesSwap
<1>12. NoFootageLost'
  BY DEF IInv, Core, CutoverBegins, Quiet, disk, NoFootageLost
<1> QED BY <1>1, <1>2, <1>3, <1>4, <1>5, <1>6, <1>7, <1>8, <1>9, <1>10, <1>11,
    <1>12
   DEF IInv, Core

\* The databases are copied while the library is still there.
LEMMA CopySidecarsKeeps ==
  ASSUME NoDisturbance, IInv, CopySidecars
  PROVE  IInv'
<1>1. TypeOK'
  <2>1. side' \in BOOLEAN
    BY DEF CopySidecars
  <2>2. job' \in Jobs
    BY DEF IInv, TypeOK, CopySidecars, To, Steps, Jobs
  <2> QED BY <2>1, <2>2 DEF IInv, TypeOK, CopySidecars, Quiet
<1>2. Settled'
  BY DEF CopySidecars, Quiet, To, At, Settled
<1>3. InStep'
  BY DEF IInv, Core, CopySidecars, Quiet, To, At, InStep
<1>4. Reserving'
  BY DEF IInv, Core, CopySidecars, Quiet, To, At, Reserving
<1>5. Copying'
  BY DEF IInv, Core, CopySidecars, Quiet, To, At, Copying, Outstanding
<1>6. Whole'
  BY DEF IInv, Core, CopySidecars, Quiet, To, At, Whole, Outstanding, Units
<1>7. Mounted'
  BY DEF IInv, Core, CopySidecars, Quiet, To, At, Mounted, Nothing
<1>8. MovedOnce'
  BY DEF IInv, Core, CopySidecars, Quiet, To, At, MovedOnce, Nothing
<1>9. Locking'
  BY DEF IInv, Core, CopySidecars, Quiet, To, At, Locking
<1>10. NoFootageLost' /\ PlaintextStays' /\ LockSparesSwap'
  BY DEF IInv, Core, CopySidecars, Quiet, NoFootageLost, PlaintextStays,
         LockSparesSwap
<1> QED BY <1>1, <1>2, <1>3, <1>4, <1>5, <1>6, <1>7, <1>8, <1>9,
    <1>10 DEF IInv, Core

\* The container is taken from beside the library, with the databases in it.
LEMMA DetachInterimKeeps ==
  ASSUME NoDisturbance, IInv, DetachInterim
  PROVE  IInv'
<1>1. TypeOK'
  <2>1. at' \in {"nowhere", "interim", "final"}
    BY DEF DetachInterim
  <2>2. job' \in Jobs
    BY DEF IInv, TypeOK, DetachInterim, To, Steps, Jobs
  <2> QED BY <2>1, <2>2 DEF IInv, TypeOK, DetachInterim, Quiet
<1>2. Settled'
  BY DEF DetachInterim, Quiet, To, At, Settled
<1>3. InStep'
  BY DEF IInv, Core, DetachInterim, Quiet, To, At, InStep
<1>4. Reserving'
  BY DEF IInv, Core, DetachInterim, Quiet, To, At, Reserving
<1>5. Copying'
  BY DEF IInv, Core, DetachInterim, Quiet, To, At, Copying, Outstanding
<1>6. Whole'
  BY DEF IInv, Core, DetachInterim, Quiet, To, At, Whole, Outstanding, Units
<1>7. Mounted'
  BY DEF IInv, Core, InStep, DetachInterim, Quiet, To, At, Mounted, Nothing
<1>8. MovedOnce'
  BY DEF IInv, Core, DetachInterim, Quiet, To, At, MovedOnce, Nothing
<1>9. Locking'
  BY DEF IInv, Core, DetachInterim, Quiet, To, At, Locking
<1>10. PlaintextStays'
  BY DEF IInv, Core, DetachInterim, Quiet, To, At, PlaintextStays
<1>11. NoFootageLost' /\ LockSparesSwap'
  BY DEF IInv, Core, DetachInterim, Quiet, NoFootageLost, LockSparesSwap
<1> QED BY <1>1, <1>2, <1>3, <1>4, <1>5, <1>6, <1>7, <1>8, <1>9, <1>10, <1>11
   DEF IInv, Core

\* A cutover that was cut off before the databases still has them to copy.
LEMMA RepairKeeps ==
  ASSUME NoDisturbance, IInv, Repair
  PROVE  IInv'
<1>1. TypeOK'
  <2>1. side' \in BOOLEAN
    <3>1. side' = TRUE \/ side' = side
      BY DEF Repair
    <3> QED BY <3>1 DEF IInv, TypeOK
  <2>2. at' \in {"nowhere", "interim", "final"}
    BY DEF IInv, TypeOK, Repair
  <2>3. job' \in Jobs
    BY DEF IInv, TypeOK, Repair, To, Steps, Jobs
  <2> QED BY <2>1, <2>2, <2>3 DEF IInv, TypeOK, Repair, Quiet
<1>2. Settled'
  BY DEF Repair, Quiet, To, At, Settled
<1>3. InStep'
  BY DEF IInv, Core, Repair, Quiet, To, At, InStep
<1>4. Reserving'
  BY DEF IInv, Core, Repair, Quiet, To, At, Reserving
<1>5. Copying'
  BY DEF IInv, Core, Repair, Quiet, To, At, Copying, Outstanding
<1>6. Whole'
  BY DEF IInv, Core, Repair, Quiet, To, At, Whole, Outstanding, Units
<1>7. Mounted'
  BY DEF IInv, Core, InStep, Repair, Quiet, To, At, Mounted, Nothing
<1>8. MovedOnce'
  BY DEF IInv, Core, Repair, Quiet, To, At, MovedOnce, Nothing
<1>9. Locking'
  BY DEF IInv, Core, Repair, Quiet, To, At, Locking
<1>10. PlaintextStays'
  BY DEF IInv, Core, Repair, Quiet, To, At, PlaintextStays
<1>11. NoFootageLost' /\ LockSparesSwap'
  BY DEF IInv, Core, Repair, Quiet, NoFootageLost, LockSparesSwap
<1> QED BY <1>1, <1>2, <1>3, <1>4, <1>5, <1>6, <1>7, <1>8, <1>9, <1>10, <1>11
   DEF IInv, Core

\* The library is moved aside once, and nothing is mounted over it then.
LEMMA MoveAsideKeeps ==
  ASSUME NoDisturbance, IInv, MoveAside
  PROVE  IInv'
<1>1. TypeOK'
  <2>1. plain' \in [Recording -> Version]
    BY UpgradeAssumption DEF IInv, TypeOK, MoveAside, Nothing, Version
  <2>2. aside' \in Asides
    <3>1. CASE aside' = [there |-> TRUE, has |-> plain]
      BY <3>1 DEF IInv, TypeOK, Asides
    <3>2. CASE aside' = aside
      BY <3>2 DEF IInv, TypeOK
    <3> QED BY <3>1, <3>2 DEF MoveAside
  <2>3. job' \in Jobs
    BY DEF IInv, TypeOK, MoveAside, To, Steps, Jobs
  <2> QED BY <2>1, <2>2, <2>3 DEF IInv, TypeOK, MoveAside, Quiet
<1>2. Settled'
  BY DEF MoveAside, Quiet, To, Nothing, At, Settled
<1>3. InStep'
  BY DEF IInv, Core, MoveAside, Quiet, To, Nothing, At, InStep
<1>4. Reserving'
  BY DEF IInv, Core, MoveAside, Quiet, To, Nothing, At, Reserving
<1>5. Copying'
  BY DEF IInv, Core, MoveAside, Quiet, To, Nothing, At, Copying, Outstanding
<1>6. Whole'
  BY DEF IInv, Core, MoveAside, Quiet, To, Nothing, At, Whole, Outstanding,
         Units
<1>7. Mounted'
  BY DEF IInv, Core, MoveAside, Quiet, To, At, Mounted, Nothing
<1>8. MovedOnce'
  BY DEF IInv, Core, InStep, MoveAside, Quiet, To, At, MovedOnce, Nothing
<1>9. Locking'
  BY DEF IInv, Core, MoveAside, Quiet, To, Nothing, At, Locking
<1>10. NoFootageLost'
  BY DEF IInv, Core, MovedOnce, MoveAside, Quiet, To, Nothing, At,
         NoFootageLost
<1>11. PlaintextStays'
  BY DEF IInv, Core, InStep, MoveAside, Quiet, To, Nothing, At, PlaintextStays
<1>12. LockSparesSwap'
  BY DEF IInv, Core, MoveAside, Quiet, LockSparesSwap
<1> QED BY <1>1, <1>2, <1>3, <1>4, <1>5, <1>6, <1>7, <1>8, <1>9, <1>10, <1>11,
    <1>12
   DEF IInv, Core

\* What is mounted in the library's place covers nothing.
LEMMA AttachFinalKeeps ==
  ASSUME NoDisturbance, IInv, AttachFinal
  PROVE  IInv'
<1>1. TypeOK'
  <2>1. at' \in {"nowhere", "interim", "final"}
    BY DEF AttachFinal
  <2>2. job' \in Jobs
    BY DEF IInv, TypeOK, AttachFinal, To, Steps, Jobs
  <2> QED BY <2>1, <2>2 DEF IInv, TypeOK, AttachFinal, Quiet
<1>2. Settled'
  BY DEF AttachFinal, Quiet, To, At, Settled
<1>3. InStep'
  BY DEF IInv, Core, AttachFinal, Quiet, To, At, InStep
<1>4. Reserving'
  BY DEF IInv, Core, AttachFinal, Quiet, To, At, Reserving
<1>5. Copying'
  BY DEF IInv, Core, AttachFinal, Quiet, To, At, Copying, Outstanding
<1>6. Whole'
  BY DEF IInv, Core, AttachFinal, Quiet, To, At, Whole, Outstanding, Units
<1>7. Mounted'
  BY DEF IInv, Core, AttachFinal, Quiet, To, At, Mounted, Nothing
<1>8. MovedOnce'
  BY DEF IInv, Core, AttachFinal, Quiet, To, At, MovedOnce, Nothing
<1>9. Locking'
  BY DEF IInv, Core, AttachFinal, Quiet, To, At, Locking
<1>10. PlaintextStays'
  BY DEF IInv, Core, InStep, AttachFinal, Quiet, To, At, PlaintextStays
<1>11. NoFootageLost' /\ LockSparesSwap'
  BY DEF IInv, Core, AttachFinal, Quiet, NoFootageLost, LockSparesSwap
<1> QED BY <1>1, <1>2, <1>3, <1>4, <1>5, <1>6, <1>7, <1>8, <1>9, <1>10, <1>11
   DEF IInv, Core

\* The configuration follows.
LEMMA EnableContainerKeeps ==
  ASSUME NoDisturbance, IInv, EnableContainer
  PROVE  IInv'
<1>1. TypeOK'
  <2>1. config' \in [enabled : BOOLEAN, bundle : BOOLEAN]
    <3>1. config' = [config EXCEPT !.enabled = TRUE]
      BY DEF EnableContainer
    <3> QED BY <3>1 DEF IInv, TypeOK
  <2>2. job' \in Jobs
    BY DEF IInv, TypeOK, EnableContainer, To, Steps, Jobs
  <2> QED BY <2>1, <2>2 DEF IInv, TypeOK, EnableContainer, Quiet, disk
<1>2. Settled'
  BY DEF EnableContainer, Quiet, disk, To, At, Settled
<1>3. InStep'
  BY DEF IInv, Core, EnableContainer, Quiet, disk, To, At, InStep
<1>4. Reserving'
  BY DEF IInv, Core, EnableContainer, Quiet, disk, To, At, Reserving
<1>5. Copying'
  BY DEF IInv, Core, EnableContainer, Quiet, disk, To, At, Copying,
         Outstanding
<1>6. Whole'
  BY DEF IInv, Core, EnableContainer, Quiet, disk, To, At, Whole, Outstanding,
         Units
<1>7. Mounted'
  BY DEF IInv, Core, EnableContainer, Quiet, disk, To, At, Mounted, Nothing
<1>8. MovedOnce'
  BY DEF IInv, Core, EnableContainer, Quiet, disk, To, At, MovedOnce, Nothing
<1>9. Locking'
  BY DEF IInv, Core, EnableContainer, Quiet, disk, To, At, Locking
<1>10. NoFootageLost' /\ PlaintextStays' /\ LockSparesSwap'
  BY DEF IInv, Core, EnableContainer, Quiet, disk, NoFootageLost,
         PlaintextStays, LockSparesSwap
<1> QED BY <1>1, <1>2, <1>3, <1>4, <1>5, <1>6, <1>7, <1>8, <1>9,
    <1>10 DEF IInv, Core

\* The cutover is over when the container is mounted and enabled.
LEMMA CutoverDoneKeeps ==
  ASSUME NoDisturbance, IInv, CutoverDone
  PROVE  IInv'
<1>1. TypeOK'
  <2>1. ledger' \in Ledgers
    BY DEF IInv, TypeOK, CutoverDone, Phases, Ledgers
  <2>2. job' \in Jobs
    <3>1. job' = [job EXCEPT !.pc = "sweep", !.held = FALSE]
      BY DEF CutoverDone
    <3> QED BY <3>1 DEF IInv, TypeOK, Jobs, Steps
  <2> QED BY <2>1, <2>2 DEF IInv, TypeOK, CutoverDone, Quiet, disk
<1>2. Settled'
  BY DEF CutoverDone, Quiet, disk, At, Settled
<1>3. InStep'
  BY DEF IInv, Core, CutoverDone, Quiet, disk, At, InStep
<1>4. Reserving'
  BY DEF CutoverDone, Quiet, disk, At, Reserving
<1>5. Copying'
  BY DEF IInv, Core, CutoverDone, Quiet, disk, At, Copying, Outstanding
<1>6. Whole'
  BY DEF IInv, Core, InStep, CutoverDone, Quiet, disk, At, Whole, Outstanding,
         Units
<1>7. Mounted'
  BY DEF IInv, Core, CutoverDone, Quiet, disk, At, Mounted, Nothing
<1>8. MovedOnce'
  BY DEF IInv, Core, InStep, Mounted, CutoverDone, disk, At, MovedOnce
<1>9. Locking'
  BY DEF IInv, Core, CutoverDone, Quiet, disk, At, Locking
<1>10. PlaintextStays'
  BY DEF CutoverDone, Quiet, disk, At, PlaintextStays
<1>11. LockSparesSwap'
  BY DEF CutoverDone, Quiet, disk, At, LockSparesSwap
<1>12. NoFootageLost'
  BY DEF IInv, Core, CutoverDone, Quiet, disk, NoFootageLost
<1> QED BY <1>1, <1>2, <1>3, <1>4, <1>5, <1>6, <1>7, <1>8, <1>9, <1>10, <1>11,
    <1>12
   DEF IInv, Core

\* What is removed at the end is empty, or kept.
LEMMA SweepEndsKeeps ==
  ASSUME NoDisturbance, IInv, SweepEnds
  PROVE  IInv'
<1>1. TypeOK'
  <2>1. aside' \in Asides
    BY UpgradeAssumption DEF IInv, TypeOK, SweepEnds, Nothing, Version, Asides
  <2>2. ledger' \in Ledgers
    <3>1. ledger' = [ledger EXCEPT !.state = "completed", !.phase = "done"]
      BY DEF SweepEnds
    <3> QED BY <3>1 DEF IInv, TypeOK, Ledgers, Runs, Phases
  <2>3. job' \in Jobs
    BY UpgradeAssumption DEF SweepEnds, Over, Idle, Fresh, Version, Steps, Jobs
  <2> QED BY <2>1, <2>2, <2>3 DEF IInv, TypeOK, SweepEnds, Quiet
<1>2. Settled'
  BY DEF SweepEnds, Quiet, Over, Idle, Fresh, Nothing, Tracked, Units, At,
         Settled
<1>3. InStep'
  BY DEF IInv, Core, SweepEnds, Quiet, Over, Idle, Fresh, Nothing, Tracked,
         Units, At, InStep
<1>4. Reserving'
  BY DEF SweepEnds, Quiet, Over, Idle, Fresh, Nothing, Tracked, Units, At,
         Reserving
<1>5. Copying'
  BY DEF IInv, Core, SweepEnds, Quiet, Over, Idle, Fresh, Nothing, Tracked,
         Units, At, Copying, Outstanding
<1>6. Whole'
  BY DEF IInv, Core, SweepEnds, Quiet, Over, Idle, Fresh, Nothing, Tracked,
         At, Whole, Outstanding, Units
<1>7. Mounted'
  BY DEF IInv, Core, InStep, SweepEnds, Quiet, Over, Idle, Fresh, Tracked,
         Units, At, Mounted, Nothing
<1>8. MovedOnce'
  BY DEF IInv, Core, InStep, SweepEnds, Quiet, Over, Idle, Fresh, Tracked,
         Units, At, MovedOnce, Nothing
<1>9. Locking'
  BY DEF IInv, Core, SweepEnds, Quiet, Over, Idle, Fresh, Nothing, Tracked,
         Units, At, Locking
<1>10. NoFootageLost'
  BY DEF IInv, Core, Whole, SweepEnds, Quiet, Over, Idle, Fresh, Nothing,
         Tracked, Units, At, NoFootageLost
<1>11. PlaintextStays'
  BY DEF SweepEnds, Quiet, Over, Idle, Fresh, Nothing, Tracked, Units, At,
         PlaintextStays
<1>12. LockSparesSwap'
  BY DEF SweepEnds, Quiet, Over, Idle, Fresh, Nothing, Tracked, Units, At,
         LockSparesSwap
<1> QED BY <1>1, <1>2, <1>3, <1>4, <1>5, <1>6, <1>7, <1>8, <1>9, <1>10, <1>11,
    <1>12
   DEF IInv, Core

\* What is deleted aside is whole in the container.
LEMMA SweepKeeps ==
  ASSUME NoDisturbance, IInv, NEW r \in Recording, Sweep(r)
  PROVE  IInv'
<1>1. TypeOK'
  <2>1. aside' \in Asides
    BY UpgradeAssumption DEF IInv, TypeOK, Sweep, Version, Asides
  <2>2. ledger' \in Ledgers
    BY DEF IInv, TypeOK, Sweep, Marked, Statuses, Ledgers
  <2> QED BY <2>1, <2>2 DEF IInv, TypeOK, Sweep, Quiet
<1>2. InStep'
  BY DEF IInv, Core, Sweep, Quiet, Marked, Units, At, InStep
<1>3. Reserving'
  BY DEF IInv, Core, Sweep, Quiet, Marked, Units, At, Reserving
<1>4. Copying'
  BY DEF IInv, Core, InStep, Sweep, Quiet, Marked, Units, At, Copying,
         Outstanding
<1>5. Whole'
  BY DEF IInv, Core, InStep, Sweep, Quiet, Marked, At, Whole, Outstanding,
         Units
<1>6. Mounted'
  BY DEF IInv, Core, Sweep, Quiet, Marked, Units, At, Mounted, Nothing
<1>7. MovedOnce'
  BY DEF IInv, Core, Sweep, Quiet, Marked, Units, At, MovedOnce, Nothing
<1>8. Locking'
  BY DEF IInv, Core, Sweep, Quiet, Marked, Units, At, Locking
<1>9. NoFootageLost'
  <2>1. \A q \in Recording : q # r => aside'.has[q] = aside.has[q]
    BY DEF Sweep, IInv, TypeOK, Asides
  <2>2. box[r] = now[r]
    <3>1. ledger.phase # "copying"
      BY DEF Sweep, At, IInv, Core, InStep
    <3> QED BY <3>1 DEF Sweep, IInv, Core, Whole, Units, Outstanding
  <2> QED BY <2>1, <2>2 DEF Sweep, Quiet, IInv, Core, NoFootageLost
<1>10. PlaintextStays'
  BY DEF IInv, Core, Sweep, Quiet, Marked, Units, At, PlaintextStays
<1>11. LockSparesSwap'
  BY DEF IInv, Core, Sweep, Quiet, Marked, Units, At, LockSparesSwap
<1>12. Settled'
  BY DEF IInv, Core, Sweep, Quiet, Settled
<1> QED BY <1>1, <1>2, <1>3, <1>4, <1>5, <1>6, <1>7, <1>8, <1>9, <1>10, <1>11,
    <1>12
   DEF IInv, Core

\* A job is started while no lock is under way.
LEMMA EncryptStartKeeps ==
  ASSUME NoDisturbance, IInv, EncryptStart
  PROVE  IInv'
<1>1. TypeOK'
  <2>1. config' \in [enabled : BOOLEAN, bundle : BOOLEAN]
    <3>1. config' = [config EXCEPT !.bundle = TRUE]
      BY DEF EncryptStart
    <3> QED BY <3>1 DEF IInv, TypeOK
  <2>2. job' \in Jobs
    BY UpgradeAssumption DEF EncryptStart, Driven, Fresh, Version, Steps, Jobs
  <2> QED BY <2>1, <2>2 DEF IInv, TypeOK, EncryptStart, Quiet, disk
<1>2. Settled'
  BY DEF EncryptStart, Quiet, disk, Driven, Fresh, Settled
<1>3. InStep'
  BY DEF IInv, Core, EncryptStart, Quiet, disk, Driven, Fresh, InStep
<1>4. Reserving'
  BY DEF IInv, Core, EncryptStart, Quiet, disk, Driven, Fresh, Reserving
<1>5. Copying'
  BY DEF IInv, Core, EncryptStart, Quiet, disk, Driven, Fresh, Copying,
         Outstanding
<1>6. Whole'
  BY DEF IInv, Core, EncryptStart, Quiet, disk, Driven, Fresh, Whole,
         Outstanding, Units
<1>7. Mounted'
  BY DEF IInv, Core, EncryptStart, Quiet, disk, Driven, Fresh, Mounted,
         Nothing
<1>8. MovedOnce'
  BY DEF IInv, Core, EncryptStart, Quiet, disk, Driven, Fresh, MovedOnce,
         Nothing
<1>9. Locking'
  BY DEF IInv, Core, EncryptStart, Quiet, Locking, NoDisturbance
<1>10. NoFootageLost' /\ PlaintextStays' /\ LockSparesSwap'
  BY DEF IInv, Core, EncryptStart, Quiet, disk, NoFootageLost, PlaintextStays,
         LockSparesSwap
<1> QED BY <1>1, <1>2, <1>3, <1>4, <1>5, <1>6, <1>7, <1>8, <1>9,
    <1>10 DEF IInv, Core

\* A cancel stops the job and leaves the phase.
LEMMA EncryptCancelKeeps ==
  ASSUME NoDisturbance, IInv, EncryptCancel
  PROVE  IInv'
<1>1. TypeOK'
  <2>1. ledger' \in Ledgers
    BY DEF IInv, TypeOK, EncryptCancel, Runs, Ledgers
  <2>2. job' \in Jobs
    <3>1. job' = [job EXCEPT !.stop = TRUE]
      BY DEF EncryptCancel
    <3> QED BY <3>1 DEF IInv, TypeOK, Jobs
  <2> QED BY <2>1, <2>2 DEF IInv, TypeOK, EncryptCancel, Quiet, disk
<1>2. Settled'
  BY DEF IInv, Core, EncryptCancel, Quiet, disk, Settled
<1>3. InStep'
  BY DEF IInv, Core, EncryptCancel, InStep, NoDisturbance
<1>4. Reserving'
  BY DEF IInv, Core, EncryptCancel, Quiet, disk, Reserving
<1>5. Copying'
  BY DEF IInv, Core, EncryptCancel, Quiet, disk, Copying, Outstanding
<1>6. Whole'
  BY DEF IInv, Core, EncryptCancel, Quiet, disk, Whole, Outstanding, Units
<1>7. Mounted'
  BY DEF IInv, Core, EncryptCancel, Quiet, disk, Mounted, Nothing
<1>8. MovedOnce'
  BY DEF IInv, Core, EncryptCancel, Quiet, disk, MovedOnce, Nothing
<1>9. Locking'
  BY DEF IInv, Core, EncryptCancel, Quiet, disk, Locking
<1>10. PlaintextStays'
  BY DEF IInv, Core, EncryptCancel, Quiet, disk, PlaintextStays
<1>11. LockSparesSwap'
  BY DEF IInv, Core, EncryptCancel, Quiet, disk, LockSparesSwap
<1>12. NoFootageLost'
  BY DEF IInv, Core, EncryptCancel, Quiet, disk, NoFootageLost
<1> QED BY <1>1, <1>2, <1>3, <1>4, <1>5, <1>6, <1>7, <1>8, <1>9, <1>10, <1>11,
    <1>12
   DEF IInv, Core

\* A job fails outside the cutover.
LEMMA JobFailsKeeps ==
  ASSUME NoDisturbance, IInv, JobFails
  PROVE  IInv'
<1>1. TypeOK'
  <2>1. job' \in Jobs
    BY UpgradeAssumption DEF JobFails, Over, Idle, Fresh, Version, Steps, Jobs
  <2> QED BY <2>1 DEF IInv, TypeOK, JobFails, Quiet, disk
<1>2. Settled'
  BY DEF JobFails, Quiet, disk, Over, Idle, Fresh, At, Settled
<1>3. InStep'
  BY DEF IInv, Core, JobFails, Quiet, disk, Over, Idle, Fresh, At, InStep
<1>4. Reserving'
  BY DEF IInv, Core, JobFails, Quiet, disk, Over, Idle, Fresh, At, Reserving
<1>5. Copying'
  BY DEF IInv, Core, JobFails, Quiet, disk, Over, Idle, Fresh, At, Copying,
         Outstanding
<1>6. Whole'
  BY DEF IInv, Core, JobFails, Quiet, disk, Over, Idle, Fresh, At, Whole,
         Outstanding, Units
<1>7. Mounted'
  BY DEF IInv, Core, JobFails, Quiet, disk, Over, Idle, Fresh, At, Mounted,
         Nothing
<1>8. MovedOnce'
  BY DEF IInv, Core, JobFails, Quiet, disk, Over, Idle, Fresh, At, MovedOnce,
         Nothing
<1>9. Locking'
  BY DEF IInv, Core, JobFails, Quiet, disk, Over, Idle, Fresh, At, Locking
<1>10. NoFootageLost' /\ PlaintextStays' /\ LockSparesSwap'
  BY DEF IInv, Core, JobFails, Quiet, disk, NoFootageLost, PlaintextStays,
         LockSparesSwap
<1> QED BY <1>1, <1>2, <1>3, <1>4, <1>5, <1>6, <1>7, <1>8, <1>9,
    <1>10 DEF IInv, Core

\* A lock asks the job to stop, ends the recording and refuses the next.
LEMMA LockPausesKeeps ==
  ASSUME NoDisturbance, IInv, LockPauses
  PROVE  IInv'
<1>1. TypeOK'
  <2>1. job' \in Jobs
    BY DEF IInv, TypeOK, LockPauses, disk, Version, Torn, Steps, Runs, Phases,
           Statuses, Asides, Ledgers, Jobs, Daemons
  <2>2. live' \in Recording \cup {None}
    BY DEF IInv, TypeOK, LockPauses, disk, Version, Torn, Steps, Runs, Phases,
           Statuses, Asides, Ledgers, Jobs, Daemons
  <2>3. lock' \in {"no", "pause", "detach", "sealed"}
    BY DEF IInv, TypeOK, LockPauses, disk, Version, Torn, Steps, Runs, Phases,
           Statuses, Asides, Ledgers, Jobs, Daemons
  <2>4. daemon' \in Daemons
    <3>1. daemon' = [daemon EXCEPT !.serves = FALSE]
      BY DEF LockPauses
    <3> QED BY <3>1 DEF IInv, TypeOK, Daemons
  <2> QED BY <2>1, <2>2, <2>3, <2>4 DEF IInv, TypeOK, LockPauses, disk
<1>2. Settled'
  BY DEF IInv, Core, LockPauses, disk, Settled
<1>3. InStep'
  BY DEF IInv, Core, LockPauses, disk, InStep
<1>4. Reserving'
  BY DEF IInv, Core, LockPauses, disk, Reserving
<1>5. Copying'
  BY UpgradeAssumption
     DEF IInv, Core, TypeOK, LockPauses, disk, Copying, Outstanding
<1>6. Whole'
  BY DEF IInv, Core, LockPauses, disk, Whole, Outstanding, Units
<1>7. Mounted'
  BY DEF IInv, Core, LockPauses, disk, Mounted, Nothing
<1>8. MovedOnce'
  BY DEF IInv, Core, LockPauses, disk, MovedOnce, Nothing
<1>9. Locking'
  BY DEF LockPauses, disk, Locking
<1>10. LockSparesSwap'
  BY DEF LockPauses, disk, LockSparesSwap
<1>11. NoFootageLost' /\ PlaintextStays'
  BY DEF IInv, Core, LockPauses, disk, NoFootageLost, PlaintextStays
<1> QED BY <1>1, <1>2, <1>3, <1>4, <1>5, <1>6, <1>7, <1>8, <1>9, <1>10, <1>11
   DEF IInv, Core

\* The second look of a lock finds no cutover begun and none about to.
LEMMA LockChecksKeeps ==
  ASSUME NoDisturbance, IInv, LockChecks
  PROVE  IInv'
<1>1. TypeOK'
  <2>1. lock' \in {"no", "pause", "detach", "sealed"}
    BY DEF LockChecks
  <2>2. daemon' \in Daemons
    <3>1. daemon' = daemon \/ daemon' = [daemon EXCEPT !.serves = TRUE]
      BY DEF LockChecks
    <3> QED BY <3>1 DEF IInv, TypeOK, Daemons
  <2> QED BY <2>1, <2>2 DEF IInv, TypeOK, LockChecks, disk
<1>2. Settled'
  BY UpgradeAssumption
     DEF IInv, Core, TypeOK, Jobs, Ledgers, Asides, Daemons, LockChecks, disk,
         At, Settled
<1>3. Mounted'
  BY DEF IInv, Core, LockChecks, disk, At, Mounted, Nothing
<1>4. Locking'
  BY DEF IInv, Core, Settled, LockChecks, At, Locking, NoDisturbance
<1>5. LockSparesSwap'
  BY DEF LockChecks, disk, At, LockSparesSwap
<1>6. InStep' /\ Reserving' /\ Copying' /\ Whole' /\ MovedOnce'
      /\ NoFootageLost' /\
      PlaintextStays'
  BY DEF IInv, Core, LockChecks, disk, InStep, Reserving, Copying, Whole,
         MovedOnce, NoFootageLost, PlaintextStays, Units
<1> QED BY <1>1, <1>2, <1>3, <1>4, <1>5, <1>6 DEF IInv, Core

\* A lock detaches only what is mounted in the library's place.
LEMMA LockDetachesKeeps ==
  ASSUME NoDisturbance, IInv, LockDetaches
  PROVE  IInv'
<1>1. TypeOK'
  <2>1. at' \in {"nowhere", "interim", "final"}
    BY DEF IInv, TypeOK, LockDetaches, Version, Torn, Steps, Runs, Phases,
           Statuses, Asides, Ledgers, Jobs, Daemons
  <2>2. lock' \in {"no", "pause", "detach", "sealed"}
    BY DEF IInv, TypeOK, LockDetaches, Version, Torn, Steps, Runs, Phases,
           Statuses, Asides, Ledgers, Jobs, Daemons
  <2>3. daemon' \in Daemons
    <3>1. daemon' = daemon \/ daemon' = [daemon EXCEPT !.serves = TRUE]
      BY DEF LockDetaches
    <3> QED BY <3>1 DEF IInv, TypeOK, Daemons
  <2> QED BY <2>1, <2>2, <2>3 DEF IInv, TypeOK, LockDetaches
<1>2. Settled'
  BY UpgradeAssumption
     DEF IInv, Core, TypeOK, Jobs, Ledgers, Asides, Daemons, LockDetaches,
         Settled
<1>3. Mounted'
  BY DEF IInv, Core, InStep, Locking, LockSparesSwap, LockDetaches, Mounted
<1>4. MovedOnce'
  BY DEF IInv, Core, LockDetaches, MovedOnce, Nothing
<1>5. Locking'
  <2>1. CASE at = "final"
    <3>1. lock' = "sealed" /\ daemon' = daemon
      BY <2>1 DEF LockDetaches
    <3>2. ledger.phase \in {"cutover", "done"}
      BY <2>1 DEF LockDetaches, IInv, TypeOK, Ledgers, Phases, Core,
         LockSparesSwap, PlaintextStays
    <3> QED BY <3>1, <3>2 DEF LockDetaches, IInv, Core, Locking
  <2>2. CASE at # "final"
    <3>1. lock' = "no" /\ daemon' = [daemon EXCEPT !.serves = TRUE]
      BY <2>2 DEF LockDetaches
    <3>2. daemon'.serves
      BY <3>1 DEF IInv, TypeOK, Daemons
    <3> QED BY <3>1, <3>2 DEF LockDetaches, IInv, Core, Locking
  <2> QED BY <2>1, <2>2
<1>6. PlaintextStays'
  BY DEF IInv, Core, LockDetaches, PlaintextStays
<1>7. LockSparesSwap'
  BY DEF LockDetaches, LockSparesSwap
<1>8. InStep' /\ Reserving' /\ Copying' /\ Whole' /\ NoFootageLost'
  BY DEF IInv, Core, LockDetaches, InStep, Reserving, Copying, Whole,
         NoFootageLost, Units
<1> QED BY <1>1, <1>2, <1>3, <1>4, <1>5, <1>6, <1>7, <1>8 DEF IInv, Core

\* An unlock mounts in the library's place what a cutover has put there.
LEMMA UnlockKeeps ==
  ASSUME NoDisturbance, IInv, Unlock
  PROVE  IInv'
<1>1. TypeOK'
  <2>1. at' \in {"nowhere", "interim", "final"}
    BY DEF Unlock
  <2>2. job' \in Jobs
    <3>1. job' = Fresh(TRUE, "begin") \/ job' = job
      BY DEF Unlock, Driven
    <3> QED BY <3>1, FreshTyped DEF IInv, TypeOK
  <2>3. lock' \in {"no", "pause", "detach", "sealed"}
    BY DEF Unlock
  <2>4. daemon' \in Daemons
    <3>1. daemon' = [daemon EXCEPT !.serves = TRUE]
      BY DEF Unlock
    <3> QED BY <3>1 DEF IInv, TypeOK, Daemons
  <2> QED BY <2>1, <2>2, <2>3, <2>4 DEF IInv, TypeOK, Unlock
<1>2. Settled'
  BY DEF IInv, Core, Unlock, Driven, Fresh, AutoResumes, IsDone, Settled
<1>3. InStep'
  BY DEF IInv, Core, Unlock, Driven, Fresh, AutoResumes, IsDone, InStep
<1>4. Reserving'
  BY DEF IInv, Core, Unlock, Driven, Fresh, AutoResumes, IsDone, Reserving
<1>5. Copying'
  BY DEF IInv, Core, Unlock, Driven, Fresh, AutoResumes, IsDone, Copying,
         Outstanding
<1>6. Whole'
  BY DEF IInv, Core, Unlock, Driven, Fresh, AutoResumes, IsDone, Whole,
         Outstanding, Units
<1>7. Mounted'
  BY DEF IInv, Core, InStep, Locking, Unlock, Driven, Fresh, Mounted
<1>8. MovedOnce'
  BY DEF IInv, Core, Locking, Unlock, Driven, Fresh, AutoResumes, IsDone,
         MovedOnce, Nothing
<1>9. Locking'
  BY DEF Unlock, Driven, Fresh, AutoResumes, IsDone, Locking
<1>10. PlaintextStays'
  BY DEF IInv, Core, Locking, Unlock, Driven, Fresh, AutoResumes, IsDone,
         PlaintextStays
<1>11. LockSparesSwap'
  BY DEF Unlock, Driven, Fresh, AutoResumes, IsDone, LockSparesSwap
<1>12. NoFootageLost'
  BY DEF IInv, Core, Unlock, NoFootageLost
<1> QED BY <1>1, <1>2, <1>3, <1>4, <1>5, <1>6, <1>7, <1>8, <1>9, <1>10, <1>11,
    <1>12
   DEF IInv, Core

\* A daemon that dies leaves job, recording and lock, and what is on disk.
LEMMA DaemonDiesKeeps ==
  ASSUME NoDisturbance, IInv, DaemonDies
  PROVE  IInv'
<1>1. TypeOK'
  <2>1. at' \in {"nowhere", "interim", "final"}
    BY DEF IInv, TypeOK, DaemonDies
  <2>2. job' \in Jobs
    BY UpgradeAssumption
       DEF DaemonDies, Over, Idle, Fresh, Version, Steps, Jobs
  <2>3. live' \in Recording \cup {None}
    BY DEF DaemonDies
  <2>4. lock' \in {"no", "pause", "detach", "sealed"}
    BY DEF DaemonDies
  <2>5. daemon' \in Daemons
    <3>1. daemon' = [daemon EXCEPT !.up = FALSE, !.serves = FALSE]
      BY DEF DaemonDies
    <3> QED BY <3>1 DEF IInv, TypeOK, Daemons
  <2> QED BY <2>1, <2>2, <2>3, <2>4, <2>5 DEF IInv, TypeOK, DaemonDies
<1>2. Settled'
  BY DEF DaemonDies, Over, Idle, Fresh, Settled
<1>3. InStep'
  BY DEF IInv, Core, DaemonDies, Over, Idle, Fresh, InStep
<1>4. Reserving'
  BY DEF DaemonDies, Over, Idle, Fresh, Reserving
<1>5. Copying'
  BY DEF IInv, Core, DaemonDies, Over, Idle, Fresh, Copying, Outstanding
<1>6. Whole'
  BY DEF IInv, Core, DaemonDies, Over, Idle, Fresh, Whole, Outstanding, Units
<1>7. Mounted'
  BY DEF IInv, Core, DaemonDies, Over, Idle, Fresh, Mounted, NoDisturbance
<1>8. MovedOnce'
  BY DEF IInv, Core, DaemonDies, Over, Idle, Fresh, MovedOnce, Nothing
<1>9. Locking'
  BY DEF IInv, Core, DaemonDies, Over, Idle, Fresh, Locking
<1>10. PlaintextStays'
  BY DEF IInv, Core, DaemonDies, Over, Idle, Fresh, PlaintextStays
<1>11. LockSparesSwap'
  BY DEF DaemonDies, Over, Idle, Fresh, LockSparesSwap
<1>12. NoFootageLost'
  BY DEF IInv, Core, DaemonDies, NoFootageLost
<1> QED BY <1>1, <1>2, <1>3, <1>4, <1>5, <1>6, <1>7, <1>8, <1>9, <1>10, <1>11,
    <1>12
   DEF IInv, Core

\* A daemon starts, mounts and resumes by what disk, configuration and ledger
\* say.
LEMMA DaemonStartsKeeps ==
  ASSUME NoDisturbance, IInv, DaemonStarts
  PROVE  IInv'
<1>1. TypeOK'
  <2>1. at' \in {"nowhere", "interim", "final"}
    BY DEF IInv, TypeOK, DaemonStarts
  <2>2. job' \in Jobs
    <3>1. job' = Fresh(TRUE, "begin") \/ job' = job
      BY DEF DaemonStarts, Driven
    <3> QED BY <3>1, FreshTyped DEF IInv, TypeOK
  <2>3. daemon' \in Daemons
    <3>1. Serves \in BOOLEAN
      BY DEF Serves, IInv, TypeOK
    <3>2. daemon' = [up |-> TRUE, serves |-> Serves,
                     lives |-> daemon.lives + 1]
      BY DEF DaemonStarts
    <3>3. daemon.lives + 1 \in 0..MaxLives
      BY UpgradeAssumption DEF IInv, TypeOK, Daemons, DaemonStarts
    <3> QED BY <3>1, <3>2, <3>3 DEF Daemons
  <2> QED BY <2>1, <2>2, <2>3 DEF IInv, TypeOK, DaemonStarts
<1>2. Settled'
  BY DEF IInv, Core, DaemonStarts, Driven, Fresh, Resumes, AutoResumes,
         IsDone, Serves, Mounts, Nothing, HoldsMountpoint, Settled
<1>3. InStep'
  BY DEF IInv, Core, DaemonStarts, Driven, Fresh, Resumes, AutoResumes,
         IsDone, Serves, Mounts, Nothing, HoldsMountpoint, InStep
<1>4. Reserving'
  BY DEF IInv, Core, DaemonStarts, Driven, Fresh, Resumes, AutoResumes,
         IsDone, Serves, Mounts, Nothing, HoldsMountpoint, Reserving
<1>5. Copying'
  BY DEF IInv, Core, DaemonStarts, Driven, Fresh, Copying
<1>6. Whole'
  BY DEF IInv, Core, DaemonStarts, Driven, Fresh, Whole, Units
<1>7. Mounted'
  BY DEF IInv, Core, TypeOK, Daemons, Settled, InStep, DaemonStarts, Driven,
         Fresh, Serves, Mounts, HoldsMountpoint, Mounted
<1>8. MovedOnce'
  BY DEF IInv, Core, DaemonStarts, Driven, Fresh, Resumes, AutoResumes,
         IsDone, Serves, Mounts, HoldsMountpoint, MovedOnce, Nothing
<1>9. Locking'
  BY DEF IInv, Core, TypeOK, Daemons, Settled, InStep, DaemonStarts, Serves,
         Locking
<1>10. PlaintextStays'
  BY DEF IInv, Core, Mounted, DaemonStarts, Mounts, PlaintextStays
<1>11. NoFootageLost' /\ LockSparesSwap'
  BY DEF IInv, Core, DaemonStarts, NoFootageLost, LockSparesSwap
<1> QED BY <1>1, <1>2, <1>3, <1>4, <1>5, <1>6, <1>7, <1>8, <1>9, <1>10, <1>11
   DEF IInv, Core

-----------------------------------------------------------------------------
(* The invariant.                                                          *)

\* A plaintext library that no migration has touched.
LEMMA Initially ==
  ASSUME Init
  PROVE  IInv
<1>1. TypeOK
  <2>1. now \in [Recording -> Version] /\ Nothing \in [Recording -> Version]
    BY UpgradeAssumption DEF Init, Version, Nothing
  <2>2. Nothing \in [Recording -> 0..Torn]
    BY UpgradeAssumption DEF Nothing, Torn
  <2>3. ledger \in Ledgers /\ job \in Jobs /\ aside \in Asides
    BY <2>1, FreshTyped DEF Init, Ledgers, Runs, Phases, Statuses, Asides
  <2>4. daemon \in Daemons
    BY UpgradeAssumption DEF Init, Daemons
  <2>5. plain = now /\ box = Nothing /\ side = FALSE /\ at = "nowhere"
    BY DEF Init
  <2>6. /\ config \in [enabled : BOOLEAN, bundle : BOOLEAN]
        /\ live = None /\ lock = "no"
    BY DEF Init
  <2> QED BY <2>1, <2>2, <2>3, <2>4, <2>5, <2>6 DEF TypeOK
<1>2. /\ ledger.phase = "copying" /\ ledger.state = "none"
      /\ \A r \in Recording : ledger.unit[r] = "untracked"
  BY DEF Init
<1>3. job.pc = "off" /\ ~job.held /\ ~job.on
  BY DEF Init, Idle, Fresh
<1>4. /\ live = None /\ lock = "no" /\ daemon.up /\ at = "nowhere"
      /\ plain = now /\ now # Nothing
      /\ ~aside.there /\ aside.has = Nothing
  BY DEF Init
<1>5. Settled /\ InStep /\ Reserving /\ Copying /\ Locking
  BY <1>2, <1>3, <1>4
     DEF Settled, InStep, Reserving, Copying, Locking
<1>6. Whole /\ Mounted /\ MovedOnce
  BY <1>2, <1>3, <1>4 DEF Whole, Mounted, MovedOnce, Units
<1>7. NoFootageLost /\ PlaintextStays /\ LockSparesSwap
  BY <1>2, <1>4 DEF NoFootageLost, PlaintextStays, LockSparesSwap
<1> QED BY <1>1, <1>5, <1>6, <1>7 DEF IInv, Core

\* Every step keeps the invariant.
LEMMA StepKeeps ==
  ASSUME NoDisturbance, IInv, [Next]_vars
  PROVE  IInv'
<1>1. CASE Record
  BY <1>1, RecordingStartsKeeps, RecordingChangesKeeps, RecordingGrowsKeeps,
     RecordingEndsKeeps DEF Record
<1>2. CASE Copy
  BY <1>2, PassTakesUpKeeps, PassCopiesKeeps, PassPausesKeeps, PassHaltsKeeps,
     SkipActiveKeeps, ReverifyKeeps, CopyBeginsKeeps, CopyEndsKeeps,
     VerifyKeeps, GateWaitsKeeps, GateOpensKeeps, RedriveKeeps DEF Copy
<1>3. CASE Cutover
  BY <1>3, ReservationRefusedKeeps, ReservedKeeps, CutoverBeginsKeeps,
     CopySidecarsKeeps, DetachInterimKeeps, RepairKeeps, MoveAsideKeeps,
     AttachFinalKeeps, EnableContainerKeeps, CutoverDoneKeeps DEF Cutover
<1>4. CASE Clean
  BY <1>4, SweepEndsKeeps, SweepKeeps DEF Clean
<1>5. CASE Ask
  BY <1>5, EncryptStartKeeps, EncryptCancelKeeps, JobFailsKeeps DEF Ask
<1>6. CASE Lock
  BY <1>6, LockPausesKeeps, LockChecksKeeps, LockDetachesKeeps, UnlockKeeps
     DEF Lock
<1>7. CASE DaemonDies
  BY <1>7, DaemonDiesKeeps
<1>8. CASE DaemonStarts
  BY <1>8, DaemonStartsKeeps
<1>9. CASE UNCHANGED vars
  <2>1. TypeOK'
    BY <1>9 DEF IInv, TypeOK, vars
  <2>2. Core'
    BY <1>9
       DEF IInv, Core, Settled, InStep, Reserving, Copying, Whole, Mounted,
           MovedOnce, Locking, NoFootageLost, PlaintextStays, LockSparesSwap,
           Units, vars
  <2> QED BY <2>1, <2>2 DEF IInv
<1> QED BY <1>1, <1>2, <1>3, <1>4, <1>5, <1>6, <1>7, <1>8, <1>9 DEF Next

\* The invariant holds for any library, writes and daemon lives.
THEOREM Invariant ==
  ASSUME NoDisturbance
  PROVE  Spec => []IInv
<1>1. Init => IInv
  BY Initially
<1>2. IInv /\ [Next]_vars => IInv'
  BY StepKeeps
<1> QED BY <1>1, <1>2, PTL DEF Spec

-----------------------------------------------------------------------------
(* What it says.                                                           *)

\* Every reachable state of an upgrade has its type.
THEOREM Typed ==
  ASSUME NoDisturbance
  PROVE  Spec => []TypeOK
<1>1. IInv => TypeOK
  BY DEF IInv
<1> QED BY <1>1, Invariant, PTL

\* What was written of a recording is never lost to copies, swap and sweep, be
\* they cut off, cancelled, paused or started again.
THEOREM FootageSafe ==
  ASSUME NoDisturbance
  PROVE  Spec => []NoFootageLost
<1>1. IInv => NoFootageLost
  BY DEF IInv, Core
<1> QED BY <1>1, Invariant, PTL

\* The plaintext library is complete and uncovered until the cutover.
THEOREM PlaintextSafe ==
  ASSUME NoDisturbance
  PROVE  Spec => []PlaintextStays
<1>1. IInv => PlaintextStays
  BY DEF IInv, Core
<1> QED BY <1>1, Invariant, PTL

\* A container mounted in the library's place has every listed recording whole
\* and covers nothing: it is there only behind a cutover, when all that was
\* listed is verified and the library was moved.
THEOREM CutoverIsWhole ==
  ASSUME NoDisturbance
  PROVE  Spec => []CutOverWhole
<1>1. ASSUME IInv, at = "final"
      PROVE  (\A r \in Tracked : box[r] = now[r]) /\ plain = Nothing
  <2>1. ledger.phase \in {"cutting", "cutover", "done"}
    BY <1>1 DEF IInv, Core, TypeOK, Ledgers, Phases, PlaintextStays
  <2>2. \A r \in Tracked : ledger.unit[r] \in {"verified", "deleted"}
    BY <1>1, <2>1 DEF IInv, Core, Whole, Outstanding, Tracked, Units
  <2>3. \A r \in Tracked : box[r] = now[r]
    BY <1>1, <2>2 DEF IInv, Core, Whole, Tracked, Units
  <2>4. plain = Nothing
    BY <1>1, <2>1 DEF IInv, Core, MovedOnce
  <2> QED BY <2>3, <2>4
<1>2. IInv => CutOverWhole
  BY <1>1 DEF CutOverWhole
<1> QED BY <1>2, Invariant, PTL

\* The databases are in any container that is mounted in the library's place.
THEOREM SidecarsArePresent ==
  ASSUME NoDisturbance
  PROVE  Spec => []SidecarsCome
<1>1. IInv => SidecarsCome
  BY DEF IInv, Core, TypeOK, Ledgers, Phases, Mounted, PlaintextStays,
         SidecarsCome
<1> QED BY <1>1, Invariant, PTL

\* A store lock never detaches while a cutover swaps.
THEOREM LocksSpareSwaps ==
  ASSUME NoDisturbance
  PROVE  Spec => []LockSparesSwap
<1>1. IInv => LockSparesSwap
  BY DEF IInv, Core
<1> QED BY <1>1, Invariant, PTL
=============================================================================
