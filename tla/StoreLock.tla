----------------------------- MODULE StoreLock -----------------------------
(***************************************************************************)
(* The handlers of storage.lock and storage.unlock (daemon/app.py) and the *)
(* store they seal and mount (daemon/store_lifecycle.py).  A lock refuses  *)
(* new recordings, stops the running one, quiesces the resumes, detaches   *)
(* the volume and writes the sealed sentinel last; an unlock mounts first. *)
(***************************************************************************)
EXTENDS DaemonState

\* begin_lock.  A lock of a store that is locked or sealed does nothing.
LockBegins ==
  /\ Running
  /\ store.app = "MOUNTED" /\ ~vol.sealed /\ store.lock = "idle"
  /\ store' = [store EXCEPT !.sup = "LOCKED", !.app = "LOCKED",
                            !.lock = "stop"]
  /\ UNCHANGED <<world, reports, pid, sup, op, amb, vol, recon, resume, host>>

\* quiesce_for_lock returns when no resume is left or its grace has run out.
LockQuiesced ==
  /\ Running /\ store.lock = "quiesce"
  /\ store' = [store EXCEPT !.lock = "detach"]
  /\ UNCHANGED <<world, reports, pid, sup, op, amb, vol, recon, resume, host>>

LockDetaches ==
  /\ Running /\ store.lock = "detach"
  /\ vol' = [vol EXCEPT !.mounted = FALSE]
  /\ store' = [store EXCEPT !.lock = "seal"]
  /\ UNCHANGED <<world, reports, pid, sup, op, amb, recon, resume, host>>

\* abort_lock: the volume is still in use.
LockDetachFails ==
  /\ Running /\ store.lock = "detach" /\ "detach" \in Faults
  /\ store' = Unwound(store)
  /\ UNCHANGED <<world, reports, pid, sup, op, amb, vol, recon, resume, host>>

\* The sentinel, then complete_lock, which leaves the supervisor's store state
\* as it is.
LockSeals ==
  /\ Running /\ store.lock = "seal"
  /\ vol' = [vol EXCEPT !.sealed = TRUE]
  /\ store' = [store EXCEPT !.app = "LOCKED", !.lock = "idle"]
  /\ UNCHANGED <<world, reports, pid, sup, op, amb, recon, resume, host>>

\* Anyone may unlock what is sealed, or what a lock is still working on; with
\* the fault "overlap" requests overlap.
UnlockBegins ==
  /\ Running
  /\ vol.sealed \/ store.app = "LOCKED"
  /\ store.mounting + store.adopting < 2
  /\ \/ "overlap" \in Faults
     \/ store.lock = "idle" /\ store.mounting + store.adopting = 0
  /\ store' = [store EXCEPT !.mounting = @ + 1]
  /\ UNCHANGED <<world, reports, pid, sup, op, amb, vol, recon, resume, host>>

\* mount_now, in a thread: it reuses a volume that is still there.
UnlockMounts ==
  /\ Running /\ store.mounting > 0
  /\ vol' = [vol EXCEPT !.mounted = TRUE]
  /\ store' = [store EXCEPT !.mounting = @ - 1, !.adopting = @ + 1]
  /\ UNCHANGED <<world, reports, pid, sup, op, amb, recon, resume, host>>

UnlockFails ==
  /\ Running /\ store.mounting > 0
  /\ store' = [store EXCEPT !.mounting = @ - 1]
  /\ UNCHANGED <<world, reports, pid, sup, op, amb, vol, recon, resume, host>>

\* The handler after the mount: sentinel, store state, reconcile.
UnlockAdopts ==
  /\ Running /\ store.adopting > 0
  /\ vol' = [vol EXCEPT !.sealed = FALSE]
  /\ store' = [store EXCEPT !.adopting = @ - 1, !.sup = "MOUNTED",
                            !.app = "MOUNTED"]
  /\ recon' = IF Recovering THEN recon ELSE [recon EXCEPT !.pc = "queued"]
  /\ UNCHANGED <<world, reports, pid, sup, op, amb, resume, host>>

-----------------------------------------------------------------------------
LockOrUnlock ==
  LockBegins \/ LockQuiesced \/ LockDetaches \/ LockDetachFails \/ LockSeals
    \/ UnlockBegins \/ UnlockMounts \/ UnlockFails \/ UnlockAdopts
=============================================================================
