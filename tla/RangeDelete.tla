---------------------------- MODULE RangeDelete ----------------------------
(***************************************************************************)
(* The user's irreversible range delete (range_delete.py): the ledger and  *)
(* the purge span change in one transaction, the files go afterwards, all  *)
(* under the terminal lock; a later start finishes what a crash cut off.   *)
(* The preview a delete confirms is re-resolved under the lock, so a set   *)
(* that changed deletes nothing: what is left is the set that is covered.  *)
(***************************************************************************)
EXTENDS CustodyState

\* Mutant: a chunk is placed by its video.
PlaceableByVideo == {c \in seeded : row[c].life \notin {"evicted", "user_deleted"}
                                    /\ "video" \in local[c]}

\* _resolve_recording: a chunk can be placed, hence deleted, by its manifest.
Placeable == {c \in seeded : row[c].life \notin {"evicted", "user_deleted"}
                             /\ "manifest" \in local[c]}

\* _commit_delete_transaction.
CommitDelete ==
  /\ "delete" \in Faults
  /\ EngineAlive => "delete_live" \in Faults
  /\ \E S \in (SUBSET Placeable) \ {{}} :
       /\ Acquire("delete", "idle", S)
       /\ row' = [c \in Chunks |-> IF c \in S THEN MarkUserDeleted(row[c])
                                             ELSE row[c]]
       /\ purged' = purged \cup S
  /\ UNCHANGED <<captured, seeded, expected, local, remote, sentinel, engine,
                 thread, env, lost>>

\* Mutant: a delete whose video is gone is taken for finished.
UserDeletedWithVideo ==
  {c \in seeded : row[c].life = "user_deleted" /\ "video" \in local[c]}

\* reconcile_user_deletes, at a daemon start or before a delete job.
UserDeleted == {c \in seeded : row[c].life = "user_deleted"}

ReconcileDeletes ==
  /\ \E c \in UserDeleted : local[c] # {}
  /\ Acquire("delete", "idle", UserDeleted)
  /\ UNCHANGED <<captured, seeded, row, expected, local, remote, sentinel,
                 engine, thread, env, history>>

\* _unlink_covered_artifacts: chunk by chunk, the video before the manifest.
UnlinkCovered ==
  /\ holder = "delete"
  /\ \/ \E c \in Chunks :
          /\ Oldest(c, run.todo)
          /\ UNCHANGED holder
          /\ \/ /\ "video" \in local[c]
                /\ local' = [local EXCEPT ![c] = @ \ {"video"}]
                /\ UNCHANGED run
             \/ /\ "video" \notin local[c]
                /\ local' = [local EXCEPT ![c] = {}]
                /\ run' = [run EXCEPT !.todo = @ \ {c}]
     \/ run.todo = {} /\ Release /\ UNCHANGED local
  /\ UNCHANGED <<captured, seeded, row, expected, remote, sentinel, engine,
                 thread, env, history>>
=============================================================================
