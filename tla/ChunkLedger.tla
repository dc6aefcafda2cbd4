---------------------------- MODULE ChunkLedger ----------------------------
(***************************************************************************)
(* The per-chunk ledger row of a recording (pipeline_state.py) and the     *)
(* transitions PipelineLedger applies to it.  One transition is one        *)
(* BEGIN IMMEDIATE transaction, so each is an operator from row to row.    *)
(* A transition writes the columns it names and leaves the others alone;   *)
(* like _transition in the code it does not look at the old state.         *)
(*                                                                         *)
(* The scrub column is left out: nothing reads it while the masked-upload  *)
(* flag is off.  So is the stages column: a chunk is staged at most once.  *)
(***************************************************************************)
EXTENDS Integers, FiniteSets

Lifecycle == {"pending", "staged", "uploaded", "local_done", "failed",
              "evicted", "user_deleted"}
UploadState == {"pending", "uploaded", "failed"}
EvictState == {"none", "evict_pending", "evicted"}

Row == [life : Lifecycle, upload : UploadState, evict : EvictState]

\* seed_chunk's row.
PendingRow == [life |-> "pending", upload |-> "pending", evict |-> "none"]

MarkStaged(r)      == [r EXCEPT !.life = "staged"]
MarkUploaded(r)    == [r EXCEPT !.life = "uploaded", !.upload = "uploaded"]
MarkLocalDone(r)   == [r EXCEPT !.life = "local_done"]
MarkFailed(r)      == [r EXCEPT !.life = "failed", !.upload = "failed"]
MarkUserDeleted(r) == [r EXCEPT !.life = "user_deleted"]
BeginEviction(r)   == [r EXCEPT !.evict = "evict_pending"]
CommitEviction(r)  == [r EXCEPT !.life = "evicted", !.evict = "evicted"]

\* Mutant: every expected row exists and none has failed.
FinalizeGateNoneFailed(seeded, row, expected) ==
  /\ expected # 0
  /\ Cardinality(seeded) >= expected
  /\ \A c \in seeded : row[c].life # "failed"

\* finalize_gate_satisfied; expected = 0 stands for "not frozen yet".
FinalizeGate(seeded, row, expected) ==
  /\ expected # 0
  /\ Cardinality(seeded) >= expected
  /\ \A c \in seeded :
       \/ row[c].life = "user_deleted"
       \/ row[c].life \in {"uploaded", "evicted"} /\ row[c].upload = "uploaded"
=============================================================================
