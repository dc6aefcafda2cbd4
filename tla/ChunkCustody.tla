---------------------------- MODULE ChunkCustody ----------------------------
(***************************************************************************)
(* What the custody pipeline promises about recorded footage, with no word *)
(* of ledgers, locks or retries: footage exists on this Mac, in the        *)
(* bucket, or in both; the copy on this Mac is given up only when the      *)
(* bucket has the other one or the user asked for it to be destroyed.      *)
(***************************************************************************)
CONSTANT Chunks

VARIABLES
  here,    \* chunks with a copy on this Mac
  there,   \* chunks with a copy in the bucket
  purged,  \* chunks the user asked to destroy
  lost     \* chunks whose copy in the bucket has been lost

Init == here = {} /\ there = {} /\ purged = {} /\ lost = {}

\* New footage exists on this Mac only.
Record(c) ==
  /\ c \notin here \cup there \cup purged
  /\ here' = here \cup {c}
  /\ UNCHANGED <<there, purged, lost>>

Ship(c) ==
  /\ c \in here \ there
  /\ there' = there \cup {c}
  /\ UNCHANGED <<here, purged, lost>>

Drop(c) ==
  /\ c \in here /\ c \in there \cup purged
  /\ here' = here \ {c}
  /\ UNCHANGED <<there, purged, lost>>

UserDelete(S) ==
  /\ purged' = purged \cup S
  /\ UNCHANGED <<here, there, lost>>

\* The bucket loses a copy whose original is still here.
Lose(c) ==
  /\ c \in here \cap there
  /\ there' = there \ {c}
  /\ lost' = lost \cup {c}
  /\ UNCHANGED <<here, purged>>

Next ==
  \/ \E c \in Chunks : Record(c) \/ Ship(c) \/ Drop(c) \/ Lose(c)
  \/ \E S \in SUBSET Chunks : UserDelete(S)

Spec == Init /\ [][Next]_<<here, there, purged, lost>>
=============================================================================
