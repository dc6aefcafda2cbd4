----------------------------- MODULE TaskStore -----------------------------
(***************************************************************************)
(* The named task segments of one local recording (pipeline_state.py, the  *)
(* tasks.* verbs of daemon/app.py): the rows, the user's edits, and what a *)
(* deletion of the evidence takes from them.  Each ledger method is one    *)
(* BEGIN IMMEDIATE transaction, so each is one step; none takes the        *)
(* terminal lock, so all interleave with a segmentation pass.              *)
(*                                                                         *)
(* Time is cut into slots.  The name of an agent's row is the set of slots *)
(* whose window titles it was derived from; the name of a row the user     *)
(* keeps is the user's, and not followed.                                  *)
(* Left out: category, bullets, block and thread ids, and the tasks.json   *)
(* copy, which no step here reads back.                                    *)
(***************************************************************************)
EXTENDS Integers, FiniteSets

CONSTANTS MaxSlot,      \* bound: the slots of the recording
          Base,         \* USER_TASK_INDEX_BASE
          MaxKept,      \* bound: the indices from Base upwards
          MaxEdits,     \* bound: the user's edits
          MaxPurges     \* bound: the scrubs and range deletes

ASSUME StoreAssumption ==
  /\ MaxSlot \in Nat \ {0}
  /\ MaxKept \in Nat \ {0}
  /\ MaxEdits \in Nat
  /\ MaxPurges \in Nat
  /\ Base \in Nat
  /\ Base >= MaxSlot

VARIABLES rows,         \* task_index -> row
          closed,       \* slots 1..closed have a manifest
          live,         \* the engine is recording
          gone,         \* slots whose evidence was scrubbed or deleted
          edits         \* the user's edits so far (a bound, not code)

store == <<rows, closed, live, gone, edits>>

\* A row runs from the beginning of its first slot to the end of its last;
\* the store itself does not ask that the one be before the other.
Slots == 1 .. MaxSlot
Bounds == Slots \X Slots
Spans == {s \in Bounds : s[1] <= s[2]}
Covers(s) == s[1] .. s[2]

\* a.start < b.end /\ b.start < a.end, and the same for a set of slots.
Meets(a, b) == a[1] <= b[2] /\ b[1] <= a[2]
Overlaps(a, S) == \E s \in Spans : Covers(s) \subseteq S /\ Meets(a, s)

Rows == [span : Bounds, name : SUBSET Slots, source : {"agent", "user"},
         edited : BOOLEAN]
UserRow(s) == [span |-> s, name |-> {}, source |-> "user", edited |-> FALSE]
UserIndices == Base .. Base + MaxKept - 1

\* task_row_is_protected: what the user wrote or touched.
Protected(r) == r.source = "user" \/ r.edited
Kept == {i \in DOMAIN rows : Protected(rows[i])}

\* _next_user_task_index, once the rows of out have been deleted: one past
\* the highest row, or the base when the high range is empty.
Allocates(i, out) ==
  LET left == DOMAIN rows \ out
  IN  /\ i \in UserIndices
      /\ \A j \in left : j < i
      /\ i = Base \/ i - 1 \in left

\* The rows without those of out, and with those of f.
Rewritten(out, f) ==
  [i \in (DOMAIN rows \ out) \cup DOMAIN f |->
     IF i \in DOMAIN f THEN f[i] ELSE rows[i]]

\* The user may have written a row before the first pass.
StoreInit ==
  /\ \E I \in SUBSET {Base}, s \in Spans : rows = [i \in I |-> UserRow(s)]
  /\ closed = 0
  /\ live = TRUE
  /\ gone = {}
  /\ edits = 0

-----------------------------------------------------------------------------
\* The verbs.

\* insert_task_segment, of a span that the verb has validated.
CreateTask ==
  \E s \in Spans, i \in UserIndices :
     /\ Allocates(i, {})
     /\ rows' = Rewritten({}, [j \in {i} |-> UserRow(s)])

\* update_task_segment as tasks.update calls it: always marked edited, an
\* agent row re-homed above the range the agent re-inserts over.
Edited(r, s) == [r EXCEPT !.span = s, !.name = {}, !.edited = TRUE]

\* Two bounds are validated against each other, one bound against nothing.
NewBounds(s) ==
  Spans \cup {b \in Bounds : b[1] = s[1] \/ b[2] = s[2]}

\* Mutant: an edited agent row stays where the agent writes.
UpdateInPlace ==
  \E i \in DOMAIN rows : \E s \in NewBounds(rows[i].span) :
     rows' = [rows EXCEPT ![i] = Edited(@, s)]

UpdateTask ==
  \E i \in DOMAIN rows : \E s \in NewBounds(rows[i].span) :
     \/ /\ Protected(rows[i]) \/ i >= Base
        /\ rows' = [rows EXCEPT ![i] = Edited(@, s)]
     \/ /\ ~Protected(rows[i]) /\ i < Base
        /\ \E j \in UserIndices :
             /\ Allocates(j, {})
             /\ rows' = Rewritten({i}, [k \in {j} |-> Edited(rows[i], s)])

\* delete_task_segment.
DeleteTask == \E i \in DOMAIN rows : rows' = Rewritten({i}, [j \in {} |-> 0])

\* merge_task_segments: one row of the user's over the union span.
MergeTasks ==
  \E I \in SUBSET DOMAIN rows, s \in Bounds, i \in UserIndices :
     /\ \E a, b \in I : a # b
     /\ \A a \in I : s[1] <= rows[a].span[1] /\ rows[a].span[2] <= s[2]
     /\ \E a \in I : rows[a].span[1] = s[1]
     /\ \E a \in I : rows[a].span[2] = s[2]
     /\ Allocates(i, I)
     /\ rows' = Rewritten(I, [j \in {i} |-> UserRow(s)])

\* start_ts < split_ts < end_ts.
Cuts(s) == s[1] .. s[2] - 1

\* split_task_segment.
SplitTask ==
  \E i \in DOMAIN rows, j \in UserIndices :
    \E cut \in Cuts(rows[i].span) :
       /\ Allocates(j, {i})
       /\ j + 1 \in UserIndices
       /\ rows' = Rewritten({i}, [k \in {j, j + 1} |->
            IF k = j THEN UserRow(<<rows[i].span[1], cut>>)
                     ELSE UserRow(<<cut + 1, rows[i].span[2]>>)])

-----------------------------------------------------------------------------
\* _purge_task_segments: a policy purge spares what the user wrote or
\* touched, a user's range delete (all_sources) spares nothing.
Purge(S, allSources) ==
  rows' = Rewritten({i \in DOMAIN rows :
                       /\ Overlaps(rows[i].span, S)
                       /\ allSources \/ ~Protected(rows[i])},
                    [j \in {} |-> 0])

StoreTypeOK ==
  /\ DOMAIN rows \subseteq (0 .. Base - 1) \cup UserIndices
  /\ \A i \in DOMAIN rows : rows[i] \in Rows
  /\ closed \in 0 .. MaxSlot
  /\ live \in BOOLEAN
  /\ gone \subseteq Slots
  /\ edits \in 0 .. MaxEdits

\* The agent owns the low indices and the user the high ones, so a fresh set
\* of agent rows cannot collide with a row that has to survive it.
RangesDisjoint ==
  \A i \in DOMAIN rows : Protected(rows[i]) <=> i >= Base
=============================================================================
