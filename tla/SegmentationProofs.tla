------------------------- MODULE SegmentationProofs -------------------------
(***************************************************************************)
(* Proofs about Segmentation, for recordings of any length and any number  *)
(* of edits and scrubs: the agent's rows and the user's never share a      *)
(* range, what the user wrote stays, no cached name outlives its evidence, *)
(* and the names of a full pass carry nothing that was gone when the       *)
(* staleness guard let it through.                                         *)
(*                                                                         *)
(* First what a step does to the rows, whoever takes it; then the types;   *)
(* then what a pass in flight knows of the evidence it read.               *)
(***************************************************************************)
EXTENDS Segmentation, FiniteSetTheorems, TLAPS

-----------------------------------------------------------------------------
(* Rows.                                                                   *)

RowsTyped ==
  /\ DOMAIN rows \subseteq (0 .. Base - 1) \cup UserIndices
  /\ \A i \in DOMAIN rows : rows[i] \in Rows

\* No step but a pass's replace writes a row of the agent's.
NoNewAgentRow ==
  \A i \in DOMAIN rows' \ Kept' : i \in DOMAIN rows \ Kept /\ rows'[i] = rows[i]

RowsKept == RowsTyped' /\ RangesDisjoint' /\ NoNewAgentRow

\* Rows are taken out, and rows the user owns put in above the agent's.
LEMMA Rewriting ==
  ASSUME RowsTyped, RangesDisjoint, NEW out, NEW f,
         DOMAIN f \subseteq UserIndices,
         \A i \in DOMAIN f : f[i] \in Rows /\ Protected(f[i]),
         rows' = Rewritten(out, f)
  PROVE  RowsKept
<1>1. UserIndices \subseteq Int /\ \A i \in UserIndices : i >= Base
  BY StoreAssumption DEF UserIndices
<1>2. DOMAIN rows' = (DOMAIN rows \ out) \cup DOMAIN f
  BY DEF Rewritten
<1>3. \A i \in DOMAIN rows' :
        rows'[i] = IF i \in DOMAIN f THEN f[i] ELSE rows[i]
  BY <1>2 DEF Rewritten
<1>4. RowsTyped'
  BY <1>2, <1>3 DEF RowsTyped, UserIndices
<1>5. RangesDisjoint'
  BY <1>1, <1>2, <1>3 DEF RangesDisjoint
<1>6. NoNewAgentRow
  BY <1>2, <1>3 DEF NoNewAgentRow, Kept
<1> QED BY <1>4, <1>5, <1>6 DEF RowsKept

\* Rows that stay as they are.
LEMMA RowsStill ==
  ASSUME RowsTyped, RangesDisjoint, rows' = rows
  PROVE  RowsKept
  BY DEF RowsKept, RowsTyped, RangesDisjoint, NoNewAgentRow, Kept, UserIndices

\* A row the user edits is the user's, and a row.
LEMMA EditedRow ==
  ASSUME NEW r \in Rows, NEW s \in NewBounds(r.span)
  PROVE  Edited(r, s) \in Rows /\ Protected(Edited(r, s))
  BY DEF Rows, Edited, Protected, NewBounds, Spans

LEMMA UserRows ==
  ASSUME NEW s \in Bounds
  PROVE  UserRow(s) \in Rows /\ Protected(UserRow(s))
  BY DEF Rows, UserRow, Protected

\* The verbs.
LEMMA VerbsKeepRows ==
  ASSUME RowsTyped, RangesDisjoint, User
  PROVE  RowsKept
<1>1. CASE CreateTask
  <2>1. PICK s \in Spans, i \in UserIndices :
          rows' = Rewritten({}, [j \in {i} |-> UserRow(s)])
    BY <1>1 DEF CreateTask
  <2>2. UserRow(s) \in Rows /\ Protected(UserRow(s))
    BY UserRows DEF Spans
  <2> QED BY <2>1, <2>2, Rewriting
<1>2. CASE UpdateTask
  <2>0. PICK i \in DOMAIN rows : \E s \in NewBounds(rows[i].span) :
          \/ /\ Protected(rows[i]) \/ i >= Base
             /\ rows' = [rows EXCEPT ![i] = Edited(@, s)]
          \/ /\ ~Protected(rows[i]) /\ i < Base
             /\ \E j \in UserIndices :
                  /\ Allocates(j, {})
                  /\ rows' = Rewritten({i}, [k \in {j} |-> Edited(rows[i], s)])
    BY <1>2 DEF UpdateTask
  <2>1. PICK s \in NewBounds(rows[i].span) :
          \/ /\ Protected(rows[i]) \/ i >= Base
             /\ rows' = [rows EXCEPT ![i] = Edited(@, s)]
          \/ /\ ~Protected(rows[i]) /\ i < Base
             /\ \E j \in UserIndices :
                  /\ Allocates(j, {})
                  /\ rows' = Rewritten({i}, [k \in {j} |-> Edited(rows[i], s)])
    BY <2>0
  <2>2. Edited(rows[i], s) \in Rows /\ Protected(Edited(rows[i], s))
    BY EditedRow DEF RowsTyped
  <2>3. CASE /\ Protected(rows[i]) \/ i >= Base
             /\ rows' = [rows EXCEPT ![i] = Edited(@, s)]
    <3>1. i \in Int /\ i >= Base
      BY <2>3, StoreAssumption DEF RangesDisjoint, RowsTyped, UserIndices
    <3>2. DOMAIN rows' = DOMAIN rows
      BY <2>3
    <3>3. \A j \in DOMAIN rows :
            rows'[j] = IF j = i THEN Edited(rows[i], s) ELSE rows[j]
      BY <2>3
    <3> QED BY <2>2, <3>1, <3>2, <3>3
         DEF RowsKept, RowsTyped, RangesDisjoint, NoNewAgentRow, Kept,
             UserIndices
  <2>4. CASE \E j \in UserIndices :
               rows' = Rewritten({i}, [k \in {j} |-> Edited(rows[i], s)])
    BY <2>2, <2>4, Rewriting
  <2> QED BY <2>1, <2>3, <2>4
<1>3. CASE DeleteTask
  <2>1. PICK i \in DOMAIN rows : rows' = Rewritten({i}, [j \in {} |-> 0])
    BY <1>3 DEF DeleteTask
  <2> QED BY <2>1, Rewriting
<1>4. CASE MergeTasks
  <2>1. PICK I \in SUBSET DOMAIN rows, s \in Bounds, i \in UserIndices :
          rows' = Rewritten(I, [j \in {i} |-> UserRow(s)])
    BY <1>4 DEF MergeTasks
  <2>2. UserRow(s) \in Rows /\ Protected(UserRow(s))
    BY UserRows
  <2> QED BY <2>1, <2>2, Rewriting
<1>5. CASE SplitTask
  <2>1. PICK i \in DOMAIN rows, j \in UserIndices :
          \E cut \in Cuts(rows[i].span) :
            /\ j + 1 \in UserIndices
            /\ rows' = Rewritten({i}, [k \in {j, j + 1} |->
                 IF k = j THEN UserRow(<<rows[i].span[1], cut>>)
                          ELSE UserRow(<<cut + 1, rows[i].span[2]>>)])
    BY <1>5 DEF SplitTask
  <2>2. PICK cut \in Cuts(rows[i].span) :
            /\ j + 1 \in UserIndices
            /\ rows' = Rewritten({i}, [k \in {j, j + 1} |->
                 IF k = j THEN UserRow(<<rows[i].span[1], cut>>)
                          ELSE UserRow(<<cut + 1, rows[i].span[2]>>)])
    BY <2>1
  <2>3. rows[i].span \in Bounds
    BY DEF RowsTyped, Rows
  <2>4. /\ <<rows[i].span[1], cut>> \in Bounds
        /\ <<cut + 1, rows[i].span[2]>> \in Bounds
    BY <2>3, StoreAssumption DEF Cuts, Bounds, Slots
  <2>5. /\ UserRow(<<rows[i].span[1], cut>>) \in Rows
        /\ Protected(UserRow(<<rows[i].span[1], cut>>))
        /\ UserRow(<<cut + 1, rows[i].span[2]>>) \in Rows
        /\ Protected(UserRow(<<cut + 1, rows[i].span[2]>>))
    BY <2>4, UserRows
  <2> DEFINE g == [k \in {j, j + 1} |->
                 IF k = j THEN UserRow(<<rows[i].span[1], cut>>)
                          ELSE UserRow(<<cut + 1, rows[i].span[2]>>)]
  <2>6. /\ DOMAIN g \subseteq UserIndices
        /\ \A k \in DOMAIN g : g[k] \in Rows /\ Protected(g[k])
    BY <2>2, <2>5
  <2>7. rows' = Rewritten({i}, g)
    BY <2>2
  <2> HIDE DEF g
  <2> QED BY <2>6, <2>7, Rewriting
<1> QED BY <1>1, <1>2, <1>3, <1>4, <1>5 DEF User

LEMMA PurgeKeepsRows ==
  ASSUME RowsTyped, RangesDisjoint, NEW S, NEW allSources,
         Purge(S, allSources)
  PROVE  RowsKept
<1> DEFINE out == {i \in DOMAIN rows :
                     /\ Overlaps(rows[i].span, S)
                     /\ allSources \/ ~Protected(rows[i])}
<1>1. rows' = Rewritten(out, [j \in {} |-> 0])
  BY DEF Purge
<1> HIDE DEF out
<1> QED BY <1>1, Rewriting

\* The pass's replace: the rows the user keeps, and blocks below the base.
LEMMA ReplaceKeepsRows ==
  ASSUME RowsTyped, RangesDisjoint, pass.blocks \subseteq Named, Replace
  PROVE  /\ RowsTyped' /\ RangesDisjoint'
         /\ \A i \in Kept : i \in DOMAIN rows' /\ rows'[i] = rows[i]
         /\ \/ rows' = rows /\ vetted' = vetted
            \/ /\ vetted' = IF pass.branch = "produced" THEN pass.vetted
                                                        ELSE {}
               /\ \A i \in DOMAIN rows' \ Kept' :
                    \E b \in pass.blocks : rows'[i] = AgentRow(b)
<1>1. PICK n \in 0 .. Base : \E f \in [0 .. n - 1 -> pass.blocks] :
         IF Survivors \cap (0 .. n - 1) # {}
         THEN rows' = rows /\ vetted' = vetted
         ELSE /\ rows' = [i \in Survivors \cup (0 .. n - 1) |->
                           IF i \in 0 .. n - 1 THEN AgentRow(f[i]) ELSE rows[i]]
              /\ vetted' = IF pass.branch = "produced" THEN pass.vetted
                                                       ELSE {}
  BY DEF Replace
<1>2. PICK f \in [0 .. n - 1 -> pass.blocks] :
         IF Survivors \cap (0 .. n - 1) # {}
         THEN rows' = rows /\ vetted' = vetted
         ELSE /\ rows' = [i \in Survivors \cup (0 .. n - 1) |->
                           IF i \in 0 .. n - 1 THEN AgentRow(f[i]) ELSE rows[i]]
              /\ vetted' = IF pass.branch = "produced" THEN pass.vetted
                                                       ELSE {}
  BY <1>1
<1>3. CASE rows' = rows /\ vetted' = vetted
  BY <1>3, RowsStill DEF RowsKept, Kept
<1>4. CASE /\ rows' = [i \in Kept \cup (0 .. n - 1) |->
                         IF i \in 0 .. n - 1 THEN AgentRow(f[i]) ELSE rows[i]]
           /\ vetted' = IF pass.branch = "produced" THEN pass.vetted ELSE {}
  <2>1. \A i \in 0 .. n - 1 :
          f[i] \in pass.blocks /\ AgentRow(f[i]) \in Rows
          /\ ~Protected(AgentRow(f[i]))
    BY DEF Named, Rows, AgentRow, Protected, Spans
  <2>2. \A i \in Kept : i \in DOMAIN rows /\ i \notin 0 .. n - 1 /\ i >= Base
    BY StoreAssumption DEF Kept, RangesDisjoint
  <2>3. DOMAIN rows' = Kept \cup (0 .. n - 1)
    BY <1>4
  <2>4. \A i \in Kept : rows'[i] = rows[i] /\ Protected(rows[i])
    BY <1>4, <2>2 DEF Kept
  <2>5. \A i \in 0 .. n - 1 : rows'[i] = AgentRow(f[i])
    BY <1>4
  <2>6. 0 .. n - 1 \subseteq 0 .. Base - 1 /\ \A i \in 0 .. n - 1 : i < Base
    BY StoreAssumption
  <2>7. RowsTyped'
    BY <2>1, <2>2, <2>3, <2>4, <2>5, <2>6 DEF RowsTyped, UserIndices
  <2>8. RangesDisjoint'
    <3>1. \A i \in 0 .. n - 1 : ~(i >= Base)
      BY StoreAssumption
    <3> QED BY <2>1, <2>2, <2>3, <2>4, <2>5, <3>1 DEF RangesDisjoint
  <2>9. \A i \in DOMAIN rows' \ Kept' : i \in 0 .. n - 1
    BY <2>3, <2>4 DEF Kept
  <2> QED BY <1>4, <2>1, <2>3, <2>4, <2>5, <2>7, <2>8, <2>9
<1> QED BY <1>2, <1>3, <1>4 DEF Survivors

\* Every step: by the verbs, the purges, the replace, or not at all.
LEMMA RowsStep ==
  ASSUME RowsTyped, RangesDisjoint, [Next]_vars, ~Replace
  PROVE  RowsKept
<1>1. CASE User
  BY <1>1, VerbsKeepRows
<1>2. CASE ScrubTarget
  BY <1>2, PurgeKeepsRows DEF ScrubTarget
<1>3. CASE DeleteRange
  BY <1>3, PurgeKeepsRows DEF DeleteRange
<1>4. CASE rows' = rows
  BY <1>4, RowsStill
<1>5. \/ User \/ ScrubTarget \/ DeleteRange \/ rows' = rows
  BY DEF Next, vars, store, CloseChunk, StopRecording, StartPass,
         DigestWindow, ReadCommitted, NameWindow, SkipWindow, NoneNamed,
         Discard, HandOn, Consolidate, CarveOut, Record, KillPass
<1> QED BY <1>1, <1>2, <1>3, <1>4, <1>5

-----------------------------------------------------------------------------
(* Types.                                                                  *)

\* The rows the user keeps are no more than the indices there are.
LEMMA KeptBounded ==
  ASSUME RowsTyped, RangesDisjoint
  PROVE  Cardinality(Kept) \in 0 .. MaxKept
<1>1. Kept \subseteq UserIndices
  BY StoreAssumption DEF Kept, RowsTyped, RangesDisjoint, UserIndices
<1>2. /\ IsFiniteSet(UserIndices)
      /\ Cardinality(UserIndices) = MaxKept
  BY FS_Interval, StoreAssumption DEF UserIndices
<1>3. /\ IsFiniteSet(Kept)
      /\ Cardinality(Kept) <= MaxKept
  BY <1>1, <1>2, FS_Subset
<1>4. Cardinality(Kept) \in Nat
  BY <1>3, FS_CardinalityType
<1> QED BY <1>3, <1>4, StoreAssumption

\* NoPass and a pass that has just begun are passes.
LEMMA FreshPasses ==
  ASSUME TypeOK, RangesDisjoint
  PROVE  /\ NoPass \in Passes /\ NoKey \in Keys /\ Fingerprint \in Keys
         /\ \A retry \in BOOLEAN, key \in Keys : Opened(retry, key) \in Passes
<1>1. NoKey \in Keys
  BY StoreAssumption DEF NoKey, Keys
<1>2. NoPass \in Passes
  BY <1>1, StoreAssumption DEF NoPass, Passes
<1>3. Fingerprint \in Keys
  BY <1>1, KeptBounded DEF Fingerprint, Keys, TypeOK, StoreTypeOK, RowsTyped
<1>4. \A retry \in BOOLEAN, key \in Keys : Opened(retry, key) \in Passes
  BY <1>2 DEF Opened, Passes, TypeOK, StoreTypeOK
<1> QED BY <1>1, <1>2, <1>3, <1>4

\* How a pass may end.
LEMMA EndTyped ==
  ASSUME TypeOK, RangesDisjoint, NEW branch, EndWith(branch)
  PROVE  pass' \in Passes /\ outcome' \in Outcomes /\ seen' \in Keys
<1>1. Pick(branch) \in Outcomes
  BY DEF Pick, Outcomes, TypeOK
<1>2. pass.key \in Keys
  BY DEF Passes, TypeOK
<1> QED BY <1>1, <1>2, FreshPasses DEF EndWith

\* What it hands to the blocks.
LEMMA HandTyped ==
  ASSUME TypeOK, RangesDisjoint, NEW tasks \in SUBSET Tasks,
         NEW removed \in SUBSET Slots, HandTo(tasks, removed)
  PROVE  pass' \in Passes
<1>1. Branch(tasks) \in {"none", "mechanical", "partial", "produced"}
  BY DEF Branch
<1>2. pass.key \in Keys /\ pass.live \in BOOLEAN
  BY DEF Passes, TypeOK
<1> QED BY <1>1, <1>2, FreshPasses DEF HandTo, Passes

\* A window that is named, or is not, is a task.
LEMMA TasksTyped ==
  ASSUME NEW w \in Named, NEW label \in SUBSET Slots,
         NEW by \in {"model", "carried", "mechanical"}
  PROVE  Task(w, label, by) \in Tasks
  BY DEF Task, Tasks, Named

\* Blocks are named with slots.
LEMMA BlockNamesTyped ==
  ASSUME pass \in Passes, NEW S, NEW called
  PROVE  BlockName(S, called) \in SUBSET Slots
<1>1. \A t \in pass.tasks : t.name \subseteq Slots
  BY DEF Passes, Tasks
<1> QED BY <1>1 DEF BlockName

LEMMA BlocksTyped ==
  ASSUME pass \in Passes, Consolidate \/ CarveOut
  PROVE  pass' \in Passes
<1>1. CASE CarveOut
  <2>1. \A t \in pass.tasks : t.span \in Spans /\ t.name \in SUBSET Slots
    BY DEF Passes, Tasks
  <2>2. Clear \subseteq Named
    BY <2>1 DEF Clear, Named
  <2> QED BY <1>1, <2>2 DEF CarveOut, Passes
<1>2. CASE Consolidate
  <2>1. PICK heads \in SUBSET Whole : \E called \in SUBSET heads :
          pass' = [pass EXCEPT !.phase = "replace", !.tasks = {},
                               !.blocks = Blocks(heads, called)]
    BY <1>2 DEF Consolidate
  <2>2. PICK called \in SUBSET heads :
          pass' = [pass EXCEPT !.phase = "replace", !.tasks = {},
                               !.blocks = Blocks(heads, called)]
    BY <2>1
  <2>3. Blocks(heads, called) \subseteq Named
    <3>1. \A x : Trimmed(x) \subseteq Spans
      BY DEF Trimmed
    <3>2. \A S, c : BlockName(S, c) \in SUBSET Slots
      BY BlockNamesTyped
    <3>3. ASSUME NEW x \in Blocks(heads, called)
          PROVE  x \in Named
      <4>1. PICK b \in heads :
              x \in {[span |-> s,
                      name |-> BlockName(Block(b, heads), b \in called)] :
                       s \in Trimmed(<<b, Max(Block(b, heads))>>)}
        BY <3>3 DEF Blocks
      <4>2. PICK s \in Trimmed(<<b, Max(Block(b, heads))>>) :
              x = [span |-> s,
                   name |-> BlockName(Block(b, heads), b \in called)]
        BY <4>1
      <4> QED BY <3>1, <3>2, <4>2 DEF Named
    <3> QED BY <3>3
  <2> QED BY <2>2, <2>3 DEF Passes
<1> QED BY <1>1, <1>2

\* A pass stays a pass, and writes what it should to the cache.
LEMMA PassStep ==
  ASSUME TypeOK, RangesDisjoint, [Next]_vars
  PROVE  /\ pass' \in Passes
         /\ cache' \subseteq Named
         /\ outcome' \in Outcomes
         /\ seen' \in Keys
<1> USE DEF TypeOK
<1>0. /\ pass \in Passes /\ cache \subseteq Named /\ outcome \in Outcomes
      /\ seen \in Keys
  OBVIOUS
<1>1. CASE UNCHANGED vars
  BY <1>1 DEF vars
<1>2. CASE CloseChunk \/ User
  BY <1>2 DEF CloseChunk, User
<1>3. CASE StopRecording
  BY <1>3, FreshPasses DEF StopRecording
<1>4. CASE ScrubTarget \/ DeleteRange
  BY <1>4 DEF ScrubTarget, DeleteRange, PurgeNames
<1>5. CASE StartPass
  BY <1>5, FreshPasses DEF StartPass
<1>6. CASE DigestWindow
  <2>1. PICK s \in Spans :
          pass' = [pass EXCEPT !.windows =
                     @ \cup {[span |-> s, name |-> Evidence(s)]}]
    BY <1>6 DEF DigestWindow
  <2>2. Evidence(s) \subseteq Slots
    BY StoreAssumption DEF Evidence, Inherited, Covers, Spans, Bounds, Slots
  <2>3. [span |-> s, name |-> Evidence(s)] \in Named
    BY <2>2 DEF Named
  <2> QED BY <1>6, <2>1, <2>3 DEF DigestWindow, Passes
<1>7. CASE ReadCommitted
  <2>1. \A i \in DOMAIN rows :
          rows[i].span \in Bounds /\ rows[i].name \in SUBSET Slots
    BY DEF StoreTypeOK, Rows
  <2>2. CommittedSpans \subseteq [span : Bounds, name : SUBSET Slots]
    BY <2>1 DEF CommittedSpans
  <2> QED BY <1>7, <2>2 DEF ReadCommitted, Passes
<1>8. CASE NameWindow
  <2>1. PICK w \in pass.windows :
          /\ cache' \subseteq cache \cup {w}
          /\ \E wrote \in {pass.wrote, pass.wrote \cup {w}} :
               pass' = [pass EXCEPT
                         !.tasks = @ \cup {Task(w, w.name, "model")},
                         !.wrote = wrote]
    BY <1>8 DEF NameWindow
  <2>2. w \in Named /\ Task(w, w.name, "model") \in Tasks
    BY TasksTyped DEF Passes, Named
  <2>3. PICK wrote \in {pass.wrote, pass.wrote \cup {w}} :
          pass' = [pass EXCEPT !.tasks = @ \cup {Task(w, w.name, "model")},
                               !.wrote = wrote]
    BY <2>1
  <2>4. wrote \subseteq Named /\ pass.tasks \subseteq Tasks
    BY <2>2 DEF Passes
  <2>5. pass' \in Passes
    BY <2>2, <2>3, <2>4 DEF Passes
  <2> QED BY <1>8, <2>1, <2>2, <2>5 DEF NameWindow
<1>9. CASE SkipWindow
  <2>1. PICK w \in pass.windows :
          \E label \in {{}} \cup {c.name : c \in pass.committed} :
          \E by \in {"carried", "mechanical"} :
            pass' = [pass EXCEPT !.tasks = @ \cup {Task(w, label, by)}]
    BY <1>9 DEF SkipWindow
  <2>2. PICK label \in {{}} \cup {c.name : c \in pass.committed},
             by \in {"carried", "mechanical"} :
            pass' = [pass EXCEPT !.tasks = @ \cup {Task(w, label, by)}]
    BY <2>1
  <2>3. w \in Named /\ label \in SUBSET Slots
    BY DEF Passes, Named
  <2>4. Task(w, label, by) \in Tasks
    BY <2>3, TasksTyped
  <2> QED BY <1>9, <2>2, <2>4 DEF SkipWindow, Passes
<1>10. CASE NoneNamed
  <2>1. {Task(w, {}, "mechanical") : w \in pass.windows} \in SUBSET Tasks
    BY TasksTyped DEF Passes
  <2>2. CASE EndWith("nothing") \/ EndWith("mechanical")
    BY <1>10, <2>2, EndTyped DEF NoneNamed
  <2>3. CASE /\ HandTo({Task(w, {}, "mechanical") : w \in pass.windows}, {})
             /\ UNCHANGED <<outcome, seen>>
    BY <1>10, <2>1, <2>3, HandTyped DEF NoneNamed
  <2> QED BY <1>10, <2>2, <2>3 DEF NoneNamed
<1>11. CASE Discard
  <2>1. cache' \subseteq Named
    BY <1>11 DEF Discard
  <2>2. CASE EndWith("nothing")
    BY <2>1, <2>2, EndTyped
  <2>3. CASE /\ pass' = [Opened(TRUE, pass.key) EXCEPT !.live = FALSE]
             /\ UNCHANGED <<outcome, seen>>
    BY <2>1, <2>3, FreshPasses DEF Passes
  <2> QED BY <1>11, <2>2, <2>3 DEF Discard
<1>12. CASE HandOn
  <2>1. gone \in SUBSET Slots /\ pass.tasks \in SUBSET Tasks
    BY DEF StoreTypeOK, Passes
  <2>2. CASE EndWith("partial")
    BY <1>12, <2>2, EndTyped DEF HandOn
  <2>3. CASE HandTo(pass.tasks, gone) /\ UNCHANGED <<outcome, seen>>
    BY <1>12, <2>1, <2>3, HandTyped DEF HandOn
  <2> QED BY <1>12, <2>2, <2>3 DEF HandOn
<1>13. CASE Consolidate \/ CarveOut
  BY <1>13, BlocksTyped DEF Consolidate, CarveOut
<1>14. CASE Replace
  <2>1. cache' = cache
    BY <1>14 DEF Replace
  <2>2. \/ EndWith("failed")
        \/ /\ pass' = [NoPass EXCEPT !.phase = "record",
                         !.live = pass.live, !.key = pass.key,
                         !.branch = pass.branch]
           /\ UNCHANGED <<outcome, seen>>
    BY <1>14 DEF Replace
  <2> QED BY <2>1, <2>2, EndTyped, FreshPasses DEF Passes
<1>15. CASE Record
  BY <1>15, EndTyped DEF Record
<1>16. CASE KillPass
  BY <1>16, FreshPasses DEF KillPass
<1> QED BY <1>1, <1>2, <1>3, <1>4, <1>5, <1>6, <1>7, <1>8, <1>9, <1>10,
           <1>11, <1>12, <1>13, <1>14, <1>15, <1>16 DEF Next

\* Types and ranges, step by step.
LEMMA TypesStep ==
  ASSUME TypeOK, RangesDisjoint, [Next]_vars
  PROVE  TypeOK' /\ RangesDisjoint'
<1>1. RowsTyped
  BY DEF TypeOK, StoreTypeOK, RowsTyped
<1>2. RowsTyped' /\ RangesDisjoint'
  BY <1>1, RowsStep, ReplaceKeepsRows DEF RowsKept, TypeOK, Passes
<1>3. /\ closed' \in 0 .. MaxSlot /\ live' \in BOOLEAN
      /\ gone' \subseteq Slots /\ edits' \in 0 .. MaxEdits
      /\ gen' \in 0 .. MaxPurges
  <2>1. CASE CloseChunk
    BY <2>1, StoreAssumption DEF CloseChunk, TypeOK, StoreTypeOK
  <2>2. CASE User
    BY <2>2, StoreAssumption DEF User, TypeOK, StoreTypeOK
  <2>3. CASE ScrubTarget
    BY <2>3, StoreAssumption
       DEF ScrubTarget, PurgeNames, TypeOK, StoreTypeOK, Slots
  <2>4. CASE DeleteRange
    <3>1. PICK s \in Spans : /\ Covers(s) \subseteq 1 .. closed
                             /\ gone' = gone \cup Covers(s)
                             /\ PurgeNames(Covers(s))
      BY <2>4 DEF DeleteRange
    <3>2. Covers(s) \subseteq Slots
      BY <3>1, StoreAssumption DEF TypeOK, StoreTypeOK, Slots
    <3>3. gone' \subseteq Slots
      BY <3>1, <3>2 DEF TypeOK, StoreTypeOK
    <3>4. gen' \in 0 .. MaxPurges
      BY <3>1, StoreAssumption DEF PurgeNames, TypeOK
    <3> QED BY <2>4, <3>3, <3>4 DEF DeleteRange, TypeOK, StoreTypeOK
  <2>5. CASE /\ UNCHANGED <<closed, gone, edits, gen>>
             /\ live' = live \/ live' = FALSE
    BY <2>5 DEF TypeOK, StoreTypeOK
  <2>6. \/ CloseChunk \/ User \/ ScrubTarget \/ DeleteRange
        \/ /\ UNCHANGED <<closed, gone, edits, gen>>
           /\ live' = live \/ live' = FALSE
    BY DEF Next, vars, store, StopRecording, StartPass, DigestWindow,
           ReadCommitted, NameWindow, SkipWindow, NoneNamed, Discard, HandOn,
           Consolidate, CarveOut, Replace, Record, KillPass
  <2> QED BY <2>1, <2>2, <2>3, <2>4, <2>5, <2>6
<1>4. vetted' \subseteq Slots
  <2>1. vetted' \in {vetted, {}, pass.vetted}
    BY DEF Next, vars, store, CloseChunk, User, ScrubTarget, DeleteRange,
           StopRecording, StartPass, DigestWindow,
           ReadCommitted, NameWindow, SkipWindow, NoneNamed, Discard, HandOn,
           Consolidate, CarveOut, Replace, Record, KillPass
  <2> QED BY <2>1 DEF TypeOK, Passes
<1> QED BY <1>2, <1>3, <1>4, PassStep
    DEF TypeOK, StoreTypeOK, RowsTyped, UserIndices, Rows, Bounds, Slots

-----------------------------------------------------------------------------
(* What a pass in flight knows.                                            *)

\* Until it is let through, a pass that no scrub has overtaken has read
\* nothing that is gone, and calls its tasks by what it read.
Reading ==
  pass.phase \in {"digest", "name"} =>
    /\ pass.gen <= gen
    /\ \A w \in pass.windows :
         gen = pass.gen => w.name \cap gone = {}
    /\ \A t \in pass.tasks :
         t.by = "model" => \E w \in pass.windows : t.name = w.name

\* Once a full pass is let through, it carries no name of what was gone.
Vetting ==
  pass.phase \in {"blocks", "replace"} /\ pass.branch = "produced" =>
    /\ \A t \in pass.tasks : t.name \cap pass.vetted = {}
    /\ \A b \in pass.blocks : b.name \cap pass.vetted = {}

IInv ==
  /\ TypeOK /\ RangesDisjoint
  /\ Reading /\ CacheClean /\ Vetting /\ VettedNamesClean

\* A span that does not meet what is removed covers none of it.
LEMMA Apart ==
  ASSUME NEW e \in Spans, NEW S \in SUBSET Slots, ~Overlaps(e, S)
  PROVE  Covers(e) \cap S = {}
<1> SUFFICES ASSUME NEW x \in Covers(e) \cap S
             PROVE  FALSE
  OBVIOUS
<1>1. x \in Int /\ e[1] <= x /\ x <= e[2]
  BY StoreAssumption DEF Covers, Spans, Bounds, Slots
<1>2. <<x, x>> \in Spans
  BY <1>1 DEF Spans, Bounds
<1>3. Covers(<<x, x>>) \subseteq S
  BY <1>1 DEF Covers
<1>4. Meets(e, <<x, x>>)
  BY <1>1 DEF Meets
<1> QED BY <1>2, <1>3, <1>4 DEF Overlaps

\* A purge leaves no name of what it removes, and overtakes every pass.
LEMMA PurgeIsSound ==
  ASSUME TypeOK, Reading, CacheClean, NEW S \in SUBSET Slots,
         gone' = gone \cup S, PurgeNames(S), pass' = pass
  PROVE  Reading' /\ CacheClean'
<1>1. \A e \in cache' : e \in cache /\ e.span \in Spans /\ ~Overlaps(e.span, S)
  BY DEF PurgeNames, TypeOK, Named
<1>2. CacheClean'
  <2> SUFFICES ASSUME NEW e \in cache'
               PROVE  e.name \cap Covers(e.span) \cap gone' = {}
    BY DEF CacheClean
  <2>1. Covers(e.span) \cap S = {}
    BY <1>1, Apart
  <2> QED BY <1>1, <2>1 DEF CacheClean
<1>3. gen \in Int /\ gen' = gen + 1 /\ pass.gen \in Int
  BY StoreAssumption DEF PurgeNames, TypeOK, Passes
<1>4. Reading'
  BY <1>3 DEF Reading
<1> QED BY <1>2, <1>4

\* Where a pass is once it has ended, begun again, or replaced the rows.
LEMMA Ended ==
  ASSUME NEW branch, EndWith(branch)
  PROVE  pass'.phase = "idle"
  BY DEF EndWith, NoPass

LEMMA Handed ==
  ASSUME NEW tasks, NEW removed, HandTo(tasks, removed)
  PROVE  pass'.phase = "blocks"
  BY DEF HandTo, NoPass

LEMMA Reopened ==
  ASSUME NEW key, pass' = [Opened(TRUE, key) EXCEPT !.live = FALSE]
  PROVE  /\ pass'.phase = "digest" /\ pass'.gen = gen
         /\ pass'.windows = {} /\ pass'.tasks = {}
<1> DEFINE fresh == [phase |-> "digest", live |-> FALSE, gen |-> gen,
                     upto |-> closed, key |-> key, retried |-> TRUE,
                     windows |-> {}, committed |-> {}, tasks |-> {},
                     wrote |-> {}, blocks |-> {}, branch |-> "none",
                     vetted |-> {}]
<1>1. pass' = fresh
  BY DEF Opened, NoPass
<1>2. /\ fresh.phase = "digest" /\ fresh.gen = gen
      /\ fresh.windows = {} /\ fresh.tasks = {}
  OBVIOUS
<1> HIDE DEF fresh
<1> QED BY <1>1, <1>2, Zenon

LEMMA Replaced ==
  ASSUME Replace
  PROVE  pass'.phase \in {"idle", "record"}
<1>1. CASE EndWith("failed")
  BY <1>1, Ended
<1>2. CASE pass' = [NoPass EXCEPT !.phase = "record", !.live = pass.live,
                                  !.key = pass.key, !.branch = pass.branch]
  BY <1>2 DEF NoPass
<1> QED BY <1>1, <1>2 DEF Replace

\* Every step: what is cached, and what the pass knows.
LEMMA ReadingStep ==
  ASSUME TypeOK, Reading, CacheClean, [Next]_vars
  PROVE  Reading' /\ CacheClean'
<1>1. CASE UNCHANGED <<gone, cache, gen, pass>>
  BY <1>1 DEF Reading, CacheClean
<1>2. CASE ScrubTarget
  <2>1. PICK S \in SUBSET Slots : gone' = gone \cup S /\ PurgeNames(S)
    BY <1>2, StoreAssumption DEF ScrubTarget, TypeOK, StoreTypeOK, Slots
  <2> QED BY <1>2, <2>1, PurgeIsSound DEF ScrubTarget
<1>3. CASE DeleteRange
  <2>1. PICK s \in Spans : /\ Covers(s) \subseteq 1 .. closed
                           /\ gone' = gone \cup Covers(s)
                           /\ PurgeNames(Covers(s))
    BY <1>3 DEF DeleteRange
  <2>2. Covers(s) \subseteq Slots
    BY <2>1, StoreAssumption DEF TypeOK, StoreTypeOK, Slots
  <2> QED BY <1>3, <2>1, <2>2, PurgeIsSound DEF DeleteRange
<1>4. CASE /\ UNCHANGED <<gone, gen>>
           /\ cache' \subseteq cache
           /\ pass'.phase \notin {"digest", "name"}
  BY <1>4 DEF Reading, CacheClean
<1>5. CASE /\ UNCHANGED <<gone, gen>>
           /\ cache' \subseteq cache
           /\ pass'.gen = gen /\ pass'.windows = {} /\ pass'.tasks = {}
  <2>1. gen \in Int
    BY StoreAssumption DEF TypeOK
  <2> QED BY <1>5, <2>1 DEF Reading, CacheClean
<1>6. CASE DigestWindow
  <2>1. PICK s \in Spans :
          pass' = [pass EXCEPT !.windows =
                     @ \cup {[span |-> s, name |-> Evidence(s)]}]
    BY <1>6 DEF DigestWindow
  <2>2. /\ pass'.windows = pass.windows \cup {[span |-> s, name |-> Evidence(s)]}
        /\ pass'.phase = pass.phase /\ pass'.gen = pass.gen
        /\ pass'.tasks = pass.tasks
    BY <2>1 DEF TypeOK, Passes
  <2>3. Evidence(s) \cap gone = {}
    BY DEF Evidence, Inherited
  <2>4. UNCHANGED <<gone, gen, cache>>
    BY <1>6 DEF DigestWindow, store
  <2> QED BY <1>6, <2>2, <2>3, <2>4
       DEF Reading, CacheClean, DigestWindow
<1>7. CASE ReadCommitted
  <2>1. /\ pass'.windows = pass.windows /\ pass'.gen = pass.gen
        /\ pass'.tasks = pass.tasks
    BY <1>7 DEF ReadCommitted, TypeOK, Passes
  <2>2. UNCHANGED <<gone, gen, cache>>
    BY <1>7 DEF ReadCommitted, store
  <2> QED BY <1>7, <2>1, <2>2
       DEF Reading, CacheClean, ReadCommitted
<1>8. CASE NameWindow
  <2>1. PICK w \in pass.windows :
          /\ \/ cache' = cache
             \/ /\ gen = pass.gen
                /\ cache' \subseteq cache \cup {w}
          /\ pass'.tasks = pass.tasks \cup {Task(w, w.name, "model")}
          /\ pass'.windows = pass.windows /\ pass'.gen = pass.gen
    BY <1>8 DEF NameWindow, MayStore, TypeOK, Passes
  <2>2. UNCHANGED <<gone, gen>> /\ pass.phase = "name"
    BY <1>8 DEF NameWindow, store
  <2>3. Task(w, w.name, "model").name = w.name
    BY DEF Task
  <2>4. CacheClean'
    BY <2>1, <2>2 DEF Reading, CacheClean
  <2>5. Reading'
    BY <2>1, <2>2, <2>3 DEF Reading
  <2> QED BY <2>4, <2>5
<1>9. CASE SkipWindow
  <2>1. PICK w \in pass.windows :
          \E label \in {{}} \cup {c.name : c \in pass.committed} :
          \E by \in {"carried", "mechanical"} :
            pass' = [pass EXCEPT !.tasks = @ \cup {Task(w, label, by)}]
    BY <1>9 DEF SkipWindow
  <2>2. PICK label \in {{}} \cup {c.name : c \in pass.committed},
             by \in {"carried", "mechanical"} :
            pass' = [pass EXCEPT !.tasks = @ \cup {Task(w, label, by)}]
    BY <2>1
  <2>3. /\ pass'.tasks = pass.tasks \cup {Task(w, label, by)}
        /\ pass'.windows = pass.windows /\ pass'.gen = pass.gen
        /\ pass'.phase = pass.phase
    BY <2>2 DEF TypeOK, Passes
  <2>4. Task(w, label, by).by # "model"
    BY DEF Task
  <2>5. UNCHANGED <<gone, gen, cache>>
    BY <1>9 DEF SkipWindow, store
  <2> QED BY <2>3, <2>4, <2>5 DEF Reading, CacheClean
<1>10. CASE \/ StartPass \/ NoneNamed \/ Discard \/ HandOn \/ Consolidate
            \/ CarveOut \/ Replace \/ Record \/ KillPass
  <2>1. CASE StartPass
    BY <1>5, <2>1 DEF StartPass, Opened, NoPass, store
  <2>2. CASE NoneNamed \/ HandOn \/ Record \/ KillPass
    <3>1. pass'.phase \notin {"digest", "name"}
      BY <2>2, Ended, Handed DEF NoneNamed, HandOn, Record, KillPass, NoPass
    <3> QED BY <1>4, <2>2, <3>1
         DEF NoneNamed, HandOn, Record, KillPass, store
  <2>3. CASE Discard
    <3>1. CASE EndWith("nothing")
      <4>1. pass'.phase = "idle"
        BY <3>1, Ended
      <4> QED BY <1>4, <2>3, <4>1 DEF Discard, store
    <3>2. CASE pass' = [Opened(TRUE, pass.key) EXCEPT !.live = FALSE]
      BY <1>5, <2>3, <3>2, Reopened DEF Discard, store
    <3> QED BY <2>3, <3>1, <3>2 DEF Discard
  <2>4. CASE Consolidate \/ CarveOut
    <3>1. pass'.phase = "replace"
      BY <2>4 DEF Consolidate, CarveOut, TypeOK, Passes
    <3> QED BY <1>4, <2>4, <3>1 DEF Consolidate, CarveOut, store
  <2>5. CASE Replace
    BY <1>4, <2>5, Replaced DEF Replace
  <2> QED BY <1>10, <2>1, <2>2, <2>3, <2>4, <2>5
<1>11. CASE CloseChunk \/ StopRecording \/ User
  BY <1>1, <1>11 DEF CloseChunk, StopRecording, User
<1>12. CASE UNCHANGED vars
  BY <1>1, <1>12 DEF vars, store
<1> QED BY <1>2, <1>3, <1>6, <1>7, <1>8, <1>9, <1>10, <1>11, <1>12 DEF Next

\* A block is called by the tasks it is made of.
LEMMA BlockNames ==
  ASSUME TypeOK, NEW X,
         \A t \in pass.tasks : t.name \cap X = {},
         Consolidate \/ CarveOut
  PROVE  \A b \in pass'.blocks : b.name \cap X = {}
<1>1. CASE CarveOut
  <2>1. pass'.blocks = Clear
    BY <1>1 DEF CarveOut, TypeOK, Passes
  <2> QED BY <2>1 DEF Clear
<1>2. CASE Consolidate
  <2>1. PICK heads \in SUBSET Whole : \E called \in SUBSET heads :
          pass' = [pass EXCEPT !.phase = "replace", !.tasks = {},
                               !.blocks = Blocks(heads, called)]
    BY <1>2 DEF Consolidate
  <2>2. PICK called \in SUBSET heads :
          pass' = [pass EXCEPT !.phase = "replace", !.tasks = {},
                               !.blocks = Blocks(heads, called)]
    BY <2>1
  <2>3. pass'.blocks = Blocks(heads, called)
    BY <2>2 DEF TypeOK, Passes
  <2>4. \A S, c : BlockName(S, c) \cap X = {}
    BY DEF BlockName
  <2>5. ASSUME NEW x \in Blocks(heads, called)
        PROVE  x.name \cap X = {}
    <3>1. PICK b \in heads :
            x \in {[span |-> s,
                    name |-> BlockName(Block(b, heads), b \in called)] :
                     s \in Trimmed(<<b, Max(Block(b, heads))>>)}
      BY <2>5 DEF Blocks
    <3>2. x.name = BlockName(Block(b, heads), b \in called)
      BY <3>1
    <3> QED BY <2>4, <3>2
  <2> QED BY <2>3, <2>5
<1> QED BY <1>1, <1>2

LEMMA VettingStep ==
  ASSUME TypeOK, Reading, Vetting, [Next]_vars
  PROVE  Vetting'
<1>1. CASE UNCHANGED pass
  BY <1>1 DEF Vetting
<1>2. CASE pass'.phase \notin {"blocks", "replace"}
  BY <1>2 DEF Vetting
<1>3. CASE pass'.branch # "produced"
  BY <1>3 DEF Vetting
<1>4. CASE Consolidate \/ CarveOut
  <2>1. /\ pass'.tasks = {} /\ pass'.branch = pass.branch
        /\ pass'.vetted = pass.vetted /\ pass.phase = "blocks"
    BY <1>4 DEF Consolidate, CarveOut, TypeOK, Passes
  <2>2. ASSUME pass.branch = "produced"
        PROVE  \A b \in pass'.blocks : b.name \cap pass.vetted = {}
    BY <1>4, <2>1, <2>2, BlockNames DEF Vetting
  <2> QED BY <2>1, <2>2 DEF Vetting
<1>5. CASE HandOn /\ HandTo(pass.tasks, gone)
  <2>1. /\ pass'.tasks = pass.tasks /\ pass'.blocks = {}
        /\ pass'.vetted = gone /\ pass'.branch = Branch(pass.tasks)
    BY <1>5 DEF HandTo, NoPass
  <2>2. pass.phase = "name" /\ gen = pass.gen
    BY <1>5 DEF HandOn, AllNamed, GuardPasses
  <2>3. ASSUME Branch(pass.tasks) = "produced", NEW t \in pass.tasks
        PROVE  t.name \cap gone = {}
    <3>1. t.by = "model"
      BY <2>3 DEF Branch
    <3> QED BY <2>2, <3>1 DEF Reading
  <2> QED BY <2>1, <2>3 DEF Vetting
<1>6. CASE HandTo({Task(w, {}, "mechanical") : w \in pass.windows}, {})
  BY <1>6 DEF HandTo, NoPass, Vetting
<1>7. \/ UNCHANGED pass
      \/ pass'.phase \notin {"blocks", "replace"}
      \/ Consolidate \/ CarveOut
      \/ HandOn /\ HandTo(pass.tasks, gone)
      \/ HandTo({Task(w, {}, "mechanical") : w \in pass.windows}, {})
  <2>1. CASE \/ CloseChunk \/ StopRecording \/ User \/ ScrubTarget
            \/ DeleteRange \/ UNCHANGED vars
    BY <2>1 DEF CloseChunk, StopRecording, User, ScrubTarget, DeleteRange, vars
  <2>2. CASE \/ StartPass \/ DigestWindow \/ ReadCommitted \/ NameWindow
            \/ SkipWindow
    BY <2>2 DEF StartPass, Opened, NoPass, DigestWindow, ReadCommitted,
                NameWindow, SkipWindow, TypeOK, Passes
  <2>3. CASE NoneNamed \/ HandOn
    BY <2>3, Ended DEF NoneNamed, HandOn
  <2>4. CASE Discard
    BY <2>4, Ended, Reopened DEF Discard
  <2>5. CASE Replace \/ Record \/ KillPass
    BY <2>5, Ended, Replaced DEF Record, KillPass, NoPass
  <2> QED BY <2>1, <2>2, <2>3, <2>4, <2>5 DEF Next
<1> QED BY <1>1, <1>2, <1>4, <1>5, <1>6, <1>7

\* The rows a full pass wrote, until the next one.
LEMMA RowsCleanStep ==
  ASSUME TypeOK, RangesDisjoint, Vetting, VettedNamesClean, [Next]_vars
  PROVE  VettedNamesClean'
<1>1. RowsTyped
  BY DEF TypeOK, StoreTypeOK, RowsTyped
<1>2. CASE ~Replace
  <2>1. vetted' = vetted
    BY <1>2 DEF Next, vars, store, CloseChunk, User, ScrubTarget, DeleteRange,
           StopRecording, StartPass, DigestWindow, ReadCommitted, NameWindow,
           SkipWindow, NoneNamed, Discard, HandOn, Consolidate, CarveOut,
           Record, KillPass
  <2>2. NoNewAgentRow
    BY <1>1, <1>2, RowsStep DEF RowsKept
  <2> QED BY <2>1, <2>2 DEF NoNewAgentRow, VettedNamesClean
<1>3. CASE Replace
  <2>1. pass.blocks \subseteq Named /\ pass.phase = "replace"
    BY <1>3 DEF TypeOK, Passes, Replace
  <2>2. CASE rows' = rows /\ vetted' = vetted
    BY <2>2 DEF VettedNamesClean, Kept
  <2>3. CASE /\ vetted' = IF pass.branch = "produced" THEN pass.vetted ELSE {}
             /\ \A i \in DOMAIN rows' \ Kept' :
                  \E b \in pass.blocks : rows'[i] = AgentRow(b)
    <3>1. CASE pass.branch = "produced"
      BY <2>1, <2>3, <3>1 DEF VettedNamesClean, Vetting, AgentRow
    <3>2. CASE pass.branch # "produced"
      BY <2>3, <3>2 DEF VettedNamesClean
    <3> QED BY <3>1, <3>2
  <2> QED BY <1>1, <1>3, <2>1, <2>2, <2>3, ReplaceKeepsRows
<1> QED BY <1>2, <1>3

-----------------------------------------------------------------------------
(* The theorems.                                                           *)

LEMMA InvInit == Init => IInv
<1> SUFFICES ASSUME Init
             PROVE  IInv
  OBVIOUS
<1>1. PICK I \in SUBSET {Base} : \E s \in Spans :
        rows = [i \in I |-> UserRow(s)]
  BY DEF Init, StoreInit
<1>2. PICK s \in Spans : rows = [i \in I |-> UserRow(s)]
  BY <1>1
<1>3. UserRow(s) \in Rows /\ Protected(UserRow(s))
  BY UserRows DEF Spans
<1>4. DOMAIN rows = I /\ \A i \in I : rows[i] = UserRow(s)
  BY <1>2
<1>5. I \subseteq UserIndices
  BY StoreAssumption DEF UserIndices
<1>6. RangesDisjoint
  <2>1. \A i \in I : i = Base /\ i >= Base
    BY StoreAssumption
  <2> QED BY <1>3, <1>4, <2>1 DEF RangesDisjoint
<1>7. TypeOK
  <2>1. StoreTypeOK
    BY <1>3, <1>4, <1>5, StoreAssumption DEF Init, StoreInit, StoreTypeOK
  <2>2. NoKey \in Keys
    BY StoreAssumption DEF NoKey, Keys
  <2>3. NoPass \in Passes
    BY <2>2, StoreAssumption DEF NoPass, Passes
  <2> QED BY <2>1, <2>2, <2>3, StoreAssumption DEF Init, TypeOK, Outcomes
<1>8. Reading /\ Vetting
  BY DEF Init, NoPass, Reading, Vetting
<1>9. CacheClean /\ VettedNamesClean
  BY DEF Init, CacheClean, VettedNamesClean
<1> QED BY <1>6, <1>7, <1>8, <1>9 DEF IInv

LEMMA InvStep == IInv /\ [Next]_vars => IInv'
  BY TypesStep, ReadingStep, VettingStep, RowsCleanStep DEF IInv

LEMMA Inductive == Spec => []IInv
  BY InvInit, InvStep, PTL DEF Spec

\* The rows, the cache, the pass and the outcome have their types, whatever
\* the passes, the verbs, the scrubs and the crashes do.
THEOREM TypesHold == Spec => []TypeOK
  BY Inductive, PTL DEF IInv

\* The agent's rows lie below the base and the user's from it upwards, so a
\* replace never collides with a row that survives it (pipeline_state.py:1359).
THEOREM RangesHold == Spec => []RangesDisjoint
  BY Inductive, PTL DEF IInv

\* No cached name outlives the evidence of its own span: a pass writes a name
\* only where no purge has overtaken it (pipeline_state.py:1662), and a purge
\* takes every name whose span it meets (scrub_worker.py:138).
THEOREM CacheHolds == Spec => []CacheClean
  BY Inductive, PTL DEF IInv

\* A pass that named every window writes no name of what was gone when the
\* staleness guard let it through (pipeline_state.py:1744).
THEOREM VettedHolds == Spec => []VettedNamesClean
  BY Inductive, PTL DEF IInv

\* A purge by policy takes no row that the user keeps.
LEMMA PurgeSparesKept ==
  ASSUME NEW S, Purge(S, FALSE)
  PROVE  \A i \in Kept : i \in DOMAIN rows' /\ rows'[i] = rows[i]
<1> DEFINE out == {i \in DOMAIN rows :
                     Overlaps(rows[i].span, S) /\ ~Protected(rows[i])}
<1>1. rows' = Rewritten(out, [j \in {} |-> 0])
  BY DEF Purge
<1>2. \A i \in Kept : i \in DOMAIN rows \ out
  BY DEF Kept
<1> HIDE DEF out
<1> QED BY <1>1, <1>2 DEF Rewritten

\* What the user wrote or touched stays, whatever a pass computed before it
\* (pipeline_state.py:1359) and whatever a policy scrub removes.
THEOREM CurationHolds == Spec => CurationStays
<1> DEFINE Stays == edits' = edits /\ ~DeleteRange =>
                      \A i \in Kept : i \in DOMAIN rows' /\ rows'[i] = rows[i]
<1>1. IInv /\ [Next]_vars => [Stays]_vars
  <2> SUFFICES ASSUME IInv, [Next]_vars, edits' = edits, ~DeleteRange
               PROVE  \A i \in Kept : i \in DOMAIN rows' /\ rows'[i] = rows[i]
    OBVIOUS
  <2>1. CASE User
    <3>1. edits' = edits + 1 /\ edits \in Int
      BY <2>1, StoreAssumption DEF User, IInv, TypeOK, StoreTypeOK
    <3> QED BY <3>1
  <2>2. CASE ScrubTarget
    BY <2>2, PurgeSparesKept DEF ScrubTarget
  <2>3. CASE Replace
    <3>1. RowsTyped /\ RangesDisjoint /\ pass.blocks \subseteq Named
      BY DEF IInv, TypeOK, StoreTypeOK, RowsTyped, Passes
    <3> QED BY <2>3, <3>1, ReplaceKeepsRows
  <2>4. CASE rows' = rows
    BY <2>4 DEF Kept
  <2>5. \/ User \/ ScrubTarget \/ Replace \/ rows' = rows
    BY DEF Next, vars, store, CloseChunk, StopRecording, StartPass,
           DigestWindow, ReadCommitted, NameWindow, SkipWindow, NoneNamed,
           Discard, HandOn, Consolidate, CarveOut, Record, KillPass
  <2> QED BY <2>1, <2>2, <2>3, <2>4, <2>5
<1> QED BY <1>1, Inductive, PTL DEF Spec, CurationStays

=============================================================================
