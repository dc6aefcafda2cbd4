---------------------------- MODULE Segmentation ----------------------------
(***************************************************************************)
(* The pass that names a local recording's tasks (ondevice_pipeline.py,    *)
(* consolidate.py, _run_local_segmentation of terminal_stage.py), against  *)
(* the user's edits and against a scrub that removes what it is reading.   *)
(*                                                                         *)
(* A pass holds the terminal lock from its first read to its last write:   *)
(* it reads the scrub generation, then digests window after window, names  *)
(* them and caches the names, re-checks the generation, folds the windows  *)
(* into blocks around the rows the user keeps, and replaces the agent's    *)
(* rows.  The scrub worker and the verbs take no such lock.                *)
(*                                                                         *)
(* The windows are any partition of the closed slots, which covers the     *)
(* pinned prefix and the arbitration.  Left out: the cloud fallback (no    *)
(* cloud provider is configured), transcripts, threads, the narrative.     *)
(***************************************************************************)
EXTENDS TaskStore, FiniteSetsExt

CONSTANT Opening        \* the slots that open with a window.switch

VARIABLES cache,        \* ondevice_window_names: names by span and digest
          gen,          \* scrub_generation
          pass,         \* the pass that holds the terminal lock
          outcome,      \* pipeline_recording_outcome
          seen,         \* _last_segmentation_key, of the daemon that is up
          vetted        \* history: what had been removed when the pass that
                        \* wrote the agent's rows was let through

vars == <<store, cache, gen, pass, outcome, seen, vetted>>

\* What a window's digest is made of: what is left of its own slots and, unless
\* it opens with a window.switch, the last switch before it (the carry-in of
\* _build_span_summary; every slot holds one).
Inherited(s) ==
  LET before == (1 .. s[1] - 1) \ gone
  IN  {x \in before : s[1] \notin Opening \ gone /\ \A y \in before : y <= x}
Evidence(s) == (Covers(s) \ gone) \cup Inherited(s)

Named == [span : Spans, name : SUBSET Slots]
Tasks == [span : Spans, name : SUBSET Slots,
          by : {"model", "carried", "mechanical"}]
Outcomes == {"other", "partial", "produced"}
Keys == (0 .. MaxSlot) \X (0 .. MaxKept)
Sticky == {"partial", "produced"}

Passes == [phase : {"idle", "digest", "name", "blocks", "replace", "record"},
           live : BOOLEAN, gen : 0 .. MaxPurges, upto : 0 .. MaxSlot,
           key : Keys, retried : BOOLEAN, windows : SUBSET Named,
           committed : SUBSET [span : Bounds, name : SUBSET Slots],
           tasks : SUBSET Tasks,
           wrote : SUBSET Named, blocks : SUBSET Named,
           branch : {"none", "mechanical", "partial", "produced"},
           vetted : SUBSET Slots]
NoKey == <<0, 0>>
NoPass == [phase |-> "idle", live |-> TRUE, gen |-> 0, upto |-> 0,
           key |-> NoKey, retried |-> FALSE, windows |-> {},
           committed |-> {}, tasks |-> {}, wrote |-> {}, blocks |-> {},
           branch |-> "none", vetted |-> {}]
Idle == pass.phase = "idle"

Init ==
  /\ StoreInit
  /\ cache = {}
  /\ gen = 0
  /\ pass = NoPass
  /\ outcome = "other"
  /\ seen = NoKey
  /\ vetted = {}

-----------------------------------------------------------------------------
\* The recording.

CloseChunk ==
  /\ live /\ closed < MaxSlot
  /\ closed' = closed + 1
  /\ UNCHANGED <<rows, live, gone, edits, cache, gen, pass, outcome,
                 seen, vetted>>

StopRecording ==
  /\ live /\ closed > 0
  /\ live' = FALSE
  /\ seen' = NoKey
  /\ UNCHANGED <<rows, closed, gone, edits, cache, gen, pass, outcome, vetted>>

User ==
  /\ closed > 0
  /\ edits < MaxEdits
  /\ CreateTask \/ UpdateTask \/ DeleteTask \/ MergeTasks \/ SplitTask
  /\ edits' = edits + 1
  /\ UNCHANGED <<closed, live, gone, cache, gen, pass, outcome,
                 seen, vetted>>

\* _purge_ondevice_window_names: the names over S go, the generation moves.
PurgeNames(S) ==
  /\ gen < MaxPurges
  /\ cache' = {e \in cache : ~Overlaps(e.span, S)}
  /\ gen' = gen + 1

\* _scrub_target: the source rows, the names and the agent's tasks in one
\* transaction.  The worker's thread may outlive the 30 s join that precedes
\* the final pass, so a scrub may also land after the recording stopped.
ScrubTarget ==
  \E S \in SUBSET ((1 .. closed) \ gone) :
     /\ S # {}
     /\ gone' = gone \cup S
     /\ PurgeNames(S)
     /\ Purge(S, FALSE)
     /\ UNCHANGED <<closed, live, edits, pass, outcome, seen, vetted>>

\* _commit_delete_transaction, under the terminal lock.
DeleteRange ==
  \E s \in Spans :
     /\ Covers(s) \subseteq 1 .. closed
     /\ Idle
     /\ gone' = gone \cup Covers(s)
     /\ PurgeNames(Covers(s))
     /\ Purge(Covers(s), TRUE)
     /\ UNCHANGED <<closed, live, edits, pass, outcome, seen, vetted>>

-----------------------------------------------------------------------------
\* The pass.

\* The lock, and the generation before any digest.
Opened(retry, key) == [NoPass EXCEPT !.phase = "digest", !.live = live,
                                     !.gen = gen, !.upto = closed,
                                     !.key = key, !.retried = retry]

\* _segmentation_fingerprint: the chunks that are closed, the rows that are
\* kept.  A tick over a live recording that has not changed since the last
\* tick, however its pass ended, runs none; at its end a recording gets one.
Fingerprint == IF live THEN <<closed, Cardinality(Kept)>> ELSE NoKey
StartPass ==
  /\ Idle /\ closed > 0
  /\ live => Fingerprint # seen
  /\ pass' = Opened(FALSE, Fingerprint)
  /\ UNCHANGED <<store, cache, gen, outcome, seen, vetted>>

Digested == UNION {Covers(w.span) : w \in pass.windows}

\* build_window_digests: the next window, over what is there to be read now.
DigestWindow ==
  /\ pass.phase = "digest"
  /\ \E s \in Spans :
       /\ Covers(s) \subseteq (1 .. pass.upto) \ Digested
       /\ s[1] = 1 \/ s[1] - 1 \in Digested
       /\ pass' = [pass EXCEPT !.windows =
                     @ \cup {[span |-> s, name |-> Evidence(s)]}]
  /\ UNCHANGED <<store, cache, gen, outcome, seen, vetted>>

\* _committed_named_spans: the rows of the last pass the user left alone.
CommittedSpans == {[span |-> rows[i].span, name |-> rows[i].name] :
                     i \in {j \in DOMAIN rows \ Kept : rows[j].name # {}}}
ReadCommitted ==
  /\ pass.phase = "digest"
  /\ Digested = 1 .. pass.upto
  /\ pass' = [pass EXCEPT !.phase = "name", !.committed = CommittedSpans]
  /\ UNCHANGED <<store, cache, gen, outcome, seen, vetted>>

Done == {t.span : t \in pass.tasks}
NextWindow(w) ==
  /\ w \in pass.windows
  /\ w.span \notin Done
  /\ \A v \in pass.windows : v.span \notin Done => w.span[1] <= v.span[1]

\* The trailing window of a live day is named, never cached.
Cacheable(w) == ~(pass.live /\ w.span[2] = pass.upto)

\* Mutant: the write does not look at the generation again.
MayStoreAnyway(w) == Cacheable(w)

\* store_window_name looks at the generation in its own transaction.
MayStore(w) == Cacheable(w) /\ gen = pass.gen

Task(w, label, by) == [span |-> w.span, name |-> label, by |-> by]

\* A name from the cache, or from the model and then into the cache.
NameWindow ==
  /\ pass.phase = "name"
  /\ \E w \in pass.windows :
       /\ NextWindow(w)
       /\ w.name # {}
       /\ LET stores == w \notin cache /\ MayStore(w)
          IN  /\ cache' = IF stores
                          THEN {e \in cache : e.span # w.span} \cup {w}
                          ELSE cache
              /\ pass' = [pass EXCEPT
                    !.tasks = @ \cup {Task(w, w.name, "model")},
                    !.wrote = IF stores THEN @ \cup {w} ELSE @]
  /\ UNCHANGED <<store, gen, outcome, seen, vetted>>

\* No usable digest, or the model failed; on a halt, the name that the last
\* pass committed for an overlapping span is carried forward.
SkipWindow ==
  /\ pass.phase = "name"
  /\ \E w \in pass.windows :
       /\ NextWindow(w)
       /\ w \notin cache \/ w.name = {}
       /\ \/ pass' = [pass EXCEPT !.tasks =
                          @ \cup {Task(w, {}, "mechanical")}]
          \/ \E c \in pass.committed :
               /\ w.name # {}
               /\ Meets(w.span, c.span)
               /\ pass' = [pass EXCEPT !.tasks =
                             @ \cup {Task(w, c.name, "carried")}]
  /\ UNCHANGED <<store, cache, gen, outcome, seen, vetted>>

-----------------------------------------------------------------------------
\* What the pass comes to (pick_reason, _provider_pass_branch).

Branch(tasks) ==
  IF \A t \in tasks : t.by # "model" THEN "mechanical"
  ELSE IF \A t \in tasks : t.by = "model" THEN "produced" ELSE "partial"

Pick(branch) ==
  IF branch = "produced" THEN "produced"
  ELSE IF branch = "partial"
       THEN IF ~pass.live /\ outcome = "produced" THEN "produced"
                                                  ELSE "partial"
       ELSE IF outcome \in Sticky THEN outcome ELSE "other"

EndWith(branch) ==
  /\ pass' = NoPass
  /\ outcome' = Pick(branch)
  /\ seen' = IF live THEN pass.key ELSE NoKey

\* What the rest of the pass still reads.
HandTo(tasks, removed) ==
  pass' = [NoPass EXCEPT !.phase = "blocks", !.live = pass.live,
                         !.key = pass.key, !.tasks = tasks,
                         !.branch = Branch(tasks), !.vetted = removed]

AllNamed ==
  /\ pass.phase = "name"
  /\ \A w \in pass.windows : w.span \in Done

\* Not one name from the model: a halt ends the pass, anything else sends it
\* to the idle-gap heuristic, which may not replace rows a model named.
NoneNamed ==
  /\ AllNamed
  /\ Branch(pass.tasks) = "mechanical"
  /\ \/ EndWith("nothing")
     \/ outcome \in Sticky /\ EndWith("mechanical")
     \/ /\ outcome \notin Sticky
        /\ HandTo({Task(w, {}, "mechanical") : w \in pass.windows}, {})
        /\ UNCHANGED <<outcome, seen>>
  /\ UNCHANGED <<store, cache, gen, vetted>>

\* Mutant: the names are handed on whatever was removed meanwhile.
GuardOpen == TRUE

\* finalize_window_names: nothing was scrubbed since the pass began.
GuardPasses == gen = pass.gen

\* It was: the pass takes back the names it cached and hands nothing on; at
\* the end of a recording it is run once more.
Discard ==
  /\ AllNamed
  /\ Branch(pass.tasks) # "mechanical"
  /\ ~GuardPasses
  /\ cache' = cache \ pass.wrote
  /\ IF ~pass.live /\ ~pass.retried
     THEN /\ pass' = [Opened(TRUE, pass.key) EXCEPT !.live = FALSE]
          /\ UNCHANGED <<outcome, seen>>
     ELSE EndWith("nothing")
  /\ UNCHANGED <<store, gen, vetted>>

\* It was not.  A final pass that named only some windows does not replace
\* the rows of one that named them all.
HandOn ==
  /\ AllNamed
  /\ Branch(pass.tasks) # "mechanical"
  /\ GuardPasses
  /\ IF ~pass.live /\ Branch(pass.tasks) = "partial" /\ outcome = "produced"
     THEN EndWith("partial")
     ELSE HandTo(pass.tasks, gone) /\ UNCHANGED <<outcome, seen>>
  /\ UNCHANGED <<store, cache, gen, vetted>>

\* consolidate: runs of windows become blocks, which midnight may cut.  A
\* block of one window keeps a name the model gave it, a block of several is
\* named from their names, or not at all.
Whole == UNION {Covers(t.span) : t \in pass.tasks}
Block(b, heads) == {x \in Whole : x >= b /\ \A h \in heads : h > b => x < h}
BlockName(S, called) ==
  LET M == {t \in pass.tasks : Overlaps(t.span, S)}
  IN  IF Cardinality(M) = 1
      THEN UNION {t.name : t \in {u \in M : u.by = "model"}}
      ELSE IF called THEN UNION {t.name : t \in M} ELSE {}

\* _subtract_spans: what is left of s, one kept row after the other.  A row
\* whose end is before its start leaves two pieces that overlap.
Minus(s, k) ==
  IF Meets(s, k)
  THEN {<<s[1], k[1] - 1>>, <<k[2] + 1, s[2]>>} \cap Spans
  ELSE {s}
Trimmed(s) ==
  LET left[I \in SUBSET Kept] ==
        IF I = {} THEN {s}
        ELSE UNION {Minus(p, rows[Max(I)].span) : p \in left[I \ {Max(I)}]}
  IN  left[Kept] \cap Spans

Blocks(heads, called) ==
  UNION {{[span |-> s, name |-> BlockName(Block(b, heads), b \in called)] :
            s \in Trimmed(<<b, Max(Block(b, heads))>>)} : b \in heads}

Consolidate ==
  /\ pass.phase = "blocks"
  /\ \E heads \in SUBSET Whole : \E called \in SUBSET heads :
       /\ 1 \in heads
       /\ pass' = [pass EXCEPT !.phase = "replace", !.tasks = {},
                               !.blocks = Blocks(heads, called)]
  /\ UNCHANGED <<store, cache, gen, outcome, seen, vetted>>

\* _carve_out_protected_spans, when the consolidation fails: the windows that
\* no kept row meets.
Clear == {[span |-> t.span, name |-> t.name] :
            t \in {u \in pass.tasks :
                     \A i \in Kept : ~Meets(u.span, rows[i].span)}}
CarveOut ==
  /\ pass.phase = "blocks"
  /\ pass' = [pass EXCEPT !.phase = "replace", !.tasks = {}, !.blocks = Clear]
  /\ UNCHANGED <<store, cache, gen, outcome, seen, vetted>>

\* replace_task_segments: every row of the agent's that the user left alone
\* goes, the blocks come in at 0, 1, ...; an index that is taken fails it all.
AgentRow(b) == [span |-> b.span, name |-> b.name, source |-> "agent",
                edited |-> FALSE]
Numbers(f, n) ==
  /\ \A b \in pass.blocks : \E i \in 0 .. n - 1 : f[i] = b
  /\ \A i, j \in 0 .. n - 1 :
       i < j => f[i] # f[j] /\ f[i].span[1] <= f[j].span[1]

\* Mutant: the user's edits of the agent's rows are replaced too.
Authored == {i \in DOMAIN rows : rows[i].source = "user"}
Survivors == Kept

Replace ==
  /\ pass.phase = "replace"
  /\ \E n \in 0 .. Base : \E f \in [0 .. n - 1 -> pass.blocks] :
       /\ Numbers(f, n)
       /\ IF Survivors \cap (0 .. n - 1) # {}
          THEN EndWith("failed") /\ UNCHANGED <<rows, vetted>>
          ELSE /\ rows' = [i \in Survivors \cup (0 .. n - 1) |->
                             IF i \in 0 .. n - 1 THEN AgentRow(f[i])
                                                ELSE rows[i]]
               /\ vetted' = IF pass.branch = "produced" THEN pass.vetted
                                                        ELSE {}
               /\ pass' = [NoPass EXCEPT !.phase = "record",
                             !.live = pass.live, !.key = pass.key,
                             !.branch = pass.branch]
               /\ UNCHANGED <<outcome, seen>>
  /\ UNCHANGED <<closed, live, gone, edits, cache, gen>>

Record ==
  /\ pass.phase = "record"
  /\ EndWith(pass.branch)
  /\ UNCHANGED <<store, cache, gen, vetted>>

\* The process that runs the pass is killed; the lock goes with it.
KillPass ==
  /\ ~Idle
  /\ pass' = NoPass
  /\ seen' = NoKey
  /\ UNCHANGED <<store, cache, gen, outcome, vetted>>

Next ==
  \/ CloseChunk \/ StopRecording \/ User \/ ScrubTarget \/ DeleteRange
  \/ StartPass \/ DigestWindow \/ ReadCommitted \/ NameWindow \/ SkipWindow
  \/ NoneNamed \/ Discard \/ HandOn \/ Consolidate \/ CarveOut \/ Replace
  \/ Record \/ KillPass

Spec == Init /\ [][Next]_vars

-----------------------------------------------------------------------------

TypeOK ==
  /\ StoreTypeOK
  /\ cache \subseteq Named
  /\ gen \in 0 .. MaxPurges
  /\ pass \in Passes
  /\ outcome \in Outcomes
  /\ seen \in Keys
  /\ vetted \subseteq Slots

\* No cached name was derived from evidence of its own span that has been
\* removed, whatever a pass was doing when the scrub came and wherever it was
\* killed: each write looks at the generation inside its transaction, each scrub
\* moves it inside the transaction that purges (pipeline_state.py:1662,
\* scrub_worker.py:138).  A purge finds names by their span, so of the switch
\* that a window inherited from before it this is not true.
CacheClean == \A e \in cache : e.name \cap Covers(e.span) \cap gone = {}

\* The same of all that a name was derived from, which the code does not keep.
CacheCleanWhole == \A e \in cache : e.name \cap gone = {}

\* The rows of a pass that named every window carry nothing of what had been
\* removed when the staleness guard let it through, be the evidence removed
\* while it digested, named, or waited for the model (finalize_window_names).
VettedNamesClean ==
  \A i \in DOMAIN rows \ Kept : rows[i].name \cap vetted = {}

\* What the user wrote or touched is not changed by a segmentation pass or by
\* a policy purge, at whatever moment the user wrote it: not even when the
\* pass computed its rows before (replace_task_segments, R8).
CurationStays ==
  [][edits' = edits /\ ~DeleteRange =>
       \A i \in Kept : i \in DOMAIN rows' /\ rows'[i] = rows[i]]_vars
=============================================================================
