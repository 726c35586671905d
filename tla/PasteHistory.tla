---------------------------- MODULE PasteHistory ----------------------------
(***************************************************************************)
(* The paste, undo and redo jobs of one player in plugin.py and the history *)
(* they leave: _process_paste_jobs writes a plan into the world record by   *)
(* record, a paste captures what it changes, and its end, whether it        *)
(* completes, fails or is cancelled, turns the capture into an entry of the *)
(* undo stack.  Undo and redo jobs write an entry's before or after plan    *)
(* and move the entry between the stacks.                                   *)
(*                                                                          *)
(* A visit writes one record: what _paste_batch does in a tick whose time   *)
(* or change budget is spent.  A larger batch is a run of such visits with  *)
(* nothing in between.  Whether a visit gets through the chunk gate is      *)
(* ChunkGate's subject: here the gate lets the job pass, makes it wait (a   *)
(* visit that changes nothing) or fails it.                                 *)
(*                                                                          *)
(* A block's value stands for its type, its states and its block entity,    *)
(* its shape for type and states.  A record wants a block, if the plan holds *)
(* a block entity for it (an undo plan always does, of a block that has one) *)
(* and a shape if not; a type alone, where the server's registry does not   *)
(* know the states; or a type of which there is no block, where it does not *)
(* know the type either (a custom block of a missing add-on).               *)
(***************************************************************************)
EXTENDS Integers, Sequences, FiniteSets

CONSTANTS
    Positions, Blocks,
    Shapes, ShapeOf, \* types with their states; the shape of each block
    Types, TypeOf,   \* block types, known to the registry or not; of each block and shape
    Plans,           \* loaded schematics as sequences of [at |-> position, to |-> what is wanted]
    MaxOperations,   \* history.max_operations_per_player
    MaxTotalBlocks,  \* history.max_total_blocks_per_player
    Configs,         \* the other settings a paste depends on, see Settings
    LateErrors,      \* a write may take effect and the call after it raise
    NoJob

\* One storage stands for an entry's pair of before and after record buffers.
Storages == 1 .. (MaxOperations + 1)
NoStorage == 0

Changes == [at : Positions, before : Blocks, after : Blocks]
Entries == [storage : Storages, changes : Seq(Changes)]
Wanted == Blocks \cup Shapes \cup Types
Records == [at : Positions, to : Wanted]
Operations == {"paste", "undo", "redo"}
Jobs == [op : Operations, plan : Seq(Records), cursor : Nat, failed : Nat,
         missing : Nat, adapted : Nat, loose : SUBSET Types, capturing : BOOLEAN,
         changes : Seq(Changes), storage : Storages \cup {NoStorage}, start : [Positions -> Blocks]]

\* max_paste_failures, missing_block_policy ("air" and "fallback" substitute a type),
\* verify_paste_writes, blockdata.strict_restore, skip_unchanged_blocks,
\* history.max_blocks_per_operation, and whether the block entities of a history may
\* exceed blockdata.max_uncompressed_mb.
Settings == [maxFailures : Nat, policy : {"skip", "abort", "substitute"}, substitute : Types,
             verify : BOOLEAN, strict : BOOLEAN, skipUnchanged : BOOLEAN,
             maxPerOperation : Nat \ {0}, overflows : BOOLEAN]

ASSUME HistoryAssumption ==
    /\ ShapeOf \in [Blocks -> Shapes] /\ TypeOf \in [Blocks \cup Shapes -> Types]
    /\ \A b \in Blocks : TypeOf[ShapeOf[b]] = TypeOf[b]
    /\ \A s \in Shapes : \E b \in Blocks : ShapeOf[b] = s
    /\ Blocks \cap Shapes = {} /\ (Blocks \cup Shapes) \cap Types = {}
    /\ Configs \subseteq Settings
    /\ \A plan \in Plans :
         /\ plan \in Seq(Records)
         /\ Len(plan) > 0
         /\ \A k, l \in DOMAIN plan : plan[k].at = plan[l].at => k = l
    /\ MaxOperations \in Nat \ {0}
    /\ MaxTotalBlocks \in Nat \ {0}
    /\ LateErrors \in BOOLEAN
    /\ NoJob \notin Jobs

VARIABLES
    world,       \* the blocks at Positions
    config,      \* what on_enable read from the configuration
    job,         \* the player's PasteJob, or NoJob
    undo, redo,  \* the player's undo_history and redo_history, newest entry last
    open,        \* the record storages that are allocated and not yet closed
    last,        \* auxiliary: how the last job ended, and the world it started from
    intact       \* auxiliary: since the process started, every change is in the history

vars == <<world, config, job, undo, redo, open, last, intact>>

TypeOK ==
    /\ world \in [Positions -> Blocks]
    /\ config \in Configs
    /\ job \in Jobs \cup {NoJob}
    /\ job # NoJob => job.cursor < Len(job.plan)
    /\ undo \in Seq(Entries) /\ redo \in Seq(Entries)
    /\ open \subseteq Storages
    /\ last \in [job : Jobs, how : {"completed", "failed"}] \cup {NoJob}
    /\ intact \in BOOLEAN

Init ==
    /\ world \in [Positions -> Blocks]
    /\ config \in Configs
    /\ job = NoJob
    /\ undo = <<>> /\ redo = <<>>
    /\ open = {}
    /\ last = NoJob
    /\ intact = TRUE

----------------------------------------------------------------------------
(* Starting a job: start_paste's completion and start_history_action. *)

FreeStorage == CHOOSE s \in Storages \ open : TRUE

\* A plan larger than the per-operation limit is pasted without history.
StartPaste(plan) ==
    LET captures == Len(plan) <= config.maxPerOperation
        storage == IF captures THEN FreeStorage ELSE NoStorage
    IN /\ job = NoJob
       /\ captures => open # Storages
       /\ job' = [op |-> "paste", plan |-> plan, cursor |-> 0, failed |-> 0,
                  missing |-> 0, adapted |-> 0, loose |-> {},
                  capturing |-> captures, changes |-> <<>>, storage |-> storage,
                  start |-> world]
       /\ open' = IF captures THEN open \cup {storage} ELSE open
       /\ last' = NoJob
       /\ UNCHANGED <<world, config, undo, redo, intact>>

BeforePlan(e) == [k \in DOMAIN e.changes |-> [at |-> e.changes[k].at, to |-> e.changes[k].before]]
AfterPlan(e) == [k \in DOMAIN e.changes |-> [at |-> e.changes[k].at, to |-> e.changes[k].after]]

Top(stack) == stack[Len(stack)]
Popped(stack) == SubSeq(stack, 1, Len(stack) - 1)

\* The entry stays on its stack while the job runs.
StartHistoryAction(op, stack, plan) ==
    /\ job = NoJob /\ stack # <<>>
    /\ job' = [op |-> op, plan |-> plan, cursor |-> 0, failed |-> 0,
               missing |-> 0, adapted |-> 0, loose |-> {}, capturing |-> FALSE,
               changes |-> <<>>, storage |-> Top(stack).storage, start |-> world]
    /\ last' = NoJob
    /\ UNCHANGED <<world, config, undo, redo, open, intact>>

StartUndo == StartHistoryAction("undo", undo, BeforePlan(Top(undo)))
StartRedo == StartHistoryAction("redo", redo, AfterPlan(Top(redo)))

----------------------------------------------------------------------------
(* One record of _paste_batch. *)

\* placed + 1 or skipped + 1; failed + 1
Written(j) == [j EXCEPT !.cursor = @ + 1]
Failed(j) == [j EXCEPT !.cursor = @ + 1, !.failed = @ + 1]

\* _record_missing_block; state_fallbacks + 1 or block_entity_failures + 1.
Missed(j) == [j EXCEPT !.missing = @ + 1]
Adapted(j) == [j EXCEPT !.adapted = @ + 1]

\* set_data raised and set_type was called instead: the palette entry is wanted by its
\* type from now on.  (Entries are told apart by their types, see Targets.)
LoosenedUncounted(j, type) == [j EXCEPT !.loose = @ \cup {type}]      \* mutant
Loosened(j, type) == [Adapted(j) EXCEPT !.loose = @ \cup {type}]

\* _disable_history_capture
WithoutHistory(j) ==
    [j EXCEPT !.capturing = FALSE, !.changes = <<>>, !.storage = NoStorage]

\* _capture_history_change, called when the block changed.
CaptureOnlySuccess(j, at, before, after) ==                           \* mutant
    IF ~j.capturing \/ before = after \/ j.failed > 0
      THEN {j}
      ELSE {[j EXCEPT !.changes = Append(@, [at |-> at, before |-> before, after |-> after])]}
           \cup IF config.overflows THEN {WithoutHistory(j)} ELSE {}
Capture(j, at, before, after) ==
    IF ~j.capturing \/ before = after
      THEN {j}
      ELSE {[j EXCEPT !.changes = Append(@, [at |-> at, before |-> before, after |-> after])]}
           \cup IF config.overflows THEN {WithoutHistory(j)} ELSE {}

Result(j, w) == [job |-> j, world |-> w]

\* _paste_block_matches and the comparison of the block entity, if one is wanted.
Matching(w) == {b \in Blocks : w \in {b, ShapeOf[b], TypeOf[b]}}
TypeOnly(w) == IF w \in Types THEN w ELSE TypeOf[w]

\* _resolve_palette_entry: what the record asks for, or its type alone if the palette
\* entry has been loosened; of two entries of one type, either may be the loosened one.
Targets(j, w) == IF TypeOnly(w) \in j.loose THEN {w, TypeOnly(w)} ELSE {w}

\* The write is verified or not: placed, unless a verified write must match.  A failure
\* may as well come from the block entity or an exception.
Ends(j, verified) == {Failed(j)} \cup IF verified \/ ~config.verify THEN {Written(j)} ELSE {}

\* The job after a write for w that left block b: of a substitute, by type only, exactly
\* as wanted, by type because set_data raised, or in shape without its block entity.
Counted(j, w) == IF Matching(w) = {} THEN Missed(j) ELSE IF w \in Types THEN Adapted(j) ELSE j
AfterWrite(j, w, b) ==
    IF Matching(w) = {} THEN Ends(Counted(j, w), b \in Matching(config.substitute))
    ELSE IF w \in Types THEN Ends(Counted(j, w), b \in Matching(w))
    ELSE Ends(j, b \in Matching(w))
         \cup Ends(Loosened(j, TypeOf[w]), b \in Matching(TypeOf[w]))
         \cup IF w \in Blocks /\ ~config.strict /\ ShapeOf[b] = ShapeOf[w]
                THEN {Written(Adapted(j))} ELSE {}

\* The block is written and read back.  With a late error the written block is a failure
\* that is not captured.
WriteResults(j, at, w) ==
    LET put(b) == [world EXCEPT ![at] = b]
    IN (UNION {UNION {{Result(k, put(b)) : k \in Capture(n, at, world[at], b)} :
                        n \in AfterWrite(j, w, b)} : b \in Blocks})
       \cup IF LateErrors THEN {Result(Failed(Counted(j, w)), put(b)) : b \in Blocks} ELSE {}

\* A type the registry does not know is skipped, fails the record or is replaced; a block
\* that is there already is passed over (skip_unchanged_blocks), in any state when only
\* the type is wanted and maybe no block entity with it; everything else is written.
TargetResults(j, at, w) ==
    LET missing == Matching(w) = {}
        desired == IF missing THEN config.substitute ELSE w
        refused == config.policy = "abort" \/ Matching(desired) = {}
        passed == {Result(Written(IF missing THEN Missed(j) ELSE j), world)}
        same == config.skipUnchanged /\ world[at] \in Matching(desired)
    IN IF missing /\ config.policy = "skip" THEN passed
       ELSE IF missing /\ refused THEN {Result(Failed(Missed(j)), world)}
       ELSE IF same /\ desired \notin Types THEN passed
       ELSE WriteResults(j, at, w) \cup IF same THEN passed ELSE {}

\* Any call before the write may raise, which is a failure of the record.
RecordResults(j) ==
    LET r == j.plan[j.cursor + 1]
    IN (UNION {TargetResults(j, r.at, w) : w \in Targets(j, r.to)})
       \cup {Result(Failed(j), world)}

----------------------------------------------------------------------------
(* The end of a job. *)

BlockCount(stack) ==
    LET sum[k \in 0 .. Len(stack)] == IF k = 0 THEN 0 ELSE sum[k - 1] + Len(stack[k].changes)
    IN sum[Len(stack)]

\* The eviction loops of _push_undo_history: the oldest entries go.
Overfull(stack) ==
    \/ Len(stack) > MaxOperations
    \/ BlockCount(stack) > MaxTotalBlocks /\ Len(stack) > 1
NewestFitting(stack) ==
    LET suffixes == {SubSeq(stack, k, Len(stack)) : k \in 1 .. Len(stack)}
    IN CHOOSE s \in suffixes :
         ~Overfull(s) /\ \A t \in suffixes : Len(t) > Len(s) => Overfull(t)

StoragesOf(stack) == {stack[k].storage : k \in DOMAIN stack}

HasHistory(j) == j.capturing /\ j.changes # <<>>

\* _history_entry_from_job and _push_undo_history(clear_redo=True), or the buffers of a
\* job without history are closed.
LeakEvicted(j) ==                                                     \* mutant
    IF HasHistory(j)
      THEN LET pushed == Append(undo, [storage |-> j.storage, changes |-> j.changes])
           IN /\ undo' = NewestFitting(pushed)
              /\ redo' = <<>>
              /\ open' = open \ StoragesOf(redo)
      ELSE /\ open' = open \ {job.storage}
           /\ UNCHANGED <<undo, redo>>
KeepHistory(j) ==
    IF HasHistory(j)
      THEN LET pushed == Append(undo, [storage |-> j.storage, changes |-> j.changes])
           IN /\ undo' = NewestFitting(pushed)
              /\ redo' = <<>>
              /\ open' = open \ ((StoragesOf(pushed) \ StoragesOf(undo')) \cup StoragesOf(redo))
      ELSE /\ open' = open \ {job.storage}
           /\ UNCHANGED <<undo, redo>>

\* _complete_paste_job: an undone entry becomes redoable and the other way round.
CompletePaste(j) == j.op = "paste" /\ KeepHistory(j)

CompleteUndo(j) ==
    /\ j.op = "undo"
    /\ undo' = Popped(undo)
    /\ redo' = Append(redo, Top(undo))
    /\ UNCHANGED open

CompleteRedo(j) ==
    LET pushed == Append(undo, Top(redo))
    IN /\ j.op = "redo"
       /\ redo' = Popped(redo)
       /\ undo' = NewestFitting(pushed)
       /\ open' = open \ (StoragesOf(pushed) \ StoragesOf(undo'))

\* _fail_paste_job and cancel_player_jobs: a paste keeps the history of what it changed, a
\* failed undo or redo leaves its entry where it is, to be tried again.
FailPoppingEntry(j) ==                                                \* mutant
    IF j.op = "paste"
      THEN KeepHistory(j)
      ELSE /\ open' = open \ {j.storage}
           /\ undo' = IF j.op = "undo" THEN Popped(undo) ELSE undo
           /\ redo' = IF j.op = "redo" THEN Popped(redo) ELSE redo
Stop(j) ==
    IF j.op = "paste" THEN KeepHistory(j) ELSE UNCHANGED <<undo, redo, open>>

----------------------------------------------------------------------------
(* Auxiliary: what an entry says about the world. *)

Rewound(w, e) ==
    [p \in Positions |->
       IF \E k \in DOMAIN e.changes : e.changes[k].at = p
         THEN LET k == CHOOSE k \in DOMAIN e.changes : e.changes[k].at = p
              IN e.changes[k].before
         ELSE w[p]]
Reapplied(w, e) ==
    [p \in Positions |->
       IF \E k \in DOMAIN e.changes : e.changes[k].at = p
         THEN LET k == CHOOSE k \in DOMAIN e.changes : e.changes[k].at = p
              IN e.changes[k].after
         ELSE w[p]]

\* The end of job j in world w leaves the history telling the whole story.
TellsAll(j, how, w) ==
    CASE j.op = "paste" -> w = j.start \/ (HasHistory(j) /\ Rewound(w, [changes |-> j.changes]) = j.start)
      [] j.op = "undo" -> w = (IF how = "completed" THEN Rewound(j.start, Top(undo)) ELSE j.start)
      [] j.op = "redo" -> w = (IF how = "completed" THEN Reapplied(j.start, Top(redo)) ELSE j.start)

----------------------------------------------------------------------------
(* The steps of a job. *)

\* The job ends as j, after world' and the stacks are settled.
Ended(j, how) ==
    /\ job' = NoJob
    /\ last' = [job |-> j, how |-> how]
    /\ intact' = (intact /\ TellsAll(j, how, world'))

\* Every record is processed: cursor >= plan.block_count.
DoneOneTooLate(j) == j.cursor > Len(j.plan)                           \* mutant
Done(j) == j.cursor >= Len(j.plan)

\* One visit of _process_paste_jobs behind the gate.  lost: the chunk is not resident
\* after the write, which fails the job even on its last record.
Visit ==
    /\ job # NoJob
    /\ \E r \in RecordResults(job), lost \in BOOLEAN :
         LET j == r.job
             fails == lost \/ j.failed > config.maxFailures
         IN /\ world' = r.world
            /\ \/ fails /\ Stop(j) /\ Ended(j, "failed")
               \/ /\ ~fails /\ Done(j)
                  /\ CompletePaste(j) \/ CompleteUndo(j) \/ CompleteRedo(j)
                  /\ Ended(j, "completed")
               \/ /\ ~fails /\ ~Done(j)
                  /\ job' = j
                  /\ open' = open \ ({job.storage} \ {j.storage})
                  /\ UNCHANGED <<undo, redo, last, intact>>
    /\ UNCHANGED config

\* _ensure_job_chunk finds the chunk lost between two records of it: the job is not
\* resumed behind the gate, it fails.  (Every plan here lies in one chunk.)
LoseChunk ==
    /\ job # NoJob /\ job.cursor > 0
    /\ UNCHANGED <<world, config>>
    /\ Stop(job)
    /\ Ended(job, "failed")

\* The chunk never loads, access is revoked, the dimension is gone, the player cancels.
Abort ==
    /\ job # NoJob
    /\ UNCHANGED <<world, config>>
    /\ Stop(job)
    /\ Ended(job, "failed")

\* on_disable: history lives in memory only.
Restart ==
    /\ job' = NoJob /\ undo' = <<>> /\ redo' = <<>>
    /\ open' = open \ (StoragesOf(undo) \cup StoragesOf(redo)
                         \cup IF job = NoJob THEN {} ELSE {job.storage})
    /\ last' = NoJob
    /\ intact' = TRUE
    /\ UNCHANGED <<world, config>>

Next ==
    \/ \E plan \in Plans : StartPaste(plan)
    \/ StartUndo \/ StartRedo
    \/ Visit \/ LoseChunk \/ Abort \/ Restart

Spec == Init /\ [][Next]_vars

----------------------------------------------------------------------------
(* What the history promises. *)

\* However a paste that kept its history ended, undoing the entry on top of the stack
\* gives back the very world the paste started from: every change was captured, with its
\* first value, and nothing else was ("retains available undo history").
PasteIsUndoable ==
    last # NoJob => LET j == last.job IN
      (j.op = "paste" /\ j.capturing /\ world # j.start) =>
        /\ undo # <<>>
        /\ Rewound(world, Top(undo)) = j.start
        /\ Reapplied(j.start, Top(undo)) = world

\* What a job owns up to when it completes: failures, records of unknown types, records
\* written in default states or without their block entity (_complete_paste_job).
Reported(j) == j.failed + j.missing + j.adapted

\* The records whose position does not even hold a block of the wanted type.
WrongTypes(j, w) ==
    {k \in 1 .. j.cursor : w[j.plan[k].at] \notin Matching(TypeOnly(j.plan[k].to))}

\* With verify_paste_writes a completed job has every record of its plan in the world, or
\* owns up to it: no more blocks of a wrong type than it counts failed or unavailable,
\* and, when it counts nothing, not one that differs from the plan.  So no record is
\* skipped, repeated, overwritten by another or let through in silence, whatever the
\* missing-block policy, the strictness about block entities and the states that had
\* to be given up.
CompletedPlanIsInWorld ==
    last # NoJob => LET j == last.job IN
      (last.how = "completed" /\ config.verify) =>
        /\ Cardinality(WrongTypes(j, world)) <= j.failed + j.missing
        /\ Reported(j) = 0 =>
             \A k \in DOMAIN j.plan : world[j.plan[k].at] \in Matching(j.plan[k].to)

\* The worlds the stacks lead back and forth to, oldest undo first.
Past == LET w[k \in 1 .. (Len(undo) + 1)] ==
              IF k > Len(undo) THEN world ELSE Rewound(w[k + 1], undo[k])
        IN w
Future == LET w[k \in 1 .. (Len(redo) + 1)] ==
                IF k > Len(redo) THEN world ELSE Reapplied(w[k + 1], redo[k])
          IN w

\* Between jobs, as long as no change went unrecorded, the two stacks are one timeline
\* through the present world: each undo finds what its job left, each redo finds what
\* its undo left, so undo and redo are exact inverses all the way in both directions.
HistoryIsTimeline ==
    (intact /\ job = NoJob) =>
      /\ \A k \in DOMAIN undo : Reapplied(Past[k], undo[k]) = Past[k + 1]
      /\ \A k \in DOMAIN redo : Rewound(Future[k], redo[k]) = Future[k + 1]

\* The limits hold for both stacks together, so that a redo never evicts an entry: at most
\* MaxOperations entries, and MaxTotalBlocks changes unless a single entry is left.  The
\* open storages are those of the entries on the stacks and of the running paste: none
\* leaks, none is closed while a stack or a running undo still reads it, none is shared.
HistoryAccounted ==
    /\ Len(undo) + Len(redo) <= MaxOperations
    /\ \/ BlockCount(undo) + BlockCount(redo) <= MaxTotalBlocks
       \/ Len(undo) + Len(redo) <= 1
    /\ open = StoragesOf(undo) \cup StoragesOf(redo)
              \cup IF job = NoJob THEN {} ELSE {job.storage} \ {NoStorage}
    /\ Cardinality(StoragesOf(undo) \cup StoragesOf(redo)) = Len(undo) + Len(redo)
    /\ (job # NoJob /\ job.op = "paste") =>
         job.storage \notin StoragesOf(undo) \cup StoragesOf(redo)
=============================================================================
