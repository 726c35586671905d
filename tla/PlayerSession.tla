----------------------------- MODULE PlayerSession -----------------------------
(***************************************************************************)
(* What a player does between `/schem load` and a running paste: plugin.py  *)
(* keeps the loaded placement, hands it to a worker thread that builds the  *)
(* paste plan, and turns the plan into a job when the result comes back.    *)
(*                                                                          *)
(* Handlers run on the main thread, one at a time.  The executor's threads  *)
(* run the submitted operations; each finished one puts a callback on       *)
(* _completion_queue, and _tick calls these in order.  Between submission   *)
(* and callback the player may cancel, leave, come back and start again, so *)
(* a callback must find out whether it is still wanted.                     *)
(*                                                                          *)
(* A placement is named by the record store of its schematic, a paste       *)
(* request by the task that prepares it: the token of start_paste is a      *)
(* fresh object per task.  Record stores are closed explicitly, and a       *)
(* closed one cannot be read any more.                                      *)
(***************************************************************************)
EXTENDS Integers, Sequences, FiniteSets

CONSTANTS
    Players,
    MaxStores,   \* bound: record stores referenced at the same time
    MaxTasks,    \* bound: operations submitted and not yet answered
    Workers,     \* threads of the executor
    Poses,       \* dimension, anchor and rotation of a placement
    None         \* model value

Stores == 1 .. MaxStores
Tasks == 1 .. MaxTasks
Request == [token : Tasks, placement : Stores]
Job == [operation : {"paste"}, plan : Stores, pose : Poses, request : Tasks]
       \cup [operation : {"history"}, plan : {None}, pose : {None}, request : {None}]

ASSUME SessionAssumption ==
    /\ IsFiniteSet(Players) /\ Poses # {}
    /\ MaxStores \in Nat \ {0} /\ MaxTasks \in Nat \ {0} /\ Workers \in Nat \ {0}
    /\ None \notin Poses \cup Players \cup Nat \cup {"prepare", "load"} \cup Request \cup Job

VARIABLES
    stopping,    \* _stopping: on_disable ran
    online,      \* players server.get_player finds
    allowed,     \* players has_schematic_access accepts
    placements,  \* placements: player -> record store of the placement, or None
    preparing,   \* preparing_pastes: player -> (token, placement), or None
    saving,      \* players in save_jobs
    pasting,     \* paste_jobs: player -> job, or None
    pose,        \* record stores not closed: the pose of the placement or, for a plan, the
                 \* pose it was built for; None for a closed store
    task,        \* submitted operations, with what their closures captured and returned
    waiting,     \* the executor's work queue
    completions, \* _completion_queue
    withdrawn    \* auxiliary: requests their player cancelled or left since

tables == <<placements, preparing, saving, pasting>>
executor == <<task, waiting, completions>>
people == <<online, allowed>>
vars == <<stopping, people, tables, pose, executor, withdrawn>>

NoTask == [kind |-> None]
Submitted(t) == task[t].kind # None
Preparation == [kind : {"prepare"}, player : Players, schematic : Stores,
                state : {"queued", "running", "unreadable", "done", "failed"},
                result : Stores \cup {None}]
Loading == [kind : {"load"}, player : Players, schematic : {None},
            state : {"queued", "running", "done", "failed"}, result : Stores \cup {None}]
TypeOK ==
    /\ stopping \in BOOLEAN
    /\ online \subseteq Players /\ allowed \subseteq Players /\ saving \subseteq Players
    /\ placements \in [Players -> Stores \cup {None}]
    /\ preparing \in [Players -> Request \cup {None}]
    /\ pasting \in [Players -> Job \cup {None}]
    /\ pose \in [Stores -> Poses \cup {None}]
    /\ task \in [Tasks -> Preparation \cup Loading \cup {NoTask}]
    /\ waiting \in Seq(Tasks) /\ completions \in Seq(Tasks)
    /\ withdrawn \subseteq Tasks

Init ==
    /\ stopping = FALSE
    /\ online = Players /\ allowed = Players
    /\ placements = [p \in Players |-> None]
    /\ preparing = [p \in Players |-> None]
    /\ saving = {}
    /\ pasting = [p \in Players |-> None]
    /\ pose = [s \in Stores |-> None]
    /\ task = [t \in Tasks |-> NoTask]
    /\ waiting = <<>> /\ completions = <<>>
    /\ withdrawn = {}

\* A command or form of a player with access; on_disable ends them all.
Commands(p) == ~stopping /\ p \in online /\ p \in allowed

\* start_save, start_paste and start_history_action refuse a player who is busy.
Busy(p) == p \in saving \/ pasting[p] # None \/ preparing[p] # None

----------------------------------------------------------------------------
(* Record stores. *)

Referenced ==
    {placements[p] : p \in Players}
      \cup {pasting[p].plan : p \in {q \in Players : pasting[q] # None}}
      \cup {preparing[p].placement : p \in {q \in Players : preparing[q] # None}}
      \cup UNION {{task[t].schematic, task[t].result} : t \in {u \in Tasks : Submitted(u)}}
Open == {s \in Stores : pose[s] # None}
Unused == Stores \ (Referenced \cup Open)

\* A new RecordSource gets the lowest number nobody refers to any more.
AnyPose == CHOOSE q \in Poses : TRUE
NewStore == CHOOSE s \in Unused : \A u \in Unused : s <= u

Close(closed) == pose' = [s \in Stores |-> IF s \in closed THEN None ELSE pose[s]]

----------------------------------------------------------------------------
(* The worker bridge: _submit_worker and the executor's threads. *)

Submit(t, kind, p, schematic) ==
    /\ ~Submitted(t) /\ \A u \in Tasks : u < t => Submitted(u)
    /\ task' = [task EXCEPT ![t] = [kind |-> kind, player |-> p, schematic |-> schematic,
                                    state |-> "queued", result |-> None]]
    /\ waiting' = Append(waiting, t)

Running == {t \in Tasks : Submitted(t) /\ task[t].state \in {"running", "unreadable"}}

\* A free thread takes the next operation.  A preparation whose placement was closed
\* in the queue meets "record source is closed" at its first read.
StartTask ==
    /\ waiting # <<>> /\ Cardinality(Running) < Workers
    /\ LET t == Head(waiting)
           readable == task[t].kind = "load" \/ task[t].schematic \in Open
       IN task' = [task EXCEPT ![t].state = IF readable THEN "running" ELSE "unreadable"]
    /\ waiting' = Tail(waiting)
    /\ UNCHANGED <<stopping, people, tables, pose, completions, withdrawn>>

\* The operation returns a new record store: the decoded schematic, or the plan for the
\* pose the placement has.  One that was closed during the last read still succeeds.
TaskSucceeds(t) ==
    /\ Submitted(t) /\ task[t].state = "running"
    /\ Unused # {}
    /\ task' = [task EXCEPT ![t].state = "done", ![t].result = NewStore]
    /\ pose' = [pose EXCEPT ![NewStore] =
                  IF task[t].schematic \in Open THEN pose[task[t].schematic] ELSE AnyPose]
    /\ completions' = Append(completions, t)
    /\ UNCHANGED <<stopping, people, tables, waiting, withdrawn>>

\* It raises: a closed or damaged schematic, the database, the workspace limits.
TaskFails(t) ==
    /\ t \in Running
    /\ task' = [task EXCEPT ![t].state = "failed"]
    /\ completions' = Append(completions, t)
    /\ UNCHANGED <<stopping, people, tables, pose, waiting, withdrawn>>

----------------------------------------------------------------------------
(* Commands of a player. *)

\* request_load: any number of downloads may be under way.
RequestLoad(p) ==
    /\ Commands(p)
    /\ \E t \in Tasks : Submit(t, "load", p, None)
    /\ UNCHANGED <<stopping, people, tables, pose, completions, withdrawn>>

\* The placement commands and tools change the placement object itself.
MovePlacement(p) ==
    /\ Commands(p) /\ placements[p] # None
    /\ \E q \in Poses : q # pose[placements[p]] /\ pose' = [pose EXCEPT ![placements[p]] = q]
    /\ UNCHANGED <<stopping, people, tables, executor, withdrawn>>

\* start_paste takes the placement out of placements while the worker reads it.
StartPaste(p) ==
    /\ Commands(p) /\ ~Busy(p) /\ placements[p] # None
    /\ \E t \in Tasks :
         /\ Submit(t, "prepare", p, placements[p])
         /\ preparing' = [preparing EXCEPT ![p] = [token |-> t, placement |-> placements[p]]]
    /\ placements' = [placements EXCEPT ![p] = None]
    /\ UNCHANGED <<stopping, people, saving, pasting, pose, completions, withdrawn>>

StartSave(p) ==
    /\ Commands(p) /\ ~Busy(p)
    /\ saving' = saving \cup {p}
    /\ UNCHANGED <<stopping, people, placements, preparing, pasting, pose, executor, withdrawn>>

\* start_history_action: the plan belongs to the history entry, not to the job.
StartHistoryAction(p) ==
    /\ Commands(p) /\ ~Busy(p)
    /\ pasting' = [pasting EXCEPT ![p] =
                     [operation |-> "history", plan |-> None, pose |-> None, request |-> None]]
    /\ UNCHANGED <<stopping, people, placements, preparing, saving, pose, executor, withdrawn>>

\* Stores a player's placement, preparation and paste job own.
Placed(p) == {placements[p]} \ {None}
Pending(p) == IF preparing[p] = None THEN {} ELSE {preparing[p].placement}
Requested(p) == IF preparing[p] = None THEN {} ELSE {preparing[p].token}
Plan(p) == IF pasting[p] = None THEN {} ELSE {pasting[p].plan} \ {None}

\* cancel_placement
CancelPlacement(p) ==
    /\ ~stopping /\ p \in online /\ placements[p] # None
    /\ placements' = [placements EXCEPT ![p] = None]
    /\ Close(Placed(p))
    /\ UNCHANGED <<stopping, people, preparing, saving, pasting, executor, withdrawn>>

\* cancel_all: the job of whatever kind, the preparation and the placement.
CancelAll(p) ==
    /\ ~stopping /\ p \in online /\ (Busy(p) \/ placements[p] # None)
    /\ saving' = saving \ {p}
    /\ pasting' = [pasting EXCEPT ![p] = None]
    /\ preparing' = [preparing EXCEPT ![p] = None]
    /\ placements' = [placements EXCEPT ![p] = None]
    /\ Close(Placed(p) \cup Pending(p) \cup Plan(p))
    /\ withdrawn' = withdrawn \cup Requested(p)
    /\ UNCHANGED <<stopping, people, executor>>

----------------------------------------------------------------------------
(* The end of a wait: callbacks of _completion_queue, called by _tick. *)

\* A load replaces the placement if its player is there and still has access.
Loaded(t) ==
    LET p == task[t].player
    IN IF p \in online /\ p \in allowed
         THEN /\ placements' = [placements EXCEPT ![p] = task[t].result]
              /\ \E q \in Poses :
                   pose' = [s \in Stores |-> CASE s = task[t].result -> q
                                              [] s \in Placed(p) -> None
                                              [] OTHER -> pose[s]]
         ELSE /\ Close({task[t].result})
              /\ UNCHANGED placements

\* pending[0] is token: the request is the one the player is still waiting for.
NeverStale(t) == TRUE                                                 \* mutant
AnythingPending(t) == preparing[task[t].player] # None                \* mutant
StillWanted(t) == t \in Requested(task[t].player)

JobOfCleanedPlacement(t) ==                                           \* mutant
    [operation |-> "paste", plan |-> task[t].result, pose |-> None, request |-> t]
PasteJob(t) ==
    [operation |-> "paste", plan |-> task[t].result,
     pose |-> pose[task[t].schematic], request |-> t]

\* The plan becomes a job of the pose the placement has now; placement and token go.
Prepared(t) ==
    LET p == task[t].player
    IN IF StillWanted(t)
         THEN /\ preparing' = [preparing EXCEPT ![p] = None]
              /\ IF p \in online
                   THEN /\ pasting' = [pasting EXCEPT ![p] = PasteJob(t)]
                        /\ Close({task[t].schematic})
                   ELSE /\ Close({task[t].schematic, task[t].result})
                        /\ UNCHANGED pasting
         ELSE /\ Close({task[t].schematic, task[t].result})
              /\ UNCHANGED <<preparing, pasting>>

\* A failed preparation gives the placement back.  It overwrites one loaded meanwhile,
\* whose store the garbage collector closes (RecordSource.__del__).
NotPreparedStuck(t) ==                                                \* mutant
    LET p == task[t].player
    IN /\ IF StillWanted(t) /\ p \in online
            THEN /\ placements' = [placements EXCEPT ![p] = task[t].schematic]
                 /\ Close(Placed(p))
            ELSE /\ Close({task[t].schematic})
                 /\ UNCHANGED placements
       /\ UNCHANGED preparing
NotPrepared(t) ==
    LET p == task[t].player
    IN IF StillWanted(t)
         THEN /\ preparing' = [preparing EXCEPT ![p] = None]
              /\ IF p \in online
                   THEN /\ placements' = [placements EXCEPT ![p] = task[t].schematic]
                        /\ Close(Placed(p))
                   ELSE /\ Close({task[t].schematic})
                        /\ UNCHANGED placements
         ELSE /\ Close({task[t].schematic})
              /\ UNCHANGED <<preparing, placements>>

\* _tick runs the oldest callback, unless the plugin was disabled.
RunsCallbacks == ~stopping /\ completions # <<>>

Callback(kind, state) ==
    /\ RunsCallbacks
    /\ task[Head(completions)].kind = kind /\ task[Head(completions)].state = state
    /\ task' = [task EXCEPT ![Head(completions)] = NoTask]
    /\ completions' = Tail(completions)
    /\ withdrawn' = withdrawn \ {Head(completions)}
    /\ UNCHANGED <<stopping, people, waiting, saving>>

LoadSuccess ==
    /\ Callback("load", "done")
    /\ Loaded(Head(completions))
    /\ UNCHANGED <<preparing, pasting>>

\* The player is told; nothing else changes.
LoadFailure ==
    /\ Callback("load", "failed")
    /\ UNCHANGED <<placements, preparing, pasting, pose>>

PrepareSuccess ==
    /\ Callback("prepare", "done")
    /\ Prepared(Head(completions))
    /\ UNCHANGED placements

PrepareFailure ==
    /\ Callback("prepare", "failed")
    /\ NotPrepared(Head(completions))
    /\ UNCHANGED pasting

----------------------------------------------------------------------------
(* Everything else that happens to a player's tables. *)

\* A save or paste job ends; that of a paste closes its plan.
JobEnds(p) ==
    /\ ~stopping /\ (p \in saving \/ pasting[p] # None)
    /\ saving' = saving \ {p}
    /\ pasting' = [pasting EXCEPT ![p] = None]
    /\ Close(Plan(p))
    /\ UNCHANGED <<stopping, people, placements, preparing, executor, withdrawn>>

\* _refresh_active_previews: the preview was not refreshed for preview_duration ticks.
PreviewExpires(p) ==
    /\ ~stopping /\ placements[p] # None
    /\ placements' = [placements EXCEPT ![p] = None]
    /\ Close(Placed(p))
    /\ UNCHANGED <<stopping, people, preparing, saving, pasting, executor, withdrawn>>

\* handle_player_quit: placement and preparation go, running jobs stay.
QuitKeepingPreparation(p) ==                                          \* mutant
    /\ ~stopping /\ p \in online
    /\ online' = online \ {p}
    /\ placements' = [placements EXCEPT ![p] = None]
    /\ Close(Placed(p) \cup Pending(p))
    /\ withdrawn' = withdrawn \cup Requested(p)
    /\ UNCHANGED <<stopping, allowed, preparing, saving, pasting, executor>>
Quit(p) ==
    /\ ~stopping /\ p \in online
    /\ online' = online \ {p}
    /\ placements' = [placements EXCEPT ![p] = None]
    /\ preparing' = [preparing EXCEPT ![p] = None]
    /\ Close(Placed(p) \cup Pending(p))
    /\ withdrawn' = withdrawn \cup Requested(p)
    /\ UNCHANGED <<stopping, allowed, saving, pasting, executor>>

Join(p) ==
    /\ ~stopping /\ p \notin online
    /\ online' = online \cup {p}
    /\ UNCHANGED <<stopping, allowed, tables, pose, executor, withdrawn>>

\* The architect tag or operator status is given or taken.
AccessChanges(p) ==
    /\ ~stopping
    /\ allowed' = IF p \in allowed THEN allowed \ {p} ELSE allowed \cup {p}
    /\ UNCHANGED <<stopping, online, tables, pose, executor, withdrawn>>

\* on_disable: every table is emptied and its stores closed; queued operations are
\* cancelled, running ones are left to end, and nobody calls back any more.
Disable ==
    /\ ~stopping /\ stopping' = TRUE
    /\ placements' = [p \in Players |-> None]
    /\ preparing' = [p \in Players |-> None]
    /\ saving' = {}
    /\ pasting' = [p \in Players |-> None]
    /\ Close(UNION {Placed(p) \cup Pending(p) \cup Plan(p) : p \in Players})
    /\ task' = [t \in Tasks |-> IF t \in Running \/ ~Submitted(t) \/ task[t].state # "queued"
                                  THEN task[t]
                                  ELSE [task[t] EXCEPT !.state = "failed"]]
    /\ completions' = completions \o waiting
    /\ waiting' = <<>>
    /\ withdrawn' = withdrawn \cup UNION {Requested(p) : p \in Players}
    /\ UNCHANGED people

PlayerActs(p) ==
    \/ RequestLoad(p) \/ MovePlacement(p) \/ StartPaste(p) \/ StartSave(p)
    \/ StartHistoryAction(p) \/ CancelPlacement(p) \/ CancelAll(p)
Ticks ==
    \/ LoadSuccess \/ LoadFailure \/ PrepareSuccess \/ PrepareFailure
Next ==
    \/ \E p \in Players :
          \/ PlayerActs(p) \/ JobEnds(p) \/ PreviewExpires(p)
          \/ Quit(p) \/ Join(p) \/ AccessChanges(p)
    \/ StartTask \/ \E t \in Tasks : TaskSucceeds(t) \/ TaskFails(t)
    \/ Ticks
    \/ Disable

Spec == Init /\ [][Next]_vars

\* The server calls _tick every tick, and the operations a thread runs are finite.
FairSpec ==
    /\ Spec
    /\ WF_vars(StartTask) /\ WF_vars(Ticks)
    /\ \A t \in Tasks : WF_vars(TaskSucceeds(t) \/ TaskFails(t))

----------------------------------------------------------------------------
(* What a session promises. *)

\* No callback and no command closes a record store somebody still needs: the placement
\* on display, the one being prepared for a request that still counts, the plan of a
\* running paste (_cleanup_placement and _cleanup_plan at every exit).  And none has two
\* owners, so that closing it for one never takes it from another.
StoresOwned ==
    \A p, q \in Players :
      /\ Placed(p) \cup Pending(p) \cup Plan(p) \subseteq Open
      /\ Placed(p) \cap (Pending(q) \cup Plan(q)) = {} /\ Pending(p) \cap Plan(q) = {}
      /\ p # q => /\ Placed(p) \cap Placed(q) = {} /\ Pending(p) \cap Pending(q) = {}
                  /\ Plan(p) \cap Plan(q) = {}

\* A player has one activity at a time: a save, a paste, undo or redo, or a preparation
\* ("You already have an active schematic job."), also after late callbacks; and a job
\* reports the dimension, anchor and rotation its plan was built for, however the player
\* moves placements while the worker prepares (start_paste, PasteJob).  Once on_disable ran
\* there is none, and no late result brings a placement, preparation or job back.
OneActivity ==
    \A p \in Players : /\ p \in saving => pasting[p] = None /\ preparing[p] = None
                       /\ pasting[p] # None => preparing[p] = None
                       /\ Plan(p) # {} => pasting[p].pose = pose[pasting[p].plan]
                       /\ stopping => Placed(p) = {} /\ ~Busy(p)

\* A paste starts only for a request its player has not cancelled or left since: the
\* result of an older request never starts in its place (the token of start_paste).
OnlyWantedPastesStart ==
    [][\A p \in Players :
         pasting'[p] # pasting[p] /\ pasting'[p] # None /\ pasting'[p].operation = "paste"
           => pasting'[p].request \notin withdrawn]_vars

\* No player stays "preparing" for ever and so locked out of every other job.
PreparationEnds == 
    \A p \in Players : (preparing[p] # None) ~> (preparing[p] = None)
=============================================================================
