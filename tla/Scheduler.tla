------------------------------- MODULE Scheduler -------------------------------
(***************************************************************************)
(* _process_paste_jobs of plugin.py: once per tick it visits the paste,     *)
(* undo and redo jobs of all players in turn until a budget or the time is  *)
(* used up, and goes on with the next player in the next tick.              *)
(* _process_save_jobs visits the save jobs before it in the same way; of it *)
(* only the chunk requests it takes from the tick matter here.  Before both *)
(* PastePacer looks at the time since the tick before.                      *)
(*                                                                          *)
(* One visit of the loop is one action.  Commands and callbacks change the  *)
(* jobs between ticks only: all of it happens on the main thread.           *)
(***************************************************************************)
EXTENDS Pacing, SequencesExt

CONSTANTS
    Players,
    RequestsPerTick,  \* chunk_loads_per_tick
    SaveRequests,     \* requests the save loop may take from a tick
    MaxRange,         \* bound: records in one chunk of a plan
    None              \* model value

ASSUME SchedulerAssumption ==
    /\ IsFiniteSet(Players) /\ None \notin Players
    /\ RequestsPerTick \in Nat \ {0} /\ MaxRange \in Nat \ {0}
    /\ SaveRequests \subseteq 0 .. RequestsPerTick

VARIABLES
    order,      \* the keys of paste_jobs, oldest first
    chunk,      \* a job's chunk: "none", "loading" or "ready"
    left,       \* records a job has left in its chunk
    next,       \* _paste_next_player
    keys,       \* the players of this tick's loop, empty outside the loop
    index,      \* how many of them have been visited
    remaining, changes, \* what is left of this tick's budgets, 0 outside the loop
    limit,      \* auxiliary: this tick's change limit
    requests,   \* _chunk_requests_used
    pacer       \* _paste_pacer, or None without paste_adaptive_pacing

jobVars == <<order, chunk, left>>
tickVars == <<next, keys, index, remaining, changes, limit, requests, pacer>>
vars == <<jobVars, tickVars>>

Active == ToSet(order)
Ticking == keys # <<>>
JobsLeft == Len(keys) - index

TypeOK ==
    /\ order \in Seq(Players) /\ IsInjective(order)
    /\ chunk \in [Players -> {"none", "loading", "ready"}]
    /\ left \in [Players -> 0 .. MaxRange]
    /\ \A p \in Players : left[p] > 0 <=> p \in Active
    /\ next \in Players \cup {None}
    /\ keys \in Seq(Players) /\ IsInjective(keys) /\ index \in 0 .. Len(keys)
    /\ remaining \in 0 .. Budget /\ requests \in 0 .. RequestsPerTick
    /\ limit \in 0 .. ChangeBudget /\ changes \in 0 .. limit
    /\ pacer \in Pacers \cup {None}

Init ==
    /\ order = <<>>
    /\ chunk = [p \in Players |-> "none"] /\ left = [p \in Players |-> 0]
    /\ next = None /\ keys = <<>> /\ index = 0
    /\ remaining = 0 /\ limit = 0 /\ changes = 0 /\ requests = 0
    /\ pacer \in {NewPacer, None}

----------------------------------------------------------------------------
(* Between two ticks. *)

StartJob(p) ==
    /\ ~Ticking /\ p \notin Active
    /\ order' = Append(order, p)
    /\ chunk' = [chunk EXCEPT ![p] = "none"]
    /\ \E n \in 1 .. MaxRange : left' = [left EXCEPT ![p] = n]
    /\ UNCHANGED tickVars

\* Where a player who has a job stands in the order.
Place(p) == CHOOSE i \in DOMAIN order : order[i] = p

\* The job of p ends, in whatever way.
Ends(p) ==
    /\ order' = RemoveAt(order, Place(p))
    /\ chunk' = [chunk EXCEPT ![p] = "none"]
    /\ left' = [left EXCEPT ![p] = 0]

CancelJob(p) ==
    /\ ~Ticking /\ p \in Active
    /\ Ends(p)
    /\ UNCHANGED tickVars

\* The loop starts with the remembered player if that one still has a job.
FromOldest == order                                                   \* mutant
Rotated ==
    IF next \in Active
      THEN SubSeq(order, Place(next), Len(order)) \o SubSeq(order, 1, Place(next) - 1)
      ELSE order

\* What _tick does before the loops, with a pacer or without.
Paced(active) ==
    IF pacer = None THEN {None}
    ELSE {Observed(pacer, interval, active) : interval \in Intervals}

\* _current_paste_change_limit
ChangeLimit(p) == IF p = None THEN ChangeBudget ELSE Min({ChangeBudget, p.limit})

\* A new tick: fresh budgets, and the requests the save loop took from it.
BeginTick ==
    /\ ~Ticking /\ order # <<>>
    /\ pacer' \in Paced(TRUE)
    /\ keys' = Rotated /\ index' = 0
    /\ remaining' = Budget
    /\ limit' = ChangeLimit(pacer') /\ changes' = limit'
    /\ requests' \in SaveRequests
    /\ UNCHANGED <<jobVars, next>>

\* A tick in which nobody pastes.
IdleTick ==
    /\ ~Ticking /\ order = <<>>
    /\ pacer' \in Paced(FALSE)
    /\ UNCHANGED <<jobVars, next, keys, index, remaining, changes, limit, requests>>

----------------------------------------------------------------------------
(* One visit of the loop. *)

Visiting(p) ==
    /\ index < Len(keys) /\ p = keys[index + 1]
    /\ remaining > 0 /\ changes > 0

\* _paste_next_player is set before the job is looked at, so a slow job goes behind.
Leave ==
    /\ index' = index + 1
    /\ next' = keys[((index + 1) % Len(keys)) + 1]
    /\ UNCHANGED <<keys, limit, pacer>>

\* The records and changes a job may use of what is left, with the jobs still to come.
WholeRest(rest) == rest                                               \* mutant
Share(rest) == Max({1, rest \div JobsLeft})

Wanted(p) == Min({left[p], Share(remaining)})

SpendRecords(n, c) ==                                                 \* mutant
    /\ remaining' = remaining - n
    /\ changes' = changes - n
Spend(n, c) ==
    /\ remaining' = remaining - n
    /\ changes' = changes - c

\* Access revoked, dimension gone, chunk refused or lost, a write that failed: the job
\* ends, and what it has spent stays spent.  The change that failed is one of them.
VisitFails(p) ==
    /\ Visiting(p) /\ Leave
    /\ Ends(p)
    /\ \E n \in 0 .. Wanted(p), c \in 0 .. Share(changes) :
         c <= n + 1 /\ Spend(n, c)
    /\ requests' \in requests .. (IF chunk[p] = "none" THEN Min({requests + 1, RequestsPerTick})
                                                       ELSE requests)

\* One more of the tick's requests.
TakeRequest == requests < RequestsPerTick /\ requests' = requests + 1

\* The job waits without a hold: the tick's requests are used up, or the request was spent
\* before it turned out that no ticking area is free.
RequestRefused(p) ==
    /\ Visiting(p) /\ Leave
    /\ chunk[p] = "none"
    /\ \/ requests = RequestsPerTick /\ UNCHANGED requests
       \/ TakeRequest
    /\ UNCHANGED <<jobVars, remaining, changes>>

\* A hold for one of the tick's requests, or for none: another job holds the chunk already,
\* or auto_load_missing_chunks is off and the job looks at the chunk only.
Granted(p) ==
    /\ chunk[p] = "none"
    /\ TakeRequest \/ UNCHANGED requests

\* The chunk is not there yet.
RequestGranted(p) ==
    /\ Visiting(p) /\ Leave
    /\ Granted(p)
    /\ chunk' = [chunk EXCEPT ![p] = "loading"]
    /\ UNCHANGED <<order, left, remaining, changes>>

\* Still loading or stabilising.
ChunkNotReady(p) ==
    /\ Visiting(p) /\ Leave
    /\ chunk[p] = "loading"
    /\ UNCHANGED <<jobVars, remaining, changes, requests>>

\* _paste_batch: n records with c changes among them, at most the shares.  Time may end a
\* batch, but not before one record.  Then follows the rest of the range, the next one or
\* the end of the job.  A chunk that was loaded anyway is ready in the visit that asks.
VisitPlaces(p) ==
    /\ Visiting(p) /\ Leave
    /\ \/ chunk[p] # "none" /\ UNCHANGED requests
       \/ Granted(p)
    /\ \E n \in 1 .. Wanted(p), c \in 0 .. Share(changes) :
         /\ c <= n /\ Spend(n, c)
         /\ IF n < left[p]
              THEN /\ left' = [left EXCEPT ![p] = @ - n]
                   /\ chunk' = [chunk EXCEPT ![p] = "ready"]
                   /\ UNCHANGED order
              ELSE \/ Ends(p)
                   \/ /\ \E more \in 1 .. MaxRange : left' = [left EXCEPT ![p] = more]
                      /\ chunk' = [chunk EXCEPT ![p] = "none"]
                      /\ UNCHANGED order

\* The loop ends: all visited, a budget spent, or the time over.  The first visit of a
\* tick always takes place, its deadline was set just before.
EndTick ==
    /\ Ticking /\ index > 0
    /\ keys' = <<>> /\ index' = 0
    /\ remaining' = 0 /\ changes' = 0 /\ limit' = 0 /\ requests' = 0
    /\ UNCHANGED <<jobVars, next, pacer>>

Visit(p) ==
    \/ VisitFails(p) \/ RequestRefused(p) \/ RequestGranted(p)
    \/ ChunkNotReady(p) \/ VisitPlaces(p)

Loop == BeginTick \/ IdleTick \/ EndTick \/ \E p \in Players : Visit(p)

Next ==
    \/ \E p \in Players : StartJob(p) \/ CancelJob(p)
    \/ Loop

Spec == Init /\ [][Next]_vars

\* The server calls _tick every tick.
FairSpec == Spec /\ WF_vars(Loop)

----------------------------------------------------------------------------
(* What the loop promises. *)

\* "Give every active job a fair share": at every visit there is as much left as an equal
\* part of both budgets for the job and for each one still to come, however much the jobs
\* before it used, or failed with.
FairShare ==
    Ticking =>
      /\ remaining >= JobsLeft * (Budget \div Len(keys))
      /\ changes >= JobsLeft * (limit \div Len(keys))
      /\ JobsLeft > 0 /\ remaining > 0 => Share(remaining) >= Budget \div Len(keys)
      /\ JobsLeft > 0 /\ changes > 0 => Share(changes) >= limit \div Len(keys)

\* Every job that does not end is visited again and again although jobs before it in line
\* are slow, end or are cancelled ("rotate scheduling after a slow job to prevent
\* starvation"), unless players start new jobs for ever: one who starts anew while
\* _paste_next_player names them draws the loop past those who wait.
EveryJobVisited ==
    <>[][\A q \in Players : ~StartJob(q)]_vars =>
      \A p \in Players : <>[](p \in Active) => []<><<Visit(p)>>_vars
=============================================================================
