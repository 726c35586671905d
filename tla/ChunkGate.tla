----------------------------- MODULE ChunkGate -----------------------------
(***************************************************************************)
(* The gate every save and paste job passes before it touches a block:      *)
(* _ensure_job_chunk of plugin.py asks for a hold on the job's current      *)
(* chunk, waits until the server reports the chunk resident, lets it        *)
(* stabilise, and notices when it is lost again.  The module has no         *)
(* variables: SaveScan and PasteHistory each keep one gate record.          *)
(*                                                                          *)
(* Tick numbers are kept as ages (ticks elapsed), capped where the code     *)
(* stops telling them apart; Unset stands for None.  resident is FALSE for  *)
(* a chunk that is unloaded and for one whose state cannot be known.        *)
(***************************************************************************)
EXTENDS Integers

CONSTANTS
    StabilizeTicks,   \* chunk_stabilize_ticks
    LoadTimeout,      \* chunk_load_timeout
    VerifyEvery       \* the 10 ticks of _held_paste_chunk_state

ASSUME GateAssumption ==
    /\ StabilizeTicks \in Nat
    /\ LoadTimeout \in Nat
    /\ VerifyEvery \in Nat \ {0}

\* How the server holds chunks for the plugin; "observed": auto_load_missing_chunks is off.
Apis == {"native", "legacy", "observed"}

Unset == -1

Gates == [held : BOOLEAN,                          \* ticket_chunk = the wanted chunk
          waited : Unset .. (LoadTimeout + 1),     \* since waiting_since_tick
          ready : Unset .. StabilizeTicks,         \* since ready_since_tick
          verified : Unset .. VerifyEvery]         \* since ticket_verified_tick

\* No ticket: a new job, or one that has released its chunk (_release_job_chunk).
Released == [held |-> FALSE, waited |-> Unset, ready |-> Unset, verified |-> Unset]

Older(age, cap) == IF age = Unset \/ age = cap THEN age ELSE age + 1

\* One server tick.
Aged(g) == [g EXCEPT !.waited = Older(@, LoadTimeout + 1),
                     !.ready = Older(@, StabilizeTicks),
                     !.verified = Older(@, VerifyEvery)]

\* _held_paste_chunk_state trusts an earlier answer about a chunk it holds, on the legacy
\* interface only, and never when the region or chunk is complete.
CachedAtCompletion(api, g, complete) ==                               \* mutant
    /\ api = "legacy" /\ g.held
    /\ g.verified \in 0 .. (VerifyEvery - 1)
Cached(api, g, complete) ==
    /\ api = "legacy" /\ g.held /\ ~complete
    /\ g.verified \in 0 .. (VerifyEvery - 1)

ChunkState(api, g, resident, complete) == Cached(api, g, complete) \/ resident

\* The bookkeeping of the same call: a fresh answer restarts or drops the cache.
Checked(api, g, resident, complete) ==
    IF api # "legacy" \/ ~g.held \/ Cached(api, g, complete)
      THEN g
      ELSE [g EXCEPT !.verified = IF resident THEN 0 ELSE Unset]

\* What one call of _ensure_job_chunk decides.  "go": touch blocks now; "wait": not yet;
\* "lost": not resident, before the timeout; "late": not resident, timeout over.
Verdicts == {"go", "wait", "lost", "late"}
Ensured(verdict, g) == [verdict |-> verdict, gate |-> g]

\* A hold is asked for.  The request may not fit the tick's budget.  A native hold on a
\* chunk that is resident takes effect at once, every other hold has to be waited for.
Requested(api, resident) ==
    {Ensured("wait", Released),
     IF api = "native" /\ resident
       THEN Ensured("go", [held |-> TRUE, waited |-> 0, ready |-> StabilizeTicks,
                           verified |-> Unset])
       ELSE Ensured("wait", [held |-> TRUE, waited |-> 0, ready |-> Unset,
                             verified |-> Unset])}

\* The chunk is held (or, unmanaged, just observed) and its state is looked at.
ObservedRestartingTimeout(api, held, resident, complete) ==           \* mutant
    LET g == Checked(api, held, resident, complete)
        fresh == [g EXCEPT !.waited = 0, !.ready = 0]
    IN CASE ~ChunkState(api, held, resident, complete) ->
              Ensured(IF g.waited > LoadTimeout THEN "late" ELSE "lost",
                      [g EXCEPT !.ready = Unset, !.waited = 0])
         [] OTHER ->
              IF g.ready = Unset
                THEN Ensured(IF StabilizeTicks = 0 THEN "go" ELSE "wait", fresh)
                ELSE Ensured(IF g.ready < StabilizeTicks THEN "wait" ELSE "go",
                             [g EXCEPT !.waited = 0])
Observed(api, held, resident, complete) ==
    LET g == Checked(api, held, resident, complete)
        fresh == [g EXCEPT !.waited = 0, !.ready = 0]
    IN CASE ~ChunkState(api, held, resident, complete) ->
              IF g.waited = Unset
                THEN Ensured("lost", [g EXCEPT !.ready = Unset, !.waited = 0])
                ELSE Ensured(IF g.waited > LoadTimeout THEN "late" ELSE "lost",
                             [g EXCEPT !.ready = Unset])
         [] OTHER ->
              IF g.ready = Unset
                THEN Ensured(IF StabilizeTicks = 0 THEN "go" ELSE "wait", fresh)
                ELSE Ensured(IF g.ready < StabilizeTicks THEN "wait" ELSE "go",
                             [g EXCEPT !.waited = 0])

\* _ensure_job_chunk: the possible outcomes for a job whose gate is g.
Ensure(api, g, resident, complete) ==
    IF g.held
      THEN {Observed(api, g, resident, complete)}
      ELSE IF api = "observed"
        THEN {Observed(api, [g EXCEPT !.held = TRUE, !.waited = 0], resident, complete)}
        ELSE Requested(api, resident)
=============================================================================
