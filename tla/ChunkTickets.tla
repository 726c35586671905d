---------------------------- MODULE ChunkTickets ----------------------------
(***************************************************************************)
(* The chunk tickets of plugin.py: how the save and paste jobs of all       *)
(* players hold the chunk they are working on, and what survives of those   *)
(* holds when the server stops or dies.                                     *)
(*                                                                          *)
(* The server build exposes one of two interfaces (chunk_loading.py):       *)
(*   "native"  a direct load ticket per chunk, shared by the jobs that need *)
(*             the same chunk and counted in _native_chunk_holds;           *)
(*   "legacy"  named ticking areas created by console commands, one slot    *)
(*             and one name per job, journaled in legacy_tickingareas.json. *)
(*                                                                          *)
(* The handlers run on the main thread, one at a time, so each is one       *)
(* action.  A job always releases its chunk before it moves to the next     *)
(* region, so the release at the head of _ensure_job_chunk finds no hold    *)
(* and a request starts from chunk[j] = NoChunk.                            *)
(***************************************************************************)
EXTENDS Integers, FiniteSets

CONSTANTS
    Jobs,             \* one job at a time per player: the keys of save_jobs and paste_jobs
    Chunks,           \* (dimension, x, z) hold keys
    NoJob, NoChunk,   \* model values: no owner, no chunk
    MaxActive,        \* legacy_tickingarea_max_active
    RequestsPerTick,  \* chunk_loads_per_tick
    Fallbacks,        \* values of legacy_tickingarea_fallback the processes are started with
    MaxSession,       \* bound: number of server processes in a behaviour
    ReleaseMayFail,   \* the server may refuse or lose a release
    StopInCleanupWindow  \* the server may stop before the delayed start-up cleanup ran

ASSUME TicketsAssumption ==
    /\ IsFiniteSet(Jobs) /\ NoJob \notin Jobs
    /\ NoChunk \notin Chunks
    /\ MaxActive \in Nat \ {0}
    /\ RequestsPerTick \in Nat \ {0}
    /\ Fallbacks # {} /\ Fallbacks \subseteq BOOLEAN
    /\ MaxSession \in Nat \ {0}
    /\ ReleaseMayFail \in BOOLEAN
    /\ StopInCleanupWindow \in BOOLEAN

VARIABLES
    api,      \* the chunk interface of the running server build
    fallback, \* _legacy_tickingarea_fallback, read from the configuration at the start
    live,     \* live[j]: player j has a job in save_jobs or paste_jobs
    chunk,    \* job.ticket_chunk while job.ticket_owned, else NoChunk
    holds,    \* _native_chunk_holds (0: no entry)
    tickets,  \* chunks the server keeps loaded for the plugin (native)
    slot,     \* job.ticket_slot; job.ticket_name is set and cleared with it
    slots,    \* _legacy_ticket_slots
    areas,    \* the world's ticking areas: name -> chunk, or NoChunk if there is none
    journal,  \* names in _legacy_ticket_registry and, always equal to it, the file
    stale,    \* _stale_legacy_ticket_records, waiting for the start-up cleanup
    used,     \* _chunk_requests_used of the current tick
    session,  \* _legacy_ticket_session, fresh for every server process
    unremoved,\* auxiliary: names of areas the server failed to remove
    abandoned \* auxiliary: names that a process with the fallback off read and never tried

jobVars == <<live, chunk>>
nativeVars == <<holds, tickets>>
legacyVars == <<slot, slots, areas, journal, unremoved>>
bootVars == <<api, fallback, stale, session, abandoned>>
vars == <<jobVars, nativeVars, legacyVars, bootVars, used>>

Slots == 0 .. (MaxActive - 1)
NoSlot == -1
Names == (1 .. MaxSession) \X Slots
Outcomes == IF ReleaseMayFail THEN BOOLEAN ELSE {TRUE}

\* ticket_name(prefix_session, slot): the session makes names of two processes differ.
SessionlessAreaName(s) == <<1, s>>                                    \* mutant
AreaName(s) == <<session, s>>

TypeOK ==
    /\ api \in {"native", "legacy"}
    /\ fallback \in BOOLEAN
    /\ live \in [Jobs -> BOOLEAN]
    /\ chunk \in [Jobs -> Chunks \cup {NoChunk}]
    /\ holds \in [Chunks -> Nat]
    /\ tickets \subseteq Chunks
    /\ slot \in [Jobs -> Slots \cup {NoSlot}]
    /\ slots \in [Slots -> Jobs \cup {NoJob}]
    /\ areas \in [Names -> Chunks \cup {NoChunk}]
    /\ journal \subseteq Names
    /\ stale \subseteq Names
    /\ unremoved \subseteq Names
    /\ abandoned \subseteq Names
    /\ used \in 0 .. RequestsPerTick
    /\ session \in 1 .. MaxSession

Init ==
    /\ api \in {"native", "legacy"}
    /\ fallback \in Fallbacks
    /\ live = [j \in Jobs |-> FALSE]
    /\ chunk = [j \in Jobs |-> NoChunk]
    /\ holds = [c \in Chunks |-> 0]
    /\ tickets = {}
    /\ slot = [j \in Jobs |-> NoSlot]
    /\ slots = [s \in Slots |-> NoJob]
    /\ areas = [n \in Names |-> NoChunk]
    /\ journal = {} /\ stale = {} /\ unremoved = {} /\ abandoned = {}
    /\ used = 0
    /\ session = 1

----------------------------------------------------------------------------
(* Requesting a hold: _request_job_chunk_ticket. *)

Asks(j) == live[j] /\ chunk[j] = NoChunk

\* A new SaveJob or PasteJob: no chunk, no slot, no name.
StartJob(j) ==
    /\ ~live[j]
    /\ live' = [live EXCEPT ![j] = TRUE]
    /\ UNCHANGED <<chunk, nativeVars, legacyVars, bootVars, used>>

\* A chunk the plugin already holds costs no request: only the count grows.
ShareHold(j, c) ==
    /\ Asks(j) /\ api = "native" /\ holds[c] > 0
    /\ holds' = [holds EXCEPT ![c] = @ + 1]
    /\ chunk' = [chunk EXCEPT ![j] = c]
    /\ UNCHANGED <<live, tickets, legacyVars, bootVars, used>>

\* Every other request is counted against the tick before anything else is tried.
SpendOneTooMany ==                                                    \* mutant
    /\ used <= RequestsPerTick
    /\ used' = used + 1
SpendRequest ==
    /\ used < RequestsPerTick
    /\ used' = used + 1

LoadChunk(j, c) ==
    /\ Asks(j) /\ api = "native" /\ holds[c] = 0
    /\ SpendRequest
    /\ tickets' = tickets \cup {c}
    /\ holds' = [holds EXCEPT ![c] = 1]
    /\ chunk' = [chunk EXCEPT ![j] = c]
    /\ UNCHANGED <<live, legacyVars, bootVars>>

\* load_chunk refused: the exception fails the job, which holds nothing yet.
LoadRefused(j, c) ==
    /\ Asks(j) /\ api = "native" /\ holds[c] = 0
    /\ SpendRequest
    /\ live' = [live EXCEPT ![j] = FALSE]
    /\ UNCHANGED <<chunk, nativeVars, legacyVars, bootVars>>

FreeSlots == {s \in Slots : slots[s] = NoJob}

\* _allocate_legacy_ticket_slot: the job's own slot, else the lowest free one.
StolenSlotFor(j) ==                                                   \* mutant
    IF slot[j] # NoSlot THEN {slot[j]} ELSE {0}
SlotFor(j) ==
    IF slot[j] # NoSlot
      THEN {slot[j]}
      ELSE {s \in FreeSlots : \A t \in FreeSlots : s <= t}

\* A build without load tickets and the ticking areas switched off: the request is
\* counted, and the exception fails the job.
NoFallback(j) ==
    /\ Asks(j) /\ api = "legacy" /\ ~fallback
    /\ SpendRequest
    /\ live' = [live EXCEPT ![j] = FALSE]
    /\ UNCHANGED <<chunk, nativeVars, legacyVars, bootVars>>

\* No slot: the job waits, or has waited longer than chunk_load_timeout and fails.
SlotBusy(j) ==
    /\ Asks(j) /\ api = "legacy" /\ fallback
    /\ SlotFor(j) = {}
    /\ SpendRequest
    /\ \E timedOut \in BOOLEAN : live' = [live EXCEPT ![j] = ~timedOut]
    /\ UNCHANGED <<chunk, nativeVars, legacyVars, bootVars>>

\* A job's first area is journaled under its name before it is added, later areas
\* reuse the name.  The server refuses to add an area under a name in use.
AddAreaUnjournaled(j, c) ==                                           \* mutant
    /\ Asks(j) /\ api = "legacy" /\ fallback
    /\ SpendRequest
    /\ \E s \in SlotFor(j) :
         /\ areas[AreaName(s)] = NoChunk
         /\ slots' = [slots EXCEPT ![s] = j]
         /\ slot' = [slot EXCEPT ![j] = s]
         /\ areas' = [areas EXCEPT ![AreaName(s)] = c]
    /\ chunk' = [chunk EXCEPT ![j] = c]
    /\ UNCHANGED <<live, nativeVars, journal, unremoved, bootVars>>
AddArea(j, c) ==
    /\ Asks(j) /\ api = "legacy" /\ fallback
    /\ SpendRequest
    /\ \E s \in SlotFor(j) :
         /\ areas[AreaName(s)] = NoChunk
         /\ slots' = [slots EXCEPT ![s] = j]
         /\ slot' = [slot EXCEPT ![j] = s]
         /\ journal' = IF slot[j] = NoSlot THEN journal \cup {AreaName(s)} ELSE journal
         /\ areas' = [areas EXCEPT ![AreaName(s)] = c]
    /\ chunk' = [chunk EXCEPT ![j] = c]
    /\ UNCHANGED <<live, nativeVars, unremoved, bootVars>>

\* The command failed (the name is in use, ten areas exist, cheats are off): slot and
\* name are given back, the name leaves the journal, and the exception fails the job.
AreaRefused(j) ==
    /\ Asks(j) /\ api = "legacy" /\ fallback
    /\ SpendRequest
    /\ \E s \in SlotFor(j) :
         /\ slots' = [slots EXCEPT ![s] = NoJob]
         /\ journal' = journal \ {AreaName(s)}
    /\ slot' = [slot EXCEPT ![j] = NoSlot]
    /\ live' = [live EXCEPT ![j] = FALSE]
    /\ UNCHANGED <<chunk, nativeVars, areas, unremoved, bootVars>>

----------------------------------------------------------------------------
(* Giving a hold back: _release_job_chunk.  ok is the server's answer to the       *)
(* physical release; its failure is logged and otherwise ignored.                  *)

HoldsAfterPopping(j) ==                                               \* mutant
    IF api = "native" /\ chunk[j] # NoChunk
      THEN [holds EXCEPT ![chunk[j]] = 0]
      ELSE holds
HoldsAfterRelease(j) ==
    IF api = "native" /\ chunk[j] # NoChunk
      THEN [holds EXCEPT ![chunk[j]] = IF @ > 1 THEN @ - 1 ELSE 0]
      ELSE holds

\* Only the last holder of a chunk touches the server's ticket.
TicketsAfterRelease(j, ok) ==
    IF api = "native" /\ chunk[j] # NoChunk /\ holds[chunk[j]] <= 1 /\ ok
      THEN tickets \ {chunk[j]}
      ELSE tickets

HoldsArea(j) == api = "legacy" /\ chunk[j] # NoChunk

ReleaseArea(j, ok) ==
    IF HoldsArea(j)
      THEN /\ areas' = IF ok THEN [areas EXCEPT ![AreaName(slot[j])] = NoChunk] ELSE areas
           /\ unremoved' = IF ok THEN unremoved \ {AreaName(slot[j])}
                                 ELSE unremoved \cup {AreaName(slot[j])}
      ELSE UNCHANGED <<areas, unremoved>>

\* A region or chunk is complete (or rolled back): the hold goes, the slot stays.
ReleaseChunk(j) ==
    /\ live[j] /\ chunk[j] # NoChunk
    /\ \E ok \in Outcomes : 
         /\ holds' = HoldsAfterRelease(j)
         /\ tickets' = TicketsAfterRelease(j, ok)
         /\ ReleaseArea(j, ok)
    /\ chunk' = [chunk EXCEPT ![j] = NoChunk]
    /\ UNCHANGED <<live, slot, slots, journal, bootVars, used>>

\* The job completes, fails or is cancelled: release_slot=True.  The name stays in
\* the journal only if this very call tried to remove its area and failed.
EndJob(j) ==
    /\ live[j]
    /\ \E ok \in Outcomes : 
         /\ holds' = HoldsAfterRelease(j)
         /\ tickets' = TicketsAfterRelease(j, ok)
         /\ ReleaseArea(j, ok)
         /\ journal' = IF slot[j] # NoSlot /\ (~HoldsArea(j) \/ ok)
                         THEN journal \ {AreaName(slot[j])}
                         ELSE journal
    /\ slots' = [s \in Slots |-> IF s = slot[j] THEN NoJob ELSE slots[s]]
    /\ slot' = [slot EXCEPT ![j] = NoSlot]
    /\ chunk' = [chunk EXCEPT ![j] = NoChunk]
    /\ live' = [live EXCEPT ![j] = FALSE]
    /\ UNCHANGED <<bootVars, used>>

\* _tick: the first request of a tick finds the counter of an older tick and resets it.
Tick ==
    /\ used > 0
    /\ used' = 0
    /\ UNCHANGED <<jobVars, nativeVars, legacyVars, bootVars>>

----------------------------------------------------------------------------
(* Start, stop and crash of the server process. *)

\* _cleanup_stale_legacy_tickets, 40 ticks after the start: one removal per record,
\* and the records are dropped whatever the server answered.  With the fallback off the
\* task returns before it takes the records: they stay in memory until the process ends.
CleanupForgetting ==                                                  \* mutant
    /\ fallback /\ stale # {} /\ stale' = {}
    /\ UNCHANGED <<jobVars, nativeVars, legacyVars, api, fallback, session, abandoned, used>>
Cleanup ==
    /\ fallback /\ stale # {}
    /\ \E lost \in SUBSET stale :
         /\ lost = {} \/ ReleaseMayFail
         /\ areas' = [n \in Names |-> IF n \in stale \ lost THEN NoChunk ELSE areas[n]]
         /\ unremoved' = (unremoved \ stale) \cup lost
    /\ stale' = {}
    /\ UNCHANGED <<jobVars, nativeVars, slot, slots, journal, api, fallback, session, abandoned, used>>

\* on_enable of the next process: the names in the file become the stale records, the
\* file is emptied, and every in-memory structure is fresh.
BootForgettingJournal(names) ==                                       \* mutant
    /\ session < MaxSession /\ session' = session + 1
    /\ api' \in {"native", "legacy"} /\ fallback' \in Fallbacks
    /\ abandoned' = IF fallback THEN abandoned ELSE abandoned \cup stale
    /\ stale' = {}
    /\ journal' = {}
    /\ live' = [j \in Jobs |-> FALSE]
    /\ chunk' = [j \in Jobs |-> NoChunk]
    /\ holds' = [c \in Chunks |-> 0]
    /\ tickets' = {}
    /\ slot' = [j \in Jobs |-> NoSlot]
    /\ slots' = [s \in Slots |-> NoJob]
    /\ used' = 0
Boot(names) ==
    /\ session < MaxSession /\ session' = session + 1
    /\ api' \in {"native", "legacy"} /\ fallback' \in Fallbacks
    /\ abandoned' = IF fallback THEN abandoned ELSE abandoned \cup stale
    /\ stale' = names
    /\ journal' = {}
    /\ live' = [j \in Jobs |-> FALSE]
    /\ chunk' = [j \in Jobs |-> NoChunk]
    /\ holds' = [c \in Chunks |-> 0]
    /\ tickets' = {}
    /\ slot' = [j \in Jobs |-> NoSlot]
    /\ slots' = [s \in Slots |-> NoJob]
    /\ used' = 0

MayStop == stale = {} \/ ~fallback \/ StopInCleanupWindow

\* The process dies: native tickets die with it, ticking areas and the file do not.
Crash ==
    /\ MayStop
    /\ Boot(journal)
    /\ UNCHANGED <<areas, unremoved>>

\* on_disable releases every job with release_slot=True, then a new process starts.
Restart ==
    /\ MayStop
    /\ \E lost \in SUBSET {j \in Jobs : HoldsArea(j)} :
         /\ lost = {} \/ ReleaseMayFail
         /\ LET tried == {AreaName(slot[j]) : j \in {i \in Jobs : HoldsArea(i)}}
                failed == {AreaName(slot[j]) : j \in lost}
                ended == {AreaName(slot[j]) : j \in {i \in Jobs \ lost : slot[i] # NoSlot}}
            IN /\ areas' = [n \in Names |-> IF n \in tried \ failed THEN NoChunk ELSE areas[n]]
               /\ unremoved' = (unremoved \ tried) \cup failed
               /\ Boot(journal \ ended)

Next ==
    \/ \E j \in Jobs : StartJob(j) \/ NoFallback(j) \/ SlotBusy(j) \/ AreaRefused(j)
                        \/ ReleaseChunk(j) \/ EndJob(j)
    \/ \E j \in Jobs, c \in Chunks :
          ShareHold(j, c) \/ LoadChunk(j, c) \/ LoadRefused(j, c) \/ AddArea(j, c)
    \/ Tick \/ Cleanup \/ Crash \/ Restart

Spec == Init /\ [][Next]_vars

\* The scheduler runs the delayed cleanup of a server that stays up.
FairSpec == Spec /\ WF_vars(Cleanup)

----------------------------------------------------------------------------
(* What the tickets promise. *)

Owners(c) == {j \in Jobs : chunk[j] = c}

\* The native count of a chunk is the number of jobs that hold it, and a counted chunk
\* is kept loaded: one job's release never drops the chunk another job is writing
\* (_request_job_chunk_ticket and _release_job_chunk share _native_chunk_holds).
HoldsCountOwners ==
    api = "native" =>
      \A c \in Chunks : /\ holds[c] = Cardinality(Owners(c))
                        /\ holds[c] > 0 => c \in tickets

\* A slot belongs to the one live job that names it; an ended job leaves none behind,
\* so _allocate_legacy_ticket_slot can always reuse it.  Only jobs on a build without load
\* tickets, and with the fallback on, have one.
SlotsMatchJobs ==
    /\ \A s \in Slots, j \in Jobs : slots[s] = j <=> slot[j] = s
    /\ \A j \in Jobs : slot[j] # NoSlot => live[j] /\ api = "legacy" /\ fallback

\* A job that believes it holds a chunk through a ticking area does hold that chunk: no
\* other job, and no cleanup of an older process's areas, removed or moved its area.
HeldAreaExists ==
    \A j \in Jobs : HoldsArea(j) => /\ slot[j] # NoSlot
                                    /\ areas[AreaName(slot[j])] = chunk[j]

\* The area of every running job is in the journal, so that a crash at any moment
\* finds it there ("Atomically persist currently owned legacy ticking-area names").
HeldAreaJournaled == 
    \A j \in Jobs : HoldsArea(j) => AreaName(slot[j]) \in journal

\* Any area left in the world can still be found by the plugin: it is journaled or among
\* the records of the pending cleanup, unless the server refused to remove it or it was
\* left to a process that ran with legacy_tickingarea_fallback off, which empties the
\* journal (on_enable) and then never removes what it read.
AreasAccountedFor ==
    \A n \in Names : areas[n] # NoChunk => n \in journal \cup stale \cup unremoved \cup abandoned

\* After an unclean stop the areas of the dead process are removed by the next one, if
\* that one runs with legacy_tickingarea_fallback on.
StaleAreasRemoved ==
    \A n \in Names : (n \in stale /\ fallback) ~> (areas[n] = NoChunk \/ n \in unremoved)

\* The changelog's "persistent owned-ticket journal" taken at its word: no removal
\* failure and no stop loses track of an area the plugin created.
JournalIsComplete == 
    \A n \in Names : areas[n] # NoChunk => n \in journal \cup stale
=============================================================================
