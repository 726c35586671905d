# Schematic Cloud in TLA+

This directory holds a TLA+ development of the Endstone plugin *Ninj-OS Schematic Cloud*
(`src/src/endstone_ninjos_schematics/`): modules that follow its code, TLC runs that check
them on small instances, and proofs, checked by TLAPS, of what matters most for instances of
every size. File and line references are to that package.

## The system

A Minecraft (Bedrock) server runs the plugin. Players select a box of blocks and *save* it:
the plugin scans the blocks over many ticks, encodes them and stores the result in a MySQL
database that several servers share. They *load* a schematic, place and rotate a preview, and
*paste* it into the world over many ticks; a paste can be *undone* and *redone*. Blocks can
only be read or written while their chunk is loaded, so every job holds the chunk it works on.

All game state is touched on the main thread, once per tick, in the order of `_tick`
(plugin.py:662): completed worker results, then save jobs, then paste jobs, then previews.
Database, encoding, decoding, planning and disk work run in a small thread pool
(`_submit_worker`, plugin.py:448); their results come back through a queue.

### Inventory

| Component | State | Operations | Hard because | Correct means |
|---|---|---|---|---|
| Chunk tickets (plugin.py:1803-2177, chunk_loading.py) | native hold counts, legacy slots and names, ticking areas in the world, journal file | request, share, release, cleanup at start | several jobs share a chunk or compete for slots; the areas outlive the process; removals fail; crash and restart | counts equal holders; a held chunk stays held; every area left in the world can be found again |
| Chunk gate (plugin.py:2017-2110) | waiting, ready and verified ticks of a job | one call per job and tick | asynchronous loading, a cached answer, timeouts | blocks are touched only behind a positive answer; nobody waits for ever |
| Save scan (plugin.py:689-1040, 2214) | records, palette, entities, counters, region snapshot | batch, rollback, retry, finish | a chunk may vanish between any two batches, and a read of a missing chunk looks like air | the saved records are the world |
| Paste, undo, redo (plugin.py:1047-1787, 2938-3053) | plan and cursor, captured changes, undo and redo stacks, record storages | one record, complete, fail, cancel, push, evict | failures halfway, overlapping builds, limits, ownership of files | undo and redo are exact inverses; no storage leaks or is used after its end |
| MySQL store (database.py) | schematic rows, payload pieces, categories, memberships | save, fetch, archive, delete, move | other servers in between every statement, transient errors, lost acknowledgements | clients see whole versions; tables agree |
| Placement and session (plugin.py:2366-3066, listener.py) | placement, preparation token, jobs of a player | load, paste, cancel, quit | worker results arrive after the player left, cancelled or started again | stale results change nothing; one owner per storage |
| Scheduler and pacing (plugin.py:662-849, 1047-1147, paste_pacing.py) | round-robin positions, budgets, adaptive limit | visit jobs | several budgets, one chunk request per tick | every job gets its turn |
| Disk store (disk_store.py, plugin.py:2446-2488) | payload and sidecar files, temporary files | export, backup and remove, read, delete | a crash or an error between two replacements, one temporary name for all workers, readers in between | a payload is whole or absent; the row is deleted only behind its backup |
| Record stores (record_store.py) | buffer or spill file, frozen or closed | append, reserve, write at, truncate, freeze, read, close | one stream position for everything, spilling at the limit, a cached window | content and length survive spilling |
| Plan building, rotation (planner.py, rotation.py) | ranges, offsets and output of a plan | scan order, validation, plan | negative coordinates, batches written out of order | regions cover the box once; the plan is the schematic, turned |
| Codec (codec.py) | the decoder between two pieces | encode, decode at once, decode streamed | pieces end anywhere; damaged and legacy files | what is accepted is what was saved |
| BlockData (blockdata_integration.py) | none | capture and restore of a block entity | values that look like the encoding's own wrappers, depth limits | a restored entity is the captured one |
| WorldEdit export (sponge_schem.py) | none | palette, indices, dimensions, states | other block order, shared names, variable-length numbers | a reader finds the saved blocks |
| Forms, compat, access, config | none or external | menus, lookups | | see *Not modelled* |

They interact through a few shared structures: `save_jobs` and `paste_jobs` (one job per
player), the hold counts and slots of the tickets, the undo and redo stacks, the record
storages handed from job to job, and the database.

## Modules

| Module | Follows | Notes |
|---|---|---|
| `ChunkTickets` | plugin.py:1803-2015, 2111-2177, 250-262, 375-442 | jobs, holds, slots, ticking areas, journal, processes |
| `ChunkTicketsProofs` | | theorems about `ChunkTickets` |
| `ChunkGate` | plugin.py:2017-2110 | operators without variables: what one call of `_ensure_job_chunk` decides |
| `SaveScan` | plugin.py:689-925, 2265 | one save job behind the gate |
| `SaveScanProofs` | | theorems about `SaveScan` and `ChunkGate` |
| `PasteHistory` | plugin.py:1252-1787, 2938-3053 | one player's paste, undo and redo jobs and both stacks |
| `PasteHistoryProofs` | | theorems about `PasteHistory` |
| `Library` | | what the library promises its clients: an abstract specification |
| `SchematicStore` | database.py, plugin.py:2446-2650 | the tables, statement by statement, for the workers of several servers |
| `PlayerSession` | plugin.py:403-474, 558-585, 662-677, 2366-2444, 2716-3066 | placements, preparations and jobs of a player, the executor and its callbacks |
| `Rotation` | rotation.py | operators without variables: quarter turns of positions and of block states |
| `RecordStore` | record_store.py | operators: the spilling buffer and the frozen source with its window |
| `Planner` | planner.py, models.py:228-245 | regions and scan order; the paste plan, batch by batch on `RecordStore`, against the in-memory plan |
| `Codec` | codec.py | operators: the payload, the decoder at once and the streamed one |
| `SpongeSchem` | sponge_schem.py | operators: the WorldEdit file and a reader of it |
| `BlockData` | blockdata_integration.py | operators: typed NBT as JSON and back, level by level; capture and restore of one block entity |
| `EntityRestore` | | a property over `Loading` and `BlockData`: what a paste restores of a block entity |
| `Loading` | plugin.py:936, 2366-2436, 2510-2577, codec.py:382-490 | from the end of a save through the payload to the placement, the plan or the WorldEdit file |
| `DiskStore` | disk_store.py, plugin.py:2446-2488 | payload and sidecar, one file operation per step |
| `DiskStoreProofs` | | theorems about `DiskStore` |
| `PlayerSessionProofs` | | theorems about `PlayerSession` |
| `SchematicStoreProofs` | | theorems about `SchematicStore`, the refinement of `Library` included |
| `PlannerProofs` | | theorems about `Rotation`, `RecordStore`, `Planner`, `Codec`, `SpongeSchem`, `BlockData`, `Loading` and `EntityRestore`, for selections, payloads and plans of every size |
| `Scheduler` | plugin.py:661-682, 1041-1136, 1947-1969 | order of visits, budgets and chunk requests of the paste loop |
| `Pacing` | paste_pacing.py | operators: the pacer and what a tick makes of it |
| `SchedulerProofs` | | theorems about `Scheduler` and `Pacing` |
| `MC*` | | constants for the runs |

### ChunkTickets

A job is the owner of `save_jobs[p]` or `paste_jobs[p]`; there is at most one per player.
The variables are the fields of the code under their own names (see the comments in the
module), with the world's ticking areas as the external part. Handlers on the main thread are
atomic, so one call is one action. `Boot` is the start of the next process: `Crash` reaches it
with everything in memory gone, `Restart` after `on_disable` released the jobs. The server may
refuse any request, and lose or refuse a release when `ReleaseMayFail`. `unremoved` is
auxiliary: the names whose removal the server failed to carry out.

Each process is started with the legacy fallback on or off (`Fallbacks`). Off, a job on a
build without load tickets fails when it asks for one (`NoFallback`), and the delayed cleanup
returns before it takes the records it should remove (plugin.py:1895), although `on_enable` has
already emptied the journal: the areas of the process before then stay in the world for ever.
`abandoned` is auxiliary and records their names when such a process ends;
`StaleAreasRemoved` and `AreasAccountedFor` say in their statements that they promise nothing about
these.

`StopInCleanupWindow` says whether a process with the fallback on may end within the 40 ticks
between its start and the delayed cleanup. `ChunkTickets.cfg` excludes that, and `TicketJournal.cfg` shows what
happens otherwise.

### ChunkGate and SaveScan

`Ensure` gives the outcomes of one call: go, wait, lost, or late. Ticks are kept as ages capped
at the value from which the code makes no difference. `SaveScan` visits its job at most once
per tick; between two ticks the chunk may be lost or come back. A read of a chunk that is not
resident returns air without an entity (`Read`), which is what makes the property `ScanExact`
interesting. The records are a buffer of `RecordStore`, in memory or spilled. A batch scans block
after block (`ScanBlock`); their number is any number, since it depends on budgets shared with
other jobs and on the clock. `Exact` says what the records, palette, entities and counts of a job
must be once given positions are scanned; what discarding the current region would leave is
compared with the world at every moment, not only when a region is discarded.

The legacy interface trusts a positive answer for ten ticks (plugin.py:2097). A chunk that is
lost *and* comes back within that time goes unnoticed and its air is saved: the constant
`ReloadUnnoticed` admits that, and the run excludes it, as the code's comment does ("A
positively verified, plugin-held chunk remains resident between checks"). With it
`VerifiedRegionsKept` is violated; everything the run shows rests on that assumption about the server.

### PasteHistory

`Visit` is one record: resolve what it wants, read, compare, write, read back, verify, capture;
then the check of the chunk and the end of the job if it was the last record. A write may have any
effect, so a verification can fail.

A record wants a block (type, states and block entity), a shape (type and states, where the plan has
no block entity) or a type, where the registry does not know the states, or not even the type.
`RecordResults` has every way a record can end: already there (`skip_unchanged_blocks`); placed;
placed by type alone because `set_data` raised, which loosens the whole palette entry for the
records behind it (`Loosened`, `Targets`); placed without its block entity (`strict_restore` off);
unavailable and skipped, substituted or failed (`missing_block_policy`); placed unverified
(`verify_paste_writes` off); failed at the verification, the block entity or by an exception.
`Settings` are the configuration of all that, and `config` is one of them. What a job counts is what
its last message reports: `failed`, `missing`, and in `adapted` the state fallbacks and block-entity
failures. `CompletedPlanIsInWorld` relates those counts to the world and holds with verification
on; with it off a completed job promises nothing about its records, only that they can be undone.
The message of an undo or redo does not mention state fallbacks (plugin.py:1744-1753), although the
job counts them. That the second of two records of a loosened palette entry is passed over
uncounted when its block is there in other states is why the
property says something of single records only if nothing at all was counted.

Blocks are told apart as `_paste_block_matches` tells them: flowing and still liquids
are one type. An exception of the capture of a block entity behind a write (plugin.py:1446-1458) is
left out. A visit is always one record, so where a batch ends is not modelled: the ranges by chunk
are part of the plan that `Planner` checks, and the shares of a tick are `Scheduler`'s.

The setting `overflows` stands for the limit of block entities that drops the history,
`LateErrors` for an exception after a write, which leaves the change uncaptured; the runs
check without it, because the promises about undoing do not hold with it (see the hazards). Entries
carry their changes by position; a storage is a number, open or closed. `last` and `intact` are
auxiliary: the last job that ended, and whether every change so far was recorded.

### SchematicStore and Library

`SchematicStore` follows one name of one namespace; names share nothing but the category list.
A transaction is one action: `INSERT ... ON DUPLICATE KEY UPDATE`, `SELECT ... FOR UPDATE` and
`UPDATE` lock the row, so the writers of a name run one after the other, and no reader sees
uncommitted data. The reads of `fetch_to_file` are separate statements in autocommit mode and so
separate actions: the row, the count, each piece, the checks. A write may be carried out
and its answer lost. A save retries on what looks transient, up to `RetryAttempts`.

`Library` is what a client may rely on: an entry that changes by whole steps, fetches that
return one payload the entry had while they ran, saves carried out at least once before they
are reported as saved, and failures that may have happened after all. `ImplementsLibrary` maps
the stored pieces, the row and the membership to the entry, and the statements of a fetch to a
single look at it.

### PlayerSession

The tables of the plugin (`placements`, `preparing_pastes`, `save_jobs`, `paste_jobs`) with the
executor: `task` holds what the closure of a submitted operation captured and returned,
`waiting` the executor's queue, `completions` the queue `_tick` empties. A placement is named by
the record store of its schematic, and the token of a preparation by its task, since both are
fresh objects. `pose` says which stores are open and what a plan was built for. A number
is used again once nothing refers to it (`Unused`); until then the store exists, closed or not.
`withdrawn` is auxiliary: requests the player took back. Saves and history jobs appear as
occupants of their tables, their inside is in `SaveScan` and `PasteHistory`.

A failed preparation puts its placement back even over one loaded meanwhile
(plugin.py:2926); the newer store is then left to `RecordSource.__del__`. No document says which
of the two should win, so the model admits it and no property forbids it.

### Rotation, RecordStore and Planner

`Rotation` translates the tables of rotation.py; `Values` and `Sides` say what the state values
mean in the world, as its comments do, so that states can be compared with coordinates.

`RecordStore` has the operations of a buffer as operators, used by `SaveScan` (append, roll
back), `Codec` (append, read in pieces) and `Planner` (reserve, write at an offset, read
through the window). A record is a number of units, so that a window, a piece or a wrong
offset can tear one; a unit nobody wrote is `Unwritten`.

`Planner` builds one plan of a loaded schematic: validation, the counting pass, one `Scatter`
per batch, the final check. The records of a schematic are any part of a scanned selection, its
block entities those of some blocks, and a file may lack palette entries or blocks.

### Codec, BlockData, SpongeSchem and Loading

`Loading` composes them with the planner. Its initial states are scanned schematics with one
thing wrong at most (`Damages`: prefix, header, entity section, records, checksum, row, or a
legacy file). `Read` gives the decoder the next piece of the decompressed stream, whose size is
chosen anew each time, as zlib's output is; `FinishLoad` makes the checks of the decoder, of
`validate_schematic_integrity` and of `request_load`; then the steps of `Planner` follow.
That there is room on the disk is assumed here: `request_load` refuses before it decodes if there is not
(`_ensure_stream_workspace`, plugin.py:2384), as it fails for any other error of its surroundings, which
is `TaskFails` of `PlayerSession`. So `SavedIsLoaded` says of a sound payload that it is not refused for
what it holds.
`ExportWorldEdit` decodes at once instead,
and a side that is too long for the Sponge format ends it (`unexported`). JSON and zlib are what a reader gets from them: a
unit of the stream carries the content of its section, and a section is read only whole.

What the encoder refuses to write, because a section is beyond its limit, is not saved and
never loaded (`Encodable`).

`BlockData` gives NBT values their type tags and JSON its objects. The code recurses over the
members of a value and counts the depth; here `EncodeOne` and `DecodeOne` treat one value, given
what becomes of its members a level deeper, and `encode` and `decode` are functions of the levels
left. A value is an element of `NbtValues`, which holds the members of its elements too. `Snapshot`
raises for an item that is no compound or has a negative slot, `Restored` decodes the NBT before
it drops that of a shelf (blockdata_integration.py:275-279), and slots are set or emptied only of
a container. A value that raises is `Raised`, and so is whatever holds it.

`EntitiesSurvive` (in `EntityRestore`) follows an entity from capture through payload, plan and
turn to the restore: it is restored exactly or an error says that it is not, which is what
blockdata_integration.py:33 promises ("Raised when capture or restoration cannot preserve an
entity exactly"), and there is no error for an actor that is `Restorable`. An actor whose own keys
are those of a wrapper is the exception to that promise: the code does not wrap the NBT as a whole
(blockdata_integration.py:146-150) but unwraps it (line 275). Of such an actor the property says that its items
are restored right or refused all the same, and that its NBT does not come back as it was
(`TakenForWrapper`): a finding without a run of its own, see Findings. For the key
`nscm_nbt_compound` alone it depends on the value whether it does, and the property says so only for a
compound that is no wrapper itself. At restore the NBT counts as one
compound, so its values have a level less than at capture, and one that is exactly 64 levels
deep is captured and refused afterwards (blockdata_integration.py:37, 90, 275). `Decode` is defined for
what `_encode_nbt` writes, not for any JSON.
`SpongeSchem` keeps of the block states those with a direction; the reader is written from the
format, not from the encoder.

### DiskStore

The directory maps paths to files and workers keep the file they opened, as POSIX has it; this
is what lets two workers with one temporary name write into each other's file. The sidecar holds
the checksum, so payload and sidecar of different versions are refused by `read`. `sidecars` is
`disk.write_metadata_sidecar` of the running process, chosen anew when it starts: an export
without a sidecar over a backup that has one leaves a payload `read` refuses (disk_store.py:228),
until an export with a sidecar repairs it. `outdated` is auxiliary: a call left payload and
sidecar apart in this way, or by an error or a crash between the two. The plugin itself exports
only; `read` and `delete` are public operations of the class and its tests, and are called by both
workers here.

A read takes the payload and then the sidecar, and anything may be replaced or unlinked in between.
`seen` is a history variable: what payload and sidecar were (`Moment`) at each moment since the read took the
payload. `ReadsAreAtomic` says that what a read returns, payload and metadata, stood together at one of
these moments, the last before the answer included; that read compares a checksum says less, since a payload
whose sidecar is not found is accepted without one. Only a delete that had unlinked the
payload and not yet the sidecar may come between, which the property allows.

### Scheduler

A tick of `_process_paste_jobs` is `BeginTick`, one `Visit` per job and `EndTick`. How long a
visit takes is open, so the loop may end by time after any visit but not before the first.
`keys` is the loop's snapshot of the players, as in the code, turned by the place (`Place`) of
`_paste_next_player` in it, and `next` is set from it before
the job is looked at. What a job does with its share is any number of records and changes the
batch's conditions allow; `CancelJob` and `StartJob` happen between ticks. Before the loop the
pacer, if there is one, sees the time since the last tick as one of three `Intervals` (longer than
75 ms, 40 to 60 ms, anything else), and from what it makes of it follows the tick's `limit`;
`IdleTick` is a tick without jobs, which resets it. Of the save loop only
the chunk requests it takes remain. A hold may come without a request: the chunk is held for another
job natively already (plugin.py:1939-1946), or chunks are not loaded automatically; and a request may be
spent without a hold, when no ticking area is free (`RequestRefused`).
Slots and timeouts are in `ChunkTickets` and `ChunkGate`.

## Runs

| Run | Question | Result |
|---|---|---|
| `tickets` | Do holds, slots, areas and journal stay consistent through sharing, refusal, failure, crash and restart, and are a dead process's areas removed? | holds |
| `ticket_journal` | Is the journal complete if processes may stop at any time? | violated (finding) |
| `save_scan` | Is the scan exact and its accounting sound however chunks are lost, and does it end? | holds |
| `paste_history` | Are undo and redo exact inverses, within their limits, with one owner per storage? | holds |
| `store` | Do the tables agree, and does the store implement `Library`? | holds |
| `store_retry` | Does the retry of a save recognise that it was committed before? | violated for overwriting saves (finding) |
| `session` | Are late results recognised, stores owned once and open, and does each preparation end, whatever the player does meanwhile? | holds |
| `planner` | Is what a save scanned what a load, a plan and a WorldEdit file hold, however the payload is split or damaged? | holds |
| `turned_states` | Are all block states that have a direction turned? | violated (finding) |
| `disk` | Are exported files whole, is what a read returns a state the disk was in, through errors, crash, exports and deletes meanwhile, and are rows deleted only behind their backup? | holds |
| `backup_remove` | Does a row deleted by backup-remove have its version in the file, when two workers make backups? | violated (finding) |
| `scheduler` | Does each job get its share of the budgets, and its turn? | holds |

### Bounds

- `tickets`: three players, one chunk, two slots, one request per tick, three processes with the
  fallback on or off. All three can share the chunk; slots run out; the second process meets the
  areas of the first, and the third those that a second one with the fallback off left. `ticket_journal`: two players, three processes, since names are lost by
  the second start.
- `save_scan`: three regions of two or three blocks with repeated types, entities in two of them, and
  one of air alone; a buffer that spills at the fourth record; two retries; stabilisation 1, timeout 2 and cache 2 ticks, enough for every
  order of the three; limits below and at the number of entities of one region.
- `paste_history`: two positions, air and a chest with two contents, so that blocks differ in type or
  in the block entity alone; a plan of two records of one palette entry, with and without a block
  entity, and one of a missing block over the first. Four settings: the default one; one that stops at missing blocks and
  goes on after one failure; one that substitutes them and is not strict; one without verification, whose limit keeps the
  longer plan out of the history and where the captured entities may overflow. Two operations and two changes in
  total: two entries of one change, or one of two, and every further one evicts.
- `store`: three requests with eleven calls, two contents of two pieces (so pieces of one can be
  mistaken for the other's) and one inline content, two attempts. Two requests show every race
  of a pair; the third provides a row to start from. `MaxId` is never reached by three requests.
- `session`: one player, since all tables are keyed by player and the executor and its queues
  are the only things shared; two submitted operations on two threads, so that the results come
  in both orders and the player can overtake each; two poses; six stores, more than are referenced at once.
- `planner`: chunks of width two and batches of two records, so that selections of up to six
  blocks cross chunk borders at either sign and chunks receive records from several batches;
  every subset of the selection as records, every rotation, four anchors. Records of two units,
  a buffer that spills above three records and windows of two, so that plans are in memory and
  on file and read through several windows; pieces of one unit (every boundary), of four (no
  multiple of a section) and of eleven (all of a small file); an entity limit that some scans
  reach and a damaged header exceeds;
  varints to the base two and shorts that turn negative at two, so that both have several digits
  and both signs; a depth limit of four, with NBT at the limit that has each kind of value and each
  shape of a wrapper, NBT a level deeper, which is captured and refused at restore, and two actors
  whose own keys are those of a wrapper.
- `turned_states`: one selection, since the states of a palette do not depend on it.
- `disk`: versions of one, of two and, above the size limit, of three pieces, so that files of
  different length overwrite each other; one worker exports a row held in memory, makes backups and
  deletes while the other reads and deletes;
  one version saved meanwhile, one crash, after which sidecars may be turned on or off. `backup_remove`: two workers that make backups,
  nothing else and no save meanwhile, the shortest way to the mixture (that the row may be another
  server's by then is traced by hand, see Findings); `disk` has one writer at a time because of
  what it shows.
- `scheduler`: three players with ranges of up to two records, a budget of four records that does not
  divide evenly and is less than the three may want together, with a pacer whose limit moves between one and three and without one, so that the
  limit may be smaller than the number of jobs, is halved and raised, and meets its ends; two
  usual ticks raise it; one chunk request per tick, which the save loop may have used. Either half of
  `FairShare` breaks at these sizes when jobs take more than their share.

`CHECK_DEADLOCK FALSE` appears in the store's runs, where all requests are eventually done, in
`session`, where everything stops after `on_disable`, in `planner`, where the plan, the export
or the refusal is the end, and in the runs of `DiskStore`, where bounds and answers end it.

### Fairness

- `StaleAreasRemoved` assumes weak fairness of `Cleanup`: the server's scheduler runs the task
  submitted at plugin.py:375 if the server stays up.
- `SaveEnds` assumes weak fairness of `WorldTick` (time passes), weak fairness of `Visit` (the tick's round
  robin over `save_jobs` reaches each job, plugin.py:758-766), and strong fairness of `Answered`:
  a request for a chunk that does not fit the budget of one tick is made again and not denied for
  ever. The last is an assumption about the other jobs, which end: while they run it need not
  hold, since the visiting order decides which job gets the request (plugin.py:1953). The property is stated for chunks that settle, since a chunk that
  keeps flapping restarts its timeout for ever (plugin.py:2077).

- `PreparationEnds` assumes weak fairness of the executor's steps and of `Callback`: threads run
  what was submitted, and `_tick` empties the queue while the plugin is enabled.
- `EveryJobVisited` assumes weak fairness of the loop, which the server calls every tick, and that
  players do not start new jobs for ever: `_paste_next_player` names a player and not a job, so
  one who ends and starts again in time draws the loop back to them.

## Proofs

`ChunkTicketsProofs` proves, for any number of jobs, chunks, slots and sessions:

- `TicketsTypeCorrect`: the type invariant, by induction over the actions.
- `SlotsAlwaysMatchJobs`: a slot and its job name each other. Inductive with the type invariant.
- `HoldsAlwaysCountOwners`: the count of a hold is the number of jobs that own the chunk. The
  steps that take or give a hold change the set of owners by one element, and the lemmas about
  cardinalities turn that into plus or minus one.
- `HeldAreasExist`, `HeldAreasJournaled`, `AreasAlwaysAccountedFor`: not inductive by
  themselves. A job's area could be removed by the cleanup of an older process, or by another
  job with the same name. The invariant `AreaInv` adds what excludes both: only live jobs hold
  (`HoldersLive`), stale names are of earlier sessions (`SessionsKept`), a slot in use is
  journaled (`SlotJournaled`), a free slot's area is gone or known as unremoved
  (`IdleAreaUnremoved`), and no area bears a name of a session to come (`NoFutureArea`).
  `AreasAlwaysAccountedFor` assumes that no process with the fallback on stops before its cleanup
  has run (`~StopInCleanupWindow`), which the run `ticket_journal` shows to be necessary.

`PlannerProofs` proves `PlanAlwaysComplete`, `ScanAlwaysVisitsOnce`, `StatesAlwaysTurn` and
`RotationAlwaysTurnsBox` for any chunk width, selections, schematics, anchors, batches, record
size, threshold of the buffer and window. The planner's inputs never change (`InputsInv`), and
three of the four say only what the code computes from them: boxes are turned one to one onto the
turned box, and turns compose; the sides a state value speaks of turn as the sides of the world do,
family by family (`TurnsAsSides`); regions cut the selection column by column and row by row
(`RegionsCut`), and a number below the volume of a region is written in the bases of its sides in
one way (`RadixIs`, `RadixOf`), so each coordinate is visited once. Division is where chunks at
negative coordinates could go wrong; its laws are derived from the one fact that quotient and
remainder make up the number (`DivisionIs`, `DivisionOf`).

`PlanAlwaysComplete` needs the invariant `PlanInv`: after the counting pass the ranges are
those of the whole plan laid end to end, and after each batch the range of each chunk holds,
from its start, those of its records that the batches so far contained, in order, and the chunk's
offset is behind them (`Scattered`, `Filled`). The step of one batch puts three arguments together:
a batch continues the bucket of every chunk (`BatchContinues`), a write of whole records changes
these records of the buffer and no others, spilled or not (`WriteAtRecords`), and ranges of
different chunks do not meet (`PlanEndsGrow`). At the end every range is full, and what a reader gets
through the window is the buffer, record by record (`WindowAtIs`, `RecordInWindow`).
`OrderedChunks` has every chunk once because no two chunks have equally many before them
(`RankIsInjective`). `Selected`, `EndsOf` and `FlattenSeq` are recursive functions: that they exist
and are unique is proved by looking at the first number where it would fail (`IterateExists`,
`UpTo`). The theorem is about schematics that a scan produced, with any blocks missing and any
entities added; it assumes that palette indexes are natural numbers and that `Unwritten` is not a
byte of a record (`PlannerAssumption`).

It also proves `StreamedAlwaysDecodes`, `SavedAlwaysLoaded`, `LoadedAlwaysPlanned` and
`LoadAlwaysTyped`, for any schematic a scan can save, every damage, pieces of every size that are
chosen anew each time, and any sizes of prefix, header and record. The planner's invariant is
preserved by the load in front of it (`LoadInv`: `PayloadInv`, `PlacementInv`, `InputsInv` and
`PlanInv`), so the plan of a loaded schematic is complete too. `PayloadInv` says where the streamed decoder is
after the units it read (`Reading`), which is one of three things. It waits: it keeps all of the
stream so far, and neither is the head complete nor does a check fail on what there is. It has
parsed the head: what it has is the head that `decode_schematic` finds, and behind it the record
units so far, whether the buffer spilled or not (`Collects`). It has failed: then the whole stream
is refused (`Fails`). That these are kept rests on one fact about prefixes of a stream
(`OpensKnows`): a check that can be made on the units so far gives what it would give on the
whole. A decoder that only waits could otherwise have missed a check, and one that failed could
have failed for what a later piece repairs.

The way from the decoder to the placement goes over what a payload is made of: four sections one
behind the other (`Laid`), of which a damage changes one. Each of the damages is shown to fail a
check, by case (`WrongHeadRefused`, `WrongFileRefused`, `WrongBodyRefused`), and a sound payload to pass
all of them and to give back palette, records and entities of the scan (`SoundAccepted`,
`SchematicIsRestored`). A legacy payload has no entity section, hence no block entities.
`LoadAlwaysTyped` needs `TypeInv` besides: in which state of the request which variables have a
value (`Stages`), and that `WriteAt`, `Reserve` and a scattered batch leave a buffer of units
of the plan (`WriteAtKeeps`, `ReserveKeeps`, `ScatterKeepsUnits`).

`SpongeAlwaysHolds` says that a reader of the WorldEdit file finds the schematic, for boxes of
every size, palettes in which blocks share a Java name, and numbers of any digits. Of the state
it needs only that a record of the saved schematic names the block of its place and that what was
exported passed the checks (`ExportInv`); the rest is about `Sponge` and the reader. A varint is
the digits of its number, lowest first, and taken back byte by byte by a reader who keeps a
weight (`VarintTaken`); with varints one behind the other, the reader is after each where it
began (`VarintsRead`). `JavaPalette` has air first, every name once and the name of every block
(`Named`, `JavaPaletteIs`). A place is the three digits of one index below the volume, in the
order x, z, y (`LinearIs`), so no two blocks share an index and each index is of one block
(`IndexesAre`). The sides a Java state points to are those of the Bedrock state, family by family
(`JavaSidesAre`).

`EntitiesAlwaysSurvive` says that block entities whose own keys are not those of a wrapper are restored
exactly or not without an error, for values of every kind, nested in every way inside of them, any
limit of the depth, schematics and turns; and what becomes of the others: their items are kept
(`SlotsSurvive`), and their NBT is altered or refused (`TakenNotRestored`, `TakenAltered`). Of the state it
needs that the schematic's payloads are those that were captured (`EntitiesCaptured`), which no
step touches, and that a turn moves no two places to one (`TurnsApart`), so that the turned payload
is the one of its place (`EntityTurned`). The rest is about the two conversions. That `encode`,
`decode` and `shallow` are the recursions they are defined by is proved like for the recursive
functions above. `Survives` says of a value, what is written for it and what is read back that
what is read is an error or the value, and is the value if its members are within the levels
that reading has left. This holds for n levels left when it does for the members with a level
less, whatever levels writing had left (`LevelSurvives`, by kind of value: atoms, scalars, lists
and compounds), and so for all (`ValuesSurvive`). Two points carry it: an object is a wrapper
exactly if a wrapper was written, since a compound with the keys of one is wrapped itself
(`CompoundRead`), and the number of a scalar lies a level below the scalar only where reading
counts, not where writing does unless it is infinite (`ScalarSurvives`).

`SchedulerProofs` proves `SchedulerTypeCorrect` and `SharesAlwaysFair` for any number of players,
any budgets, any values of the pacer's constants and ticks of any length. The invariant `IInv` adds to the type invariant that the jobs
not yet visited are still active (`UnvisitedActive`), and that an equal part of each budget is
left for each of them (`EqualPartsLeft`), from which `FairShare` follows. That a job which takes
at most its share of the rest leaves the equal parts of the others is an argument about products
(`ShareLeavesParts`), made once and apart from the steps. The pacer's limit stays between its
bounds whatever the intervals (`ObservedIsPacer`), which needs only that its floor is not above the
value it starts from (`PacingAssumption`: 64 and 256 in the code); so a tick may always change at
least one block (`LimitWithinBudget`).

`DiskStoreProofs` proves `DiskTypeCorrect`, `FilesAlwaysAgree`, `BackupAlwaysVerified` and
`ReadsAlwaysAtomic` for versions of any number of pieces, any readers, crashes and saves, under
`OneSaver`: no two workers may be asked to write backups of the name. `backup_remove` shows that
without it they do not hold. The invariant says what a call has done by each of its steps: what
its local variables hold (`LocalsAgree`), how much of the temporary file is written and that the
file is the one the name stands for (`TempAgrees`), that the payload it renamed is still there
unless deleted (`PayloadStays`), and that both destinations are complete (`Complete`). Writing a
piece changes only a file no destination names, because two names never stand for one file, which
is part of `StoreOK`.

`ReadsAlwaysAtomic` is about what others do between two steps of a reader. Its invariant (`RInv`) says of a
read under way that the present moment is in `seen`, and that it saw a delete or, if the sidecar that stands
there now would be accepted with the payload that was read, these two were on the disk together at a
moment it saw (`Sound`). That an export keeps this needs `IInv`: a step that changes the sidecar puts it beside
the payload of the same version (`PairsChangeTogether`), so that a sidecar which fits the payload that was
read is then accepted at a moment that shows both.

`PlayerSessionProofs` proves `SessionTypeCorrect`, `StoresAlwaysOwned`, `AlwaysOneActivity` and
`OnlyWantedPastes` for any number of players, workers, stores and requests. `StoresOwned` is not
inductive: what a task returns becomes a placement or a plan when its callback runs, and a failed
preparation gives its placement back. The invariant therefore counts the results of tasks among
the owners: each store owned by a placement, a preparation, a job's plan or a result is open and
owned once (`OwnedOnce`). A token stands for the player's own task, which reads the placement
taken and returns a plan for its pose (`RequestAgrees`). A preparation nobody waits for finds its
placement closed, so that its failure gives nothing back (`TaskAgrees`), and a queued task has not
begun (`WaitingAgrees`). Most handlers only pass a store from one owner to another or give
it up, which two lemmas (`OwnersMove`, `GivingUp`) treat once. A new store differs from every
owned one, because `Unused` holds of it.

`SchematicStoreProofs` proves `StoreTypeCorrect`, `TablesAlwaysAgree` and `StoreImplementsLibrary`
for any number of requests, contents, pieces and attempts. `TablesAgree` is inductive with the type
invariant. The refinement needs what a request knows at each of its steps (`RequestAgrees`): which
operations reach which step, that a read holds the id and content of the row it saw, and that only
a payload equal to that content's is ever verified. Each action is then a step of `Library`, or
leaves what clients see unchanged (`View`, `Entry`): the piece-by-piece reads and the retries are of
the second kind. `StoreAssumption` asks that a move names its category, as `move` does by normalising
it first.

`PasteHistoryProofs` proves `HistoryTypeCorrect`, `HistoryAlwaysAccounted`, `CompletedPlansInWorld`,
`PasteAlwaysUndoable`, `HistoryAlwaysTimeline` and `HistoryLosesLittle` for any positions, blocks, plans and limits. The invariant says of a
running job what its records so far have done (`JobAgrees`): every position either has its one change, from the block at the
start to the block now, or is as it was (`Tracked`), from which taking the changes back and
applying them follow (`RewoundIs`). What it counts accounts for the records behind it
(`Truthful`): every way a record can end leaves the wanted block, or one of its type and a count, or a
failure or a missing block counted (`Owed`, `EndCounts`), and a job that took to writing a palette entry by
type has counted that. The capture needs that no write raises after it took effect, so
`PasteAlwaysUndoable` has the premise `~LateErrors`; the others hold without. Of the stacks it says
that no storage appears twice and that both together are within the limits (`StacksAgree`), so
that an undo moves an entry and a redo evicts none. `BlockCount` is a recursive function: that an
append adds to it and that it is unique is proved by looking at the first number where it would
fail (`LeastNatural`), not by an induction theorem.

The timeline speaks of all entries of both stacks at once, as long as no change went unrecorded
(`intact`). Its invariant (`Timeline`) names the worlds: for each stack there is a sequence of
worlds that starts at the present one, where the present of a running job is the world it
started from, and each entry leads between its two (`Leads`, `Tells`). A push, a pop, a move to the
other stack and an eviction at the bottom each keep that; an undo finds the world its entry was
recorded in because the entry is on top. `HistoryLosesLittle` says what the premise comes to: with
`~LateErrors`, `intact` is lost only at the end of a paste that does not capture, or of an undo or
redo that was stopped, counts a record it did not write as it was, or is not verified. It is an action property of the same invariant.

`SaveScanProofs` proves `SaveScanTypeCorrect` for any selection, limits and timeouts, and
`ScanAlwaysExact` and `VerifiedRegionsAlwaysKept` with the premise `~ReloadUnnoticed`. The
invariant has two parts. What the job counts agrees with the blocks it has visited, whatever it
read there (`Accounted`): the integrity check can therefore never fail, with or without the
premise. And the snapshot is the job as it was at the start of its region, of which nothing has
changed since (`Preserved`), so that a rollback gives back exactly the regions before
(`RollbackIs`). Whether the current region is exact is not known at every moment: behind a trusted answer a
chunk may already be gone, and its blocks be read as air. Such a job is `Tainted`, and stays so
until the gate looks at the chunk and the region is discarded; at the end of a region the answer is
never a trusted one, so an advancing job is not tainted. The premise is used in one step, that of
the world (`TickPreserves`). A batch is followed block by block to the first at which the
invariant would fail (`BatchGood`).

Assumptions are the named ones of `ChunkGate` (`GateAssumption`), `SaveScan` (`ScanAssumption`:
regions have blocks; `UnwrittenAssumption`), `RecordStore` (`RecordStoreAssumption`), `ChunkTickets` (`TicketsAssumption`), `Planner`
(`PlannerAssumption`: among others, palettes are sequences), `Codec` (`CodecAssumption`), `SpongeSchem` (`SpongeAssumption`), `Loading`
(`LoadingAssumption`: pieces are not empty), `Scheduler` (`SchedulerAssumption`, `PacingAssumption`), `DiskStore` (`DiskStoreAssumption`),
`PlayerSession` (`SessionAssumption`), `SchematicStore` (`StoreAssumption`) and `PasteHistory`
(`HistoryAssumption`: plans are sequences of records that name no position twice, limits are
positive), `BlockData` (`BlockDataAssumption`: at least one level is allowed, and the members of a value
are values) and `EntityRestore` (`EntityAssumption`: the payloads are snapshots of the actors), which TLC
evaluates.

Every safety invariant and every action property of the passing runs is stated by a theorem. Only
model-checked: the liveness properties, since fairness is outside the reach of the prover.

## Findings

1. `ticket_journal`: the journal is emptied before the areas it names are removed
   (plugin.py:257-262, 375-380).
2. `store_retry`: an overwriting save whose acknowledgement is lost is stored a second time over
   what others stored since (database.py:657-687).
3. `backup_remove`: two backups of a name write through one temporary file, and the row is deleted
   behind a file that holds a mixture (disk_store.py:217-223, plugin.py:2475-2486). Besides, the
   row is deleted by name, whatever another server saved there since the download.
4. `turned_states`: the integer `direction` of trapdoors, beds and others is not turned
   (rotation.py:80-83).

Three divergences have no run of their own. A redo that loses its chunk tells the player that a
partial undo was kept and keeps none (plugin.py:2060-2064, 1760-1787). When every job is visited
in a tick, the next tick starts with the same player, so one job can take the only chunk
request of every tick while it runs through loaded chunks (plugin.py:1059, 1953). And the NBT of a
block entity is encoded key by key (blockdata_integration.py:146-150) but decoded as one object (line
275): if its keys, without the read-only ones, are those of a wrapper, the whole is taken for what the
wrapper stands for, since only the compounds inside are wrapped once more (stated by `EntitiesSurvive`).

## Plan

Done, in this order: `ChunkTickets` and its proofs; `ChunkGate` and `SaveScan`; `PasteHistory`;
`Library` and `SchematicStore`; `PlayerSession`; `Rotation` and `Planner`; `Scheduler` and `Pacing`;
`RecordStore` under the save scan and the planner; `Codec`, `BlockData`, `SpongeSchem` and
`Loading`; `DiskStore`.

Left: the save loop in `Scheduler` with the save jobs' requests made explicit.

## Not modelled

Of the WorldEdit export: the tables of renamed and custom blocks and of states without a
direction, whose entries are data no property tells apart; the NBT writer; and
`WorldEditSchematicStore.save`, which writes and renames as the disk store does. Of BlockData:
finding the external service and what it is capable of. JSON text and zlib streams, by
abstraction. Errors of the ticket journal's own file. Forms, commands and messages: they call
the operations above. Compatibility lookups, configuration merging, access tags: stateless; a
revoked access is an abort. The add-on pack, SQL files and scripts: data and tooling. Listings
of the store and of the disk: they read and change nothing.
