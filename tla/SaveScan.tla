------------------------------ MODULE SaveScan ------------------------------
(***************************************************************************)
(* One save job of plugin.py, from start_save to the scan's last region:    *)
(* _process_save_jobs visits the job at most once per server tick, reads a  *)
(* batch of blocks behind the chunk gate, and discards the region it is in  *)
(* whenever the chunk turns out not to be resident.  A read of a chunk that *)
(* is not resident returns air, so the point of the discarding is that no   *)
(* such read ever reaches the saved schematic.                              *)
(*                                                                          *)
(* The selection is the sequence of chunk regions build_chunk_regions cuts  *)
(* it into, each the sequence of its blocks in SaveJob.coordinates order.   *)
(***************************************************************************)
EXTENDS ChunkGate, RecordStore, SequencesExt

CONSTANTS
    Selection,       \* regions of blocks: [key |-> palette key, entity |-> has a block entity]
    Air,             \* the palette key of the air types
    MaxRetries,      \* max_chunk_retries
    EntityLimits,    \* values of blockdata.max_uncompressed_mb, counted in entities
    ReloadUnnoticed  \* a legacy chunk may be lost and come back within VerifyEvery ticks

ASSUME ScanAssumption ==
    /\ Len(Selection) \in Nat \ {0}
    /\ \A r \in 1 .. Len(Selection) :
         /\ Len(Selection[r]) \in Nat \ {0}
         /\ \A i \in 1 .. Len(Selection[r]) : Selection[r][i].entity \in BOOLEAN
    /\ MaxRetries \in Nat /\ EntityLimits \subseteq Nat
    /\ ReloadUnnoticed \in BOOLEAN

VARIABLES
    api,        \* the chunk interface, as in ChunkGate
    includeAir, \* job.include_air
    limit,      \* _blockdata_max_bytes
    phase,      \* "scanning", "scanned" (handed on) or how it failed: "failed" for its
                \* chunk, "invalid" in _validate_save_integrity, "tooLarge" at the limit
    job,        \* the scan's accounting, the fields of SaveJob
    snap,       \* the region_* snapshot fields of SaveJob
    gate,       \* the ticket fields of SaveJob
    resident,   \* the server reports the current region's chunk loaded
    served      \* the job was visited in the current tick

settings == <<api, includeAir, limit>>
vars == <<settings, phase, job, snap, gate, resident, served>>

Regions == 1 .. Len(Selection)
Volume(r) == Len(Selection[r])
Positions == UNION {{r} \X (1 .. Volume(r)) : r \in Regions}
TotalVolume == Cardinality(Positions)
Block(p) == Selection[p[1]][p[2]]
Keys == {Block(p).key : p \in Positions} \cup {Air}

Records == Positions \X (1 .. TotalVolume)

ASSUME UnwrittenAssumption == Unwritten \notin Records

Jobs == [region : 1 .. (Len(Selection) + 1), regionCursor : Nat,
         cursor : 0 .. TotalVolume, nonAir : 0 .. TotalVolume,
         palette : Seq(Keys), records : Buffers(Records \cup {Unwritten}),
         entities : SUBSET Positions, bytes : Nat,
         verified : 0 .. Len(Selection), retries : 0 .. (MaxRetries + 1)]

Snapshots == [active : BOOLEAN, records : 0 .. TotalVolume, palette : 0 .. TotalVolume,
              nonAir : 0 .. TotalVolume, bytes : Nat, cursor : 0 .. TotalVolume,
              keys : SUBSET Positions]

NoSnapshot == [active |-> FALSE, records |-> 0, palette |-> 0, nonAir |-> 0,
               bytes |-> 0, cursor |-> 0, keys |-> {}]

TypeOK ==
    /\ api \in Apis /\ includeAir \in BOOLEAN /\ limit \in EntityLimits
    /\ phase \in {"scanning", "scanned", "failed", "invalid", "tooLarge"}
    /\ job \in Jobs /\ snap \in Snapshots
    /\ gate \in Gates
    /\ resident \in BOOLEAN /\ served \in BOOLEAN

\* start_save: a fresh SaveJob.
Init ==
    /\ api \in Apis /\ includeAir \in BOOLEAN /\ limit \in EntityLimits
    /\ phase = "scanning"
    /\ job = [region |-> 1, regionCursor |-> 0, cursor |-> 0, nonAir |-> 0, palette |-> <<>>,
              records |-> NewBuffer, entities |-> {}, bytes |-> 0, verified |-> 0, retries |-> 0]
    /\ snap = NoSnapshot
    /\ gate = Released
    /\ resident \in BOOLEAN /\ served = FALSE

----------------------------------------------------------------------------
(* The steps of a batch. *)

Kept(b) == includeAir \/ b.key # Air

\* What the server returns for a block, with the block entity captured there.
Read(p) == IF resident THEN Block(p) ELSE [key |-> Air, entity |-> FALSE]

PaletteIndex(palette, key) == CHOOSE k \in DOMAIN palette : palette[k] = key

\* A key the palette does not hold yet goes to its end.
Widened(palette, key) ==
    IF Contains(palette, key) THEN palette ELSE Append(palette, key)

NextPosition(j) == <<j.region, j.regionCursor + 1>>

\* _scan_save_batch, for the next block of the region.
ScanBlock(j) ==
    LET p == NextPosition(j)
        block == Read(p)
        palette == Widened(j.palette, block.key)
        visited == [j EXCEPT !.nonAir = IF block.key = Air THEN @ ELSE @ + 1,
                             !.cursor = @ + 1,
                             !.regionCursor = @ + 1]
    IN IF ~Kept(block) THEN visited
       ELSE [visited EXCEPT !.palette = palette,
                            !.records = Extend(@, << <<p, PaletteIndex(palette, block.key)>> >>),
                            !.entities = IF block.entity THEN @ \cup {p} ELSE @,
                            !.bytes = IF block.entity THEN @ + 1 ELSE @]

\* What the next n blocks of the region make of the job.
Batch(n) ==
    LET after[i \in 0 .. n] == IF i = 0 THEN {job} ELSE {ScanBlock(j) : j \in after[i - 1]}
    IN after[n]

\* _begin_save_region_snapshot
Snapshot ==
    IF snap.active
      THEN snap
      ELSE [active |-> TRUE, records |-> job.records.length, palette |-> Len(job.palette),
            nonAir |-> job.nonAir, bytes |-> job.bytes, cursor |-> job.cursor, keys |-> {}]

\* region_block_entity_keys after a batch: every entity captured since the snapshot.
WithKeys(s, j) == [s EXCEPT !.keys = @ \cup {p \in j.entities : p[1] = j.region}]

\* _rollback_save_region, followed by the retry's count.
RollbackKeepingCount(j, s) ==                                         \* mutant
    [j EXCEPT !.records = Truncate(@, s.records),
              !.palette = SubSeq(@, 1, s.palette),
              !.entities = @ \ s.keys,
              !.bytes = s.bytes,
              !.cursor = s.cursor,
              !.regionCursor = 0,
              !.retries = @ + 1]
Rollback(j, s) ==
    [j EXCEPT !.records = Truncate(@, s.records),
              !.palette = SubSeq(@, 1, s.palette),
              !.nonAir = s.nonAir,
              !.entities = @ \ s.keys,
              !.bytes = s.bytes,
              !.cursor = s.cursor,
              !.regionCursor = 0,
              !.retries = @ + 1]

\* A region is tried again max_chunk_retries times; the loss after that fails the save.
PhaseAfterOneMore(j) ==                                               \* mutant
    IF j.retries > MaxRetries + 1 THEN "failed" ELSE "scanning"
PhaseAfterRetry(j) == IF j.retries > MaxRetries THEN "failed" ELSE "scanning"

RegionComplete(j) == j.regionCursor >= Volume(j.region)

\* A verified region: advance_region.
Advanced(j) == [j EXCEPT !.verified = @ + 1, !.retries = 0,
                         !.region = @ + 1, !.regionCursor = 0]

\* _validate_save_integrity (records are whole and regions cover the selection here).
Valid(j) ==
    /\ j.cursor = TotalVolume
    /\ j.verified = Len(Selection)
    /\ includeAir => j.records.length = TotalVolume
    /\ j.records.length <= TotalVolume

----------------------------------------------------------------------------
(* One visit of _process_save_jobs: the disjuncts of Visit. *)

Outcomes == Ensure(api, gate, resident, RegionComplete(job))

\* The job stops for good; its tickets are released and its records closed.
Fail(how) ==
    /\ phase' = how
    /\ gate' = Released
    /\ UNCHANGED <<job, snap>>

\* The request does not fit the tick's budget, or every legacy slot is taken.
HoldDenied ==
    /\ ~gate.held /\ api # "observed"
    /\ UNCHANGED <<phase, job, snap, gate>>

\* The server refuses the hold, or the job waited too long for a legacy slot.
HoldRefused ==
    /\ ~gate.held /\ api # "observed"
    /\ Fail("failed")

\* Not yet: the hold was just taken, the chunk is loading or stabilising.
WaitForChunk ==
    /\ \E e \in Outcomes :
         /\ e.verdict = "wait" \/ (e.verdict = "lost" /\ ~snap.active /\ api # "observed")
         /\ e.gate.held
         /\ gate' = e.gate
    /\ UNCHANGED <<phase, job, snap>>

\* The chunk was lost between two visits of a region: the region is discarded.
LoseRegion ==
    \E e \in Outcomes :
      /\ e.verdict = "lost" /\ snap.active /\ api # "observed"
      /\ job' = Rollback(job, snap)
      /\ phase' = PhaseAfterRetry(job')
      /\ snap' = [snap EXCEPT !.active = FALSE, !.keys = {}]
      /\ gate' = IF phase' = "failed" THEN Released ELSE e.gate

\* Never loaded in time, or (unmanaged) not loaded now: the exception fails the job.
ChunkMissing ==
    /\ \E e \in Outcomes : e.verdict = "late" \/ (e.verdict = "lost" /\ api = "observed")
    /\ Fail("failed")

\* A batch of n blocks, n limited by the budgets, and the check that follows it.
ScanBatch(n) ==
    \E e \in Outcomes, scanned \in Batch(n) :
      LET marks == WithKeys(Snapshot, scanned)
          complete == RegionComplete(scanned)
      IN /\ e.verdict = "go"
         /\ scanned.bytes <= limit
         /\ \/ /\ ~ChunkState(api, e.gate, resident, complete)
               /\ job' = Rollback(scanned, marks)
               /\ phase' = PhaseAfterRetry(job')
               /\ snap' = [marks EXCEPT !.active = FALSE, !.keys = {}]
               /\ gate' = Released
               /\ UNCHANGED resident
            \/ /\ ChunkState(api, e.gate, resident, complete)
               /\ ~complete
               /\ job' = scanned
               /\ snap' = marks
               /\ gate' = Checked(api, e.gate, resident, complete)
               /\ UNCHANGED <<phase, resident>>
            \/ /\ ChunkState(api, e.gate, resident, complete)
               /\ complete
               /\ job' = Advanced(scanned)
               /\ snap' = [marks EXCEPT !.active = FALSE]
               /\ gate' = Released
               /\ phase' = IF job'.cursor < TotalVolume THEN "scanning"
                           ELSE IF Valid(job') THEN "scanned" ELSE "invalid"
               /\ resident' \in BOOLEAN   \* of the next region's chunk

\* The captured block entities exceed their limit in this batch.
EntitiesTooLarge(n) ==
    /\ \E e \in Outcomes : e.verdict = "go"
    /\ \E scanned \in Batch(n) : scanned.bytes > limit
    /\ Fail("tooLarge")

Batches == 1 .. (Volume(job.region) - job.regionCursor)

Visit ==
    /\ phase = "scanning" /\ ~served
    /\ served' = TRUE
    /\ UNCHANGED settings
    /\ \/ /\ HoldDenied \/ HoldRefused \/ WaitForChunk \/ LoseRegion \/ ChunkMissing
          /\ UNCHANGED resident
       \/ \E n \in Batches : ScanBatch(n)
       \/ \E n \in Batches : EntitiesTooLarge(n) /\ UNCHANGED resident

\* Cancelled, access revoked, dimension gone, plugin disabled.
Abandon ==
    /\ phase = "scanning"
    /\ Fail("failed")
    /\ UNCHANGED <<settings, resident, served>>

\* A positive answer about a held legacy chunk that the plugin still relies on.
Relied == api = "legacy" /\ gate.held /\ gate.verified # Unset

\* The server moves on.  Chunks come and go, but one the plugin relies on does not go and
\* come back before it is looked at again, unless ReloadUnnoticed.
WorldTick ==
    /\ phase = "scanning"
    /\ gate' = Aged(gate)
    /\ resident' \in BOOLEAN
    /\ (Relied /\ ~resident /\ ~ReloadUnnoticed) => ~resident'
    /\ served' = FALSE
    /\ UNCHANGED <<settings, phase, job, snap>>

Done == phase # "scanning" /\ UNCHANGED vars

Next == Visit \/ Abandon \/ WorldTick \/ Done

\* A tick finds the job, and a request that is denied again and again is answered at last:
\* the jobs visited first are finitely many and end.
Answered == Visit /\ <<phase, job, gate>>' # <<phase, job, gate>>

Spec == Init /\ [][Next]_vars
FairSpec == Spec /\ WF_vars(Visit) /\ WF_vars(WorldTick) /\ SF_vars(Answered)

----------------------------------------------------------------------------
(* What a save promises. *)

\* The positions of the scan before a place in a region, and their order.
Scanned(region, cursor) ==
    {p \in Positions : p[1] < region \/ (p[1] = region /\ p[2] <= cursor)}
Precedes(p, q) == p[1] < q[1] \/ (p[1] = q[1] /\ p[2] < q[2])

\* The job describes exactly the world at the scanned positions: each that a save keeps
\* once, in the order of the scan and with its key, the block entities and the count.
Exact(scanned, j) ==
    LET kept == {p \in scanned : Kept(Block(p))}
        records == Freeze(j.records).content
    IN /\ \A k \in DOMAIN records :
            /\ records[k] # Unwritten
            /\ j.palette[records[k][2]] = Block(records[k][1]).key
            /\ \A l \in 1 .. (k - 1) : Precedes(records[l][1], records[k][1])
       /\ {records[k][1] : k \in DOMAIN records} = kept
       /\ j.entities = {p \in kept : Block(p).entity}
       /\ j.nonAir = Cardinality({p \in scanned : Block(p).key # Air})

\* A scan that is handed on holds every selected block as it is in the world and nothing
\* else, however often its chunks were lost on the way ("unknown state must never validate
\* saved air", _job_chunk_is_resident); the integrity check before it is a defence that no
\* sequence of losses and retries needs.
ScanExact ==
    /\ phase # "invalid"
    /\ phase = "scanned" =>
         /\ Len(Freeze(job.records).content) = job.records.length
         /\ Exact(Positions, job)

\* The regions already counted as verified are never touched again: whatever the current
\* region's batches, losses and retries do, discarding it leaves the others exact.  And an
\* entity captured again after a retry is not counted twice against the limit.
VerifiedRegionsKept ==
    /\ phase = "scanning" => Exact(Scanned(job.region, 0), Rollback(job, Snapshot))
    /\ job.bytes = Cardinality(job.entities)
    /\ phase = "tooLarge" =>
         Cardinality({p \in Positions : Kept(Block(p)) /\ Block(p).entity}) > limit

\* A job whose chunks settle, loaded for good or missing for good, comes to an end: it
\* does not wait for ever behind the gate (chunk_load_timeout, max_chunk_retries).
ChunksSettle == <>[]resident \/ <>[]~resident
SaveEnds == ChunksSettle => <>(phase # "scanning")
=============================================================================
