-------------------------------- MODULE Planner --------------------------------
(***************************************************************************)
(* planner.py: the order in which a selection is scanned, and the plan of a *)
(* paste, which has the schematic's records turned and grouped by the chunk *)
(* they go to.  prepare_streaming_paste_plan builds it in bounded batches   *)
(* for schematics that do not fit into memory: it counts the records of     *)
(* every chunk, reserves a range for each, and scatters one batch after the *)
(* other into the ranges.  Its result is compared with prepare_paste_plan.  *)
(*                                                                          *)
(* A record is <<dx, dy, dz, palette index>>; its bytes are RecordSize      *)
(* units.                                                                   *)
(***************************************************************************)
EXTENDS Rotation, RecordStore, SequencesExt, FiniteSetsExt

CONSTANTS
    ChunkWidth,    \* 16 in the code
    BatchRecords,  \* records per batch (plan_batch_records, at least 1024)
    Sizes,         \* bound: selections
    Lows,          \* bound: low corners of the saved selection
    Anchors,       \* bound: anchors of the paste
    Palettes,      \* bound: palettes, of which a record's block is one entry
    Strays,        \* bound: sets of entity positions beside those of the blocks
    BlockOf(_),    \* bound: the palette index of the block at a position
    WithEntity,    \* palette indexes of the blocks that have a block entity
    EntityAt(_)    \* bound: the payload captured of the block entity at a position

ASSUME PlannerAssumption ==
    /\ ChunkWidth \in Nat \ {0} /\ BatchRecords \in Nat \ {0}
    /\ Sizes \subseteq (Nat \ {0}) \X (Nat \ {0}) \X (Nat \ {0})
    /\ Lows \cup Anchors \subseteq Int \X Int \X Int
    /\ \A stray \in Strays : IsFiniteSet(stray) /\ stray \subseteq Nat \X Nat \X Nat
    /\ \A size \in Sizes : \A p \in (0 .. size[1] - 1) \X (0 .. size[2] - 1) \X (0 .. size[3] - 1) :
         BlockOf(p) \in Nat
    /\ \A palette \in Palettes : palette \in Seq(ToSet(palette))
    /\ Unwritten \notin {"record"} \X (1 .. RecordSize) \X (Nat \X Nat \X Nat \X Nat)

\* The elements that are in S, in their order.
Selected(elements, S) ==
    LET selected[n \in 0 .. Len(elements)] ==
          IF n = 0 THEN <<>>
          ELSE IF elements[n] \in S THEN Append(selected[n - 1], elements[n])
          ELSE selected[n - 1]
    IN selected[Len(elements)]

ChunkOf(position) == <<position[1] \div ChunkWidth, position[3] \div ChunkWidth>>

----------------------------------------------------------------------------
(* Scanning: build_chunk_regions and SaveJob.coordinates. *)

\* The chunks a side of the selection reaches into.
SpanFromRemainder(first, last) ==                                     \* mutant
    (first \div ChunkWidth) .. (first \div ChunkWidth) + ((last - first) \div ChunkWidth)
Span(first, last) == (first \div ChunkWidth) .. (last \div ChunkWidth)

\* The part of the selection in one chunk.
Region(low, high, cx, cz) ==
    [chunk |-> <<cx, cz>>,
     min |-> <<Max({low[1], cx * ChunkWidth}), low[2], Max({low[3], cz * ChunkWidth})>>,
     max |-> <<Min({high[1], (cx + 1) * ChunkWidth - 1}), high[2],
               Min({high[3], (cz + 1) * ChunkWidth - 1})>>]

\* Chunk row after chunk row.
ChunkRegions(low, size) ==
    LET high == [i \in 1 .. 3 |-> low[i] + size[i] - 1]
        xs == Span(low[1], high[1])
        zs == Span(low[3], high[3])
        columns == Cardinality(xs)
    IN [n \in 1 .. columns * Cardinality(zs) |->
          Region(low, high, Min(xs) + ((n - 1) % columns), Min(zs) + ((n - 1) \div columns))]

\* The positions of a region, x fastest, then z, then y.
Coordinates(region) ==
    LET s == [i \in 1 .. 3 |-> region.max[i] - region.min[i] + 1]
    IN [n \in 1 .. s[1] * s[2] * s[3] |->
          <<region.min[1] + ((n - 1) % s[1]),
            region.min[2] + ((n - 1) \div (s[1] * s[3])),
            region.min[3] + (((n - 1) \div s[1]) % s[3])>>]

Minus(position, low) == [i \in 1 .. 3 |-> position[i] - low[i]]
Plus(position, anchor) == [i \in 1 .. 3 |-> position[i] + anchor[i]]

\* All positions of a selection in the order a save stores them, relative to low.
ScanOrder(low, size) ==
    LET regions == ChunkRegions(low, size)
        scanned == FlattenSeq([n \in DOMAIN regions |-> Coordinates(regions[n])])
    IN [n \in DOMAIN scanned |-> Minus(scanned[n], low)]

Box(size) == (0 .. size[1] - 1) \X (0 .. size[2] - 1) \X (0 .. size[3] - 1)
Volume(size) == size[1] * size[2] * size[3]

----------------------------------------------------------------------------
(* Validation and the plan as prepare_paste_plan defines it. *)

Place(record) == SubSeq(record, 1, 3)
Places(records) == {Place(records[n]) : n \in DOMAIN records}

\* The bytes of records, and what a reader makes of them: a record torn apart is none.
RecordUnits(record) == [part \in 1 .. RecordSize |-> <<"record", part, record>>]
Packed(records) ==
    [n \in 1 .. Len(records) * RecordSize |->
       <<"record", ((n - 1) % RecordSize) + 1, records[((n - 1) \div RecordSize) + 1]>>]
Unpacked(units) ==
    [n \in 1 .. Len(units) \div RecordSize |->
       LET record == SubSeq(units, (n - 1) * RecordSize + 1, n * RecordSize)
       IN IF Unwritten \notin ToSet(record) /\ record = RecordUnits(record[1][3])
            THEN record[1][3] ELSE Unwritten]

\* validate_schematic_integrity
Valid(schematic) ==
    /\ schematic.fullVolume => Len(schematic.records) = Volume(schematic.size)
    /\ Len(schematic.records) <= Volume(schematic.size)
    /\ \A n \in DOMAIN schematic.records :
         /\ Place(schematic.records[n]) \in Box(schematic.size)
         /\ schematic.records[n][4] < Len(schematic.palette)
    /\ DOMAIN schematic.entities \subseteq Places(schematic.records) \cap Box(schematic.size)

Turned(schematic, rotation) ==
    [n \in DOMAIN schematic.records |->
       Append(RotateCoord(Place(schematic.records[n]), schematic.size, rotation),
              schematic.records[n][4])]
TurnedEntities(schematic, rotation) ==
    LET turn == [p \in DOMAIN schematic.entities |-> RotateCoord(p, schematic.size, rotation)]
    IN [q \in Range(turn) |-> schematic.entities[CHOOSE p \in DOMAIN turn : turn[p] = q]]

Target(position, anchor) == ChunkOf(Plus(position, anchor))

Square(n) == n * n
Distance(chunk, anchor) ==
    Square(chunk[1] - ChunkOf(anchor)[1]) + Square(chunk[2] - ChunkOf(anchor)[2])

\* Nearest chunk first, then by z, then by x.
InChunkOrder(anchor, a, b) ==
    LET da == Distance(a, anchor)
        db == Distance(b, anchor)
    IN \/ da < db
       \/ da = db /\ (a[2] < b[2] \/ (a[2] = b[2] /\ a[1] <= b[1]))

OrderedChunks(positions, anchor) ==
    LET chunks == {Target(positions[n], anchor) : n \in DOMAIN positions}
        UpTo(c) == {d \in chunks : InChunkOrder(anchor, d, c)}
    IN [n \in 1 .. Cardinality(chunks) |-> CHOOSE c \in chunks : Cardinality(UpTo(c)) = n]

Bucket(positions, anchor, chunk) ==
    Selected(positions, {p \in ToSet(positions) : Target(p, anchor) = chunk})

\* The end of the n-th range when ranges follow one another in this order.
EndsOf(counts) ==
    LET end[n \in 0 .. Len(counts)] == IF n = 0 THEN 0 ELSE end[n - 1] + counts[n]
    IN end

RangesOf(positions, anchor) ==
    LET chunks == OrderedChunks(positions, anchor)
        end == EndsOf([n \in DOMAIN chunks |-> Len(Bucket(positions, anchor, chunks[n]))])
    IN [n \in DOMAIN chunks |-> [chunk |-> chunks[n], start |-> end[n - 1], end |-> end[n]]]

InMemoryRecords(positions, anchor) ==
    LET chunks == OrderedChunks(positions, anchor)
    IN FlattenSeq([n \in DOMAIN chunks |-> Bucket(positions, anchor, chunks[n])])

----------------------------------------------------------------------------
(* prepare_streaming_paste_plan, batch by batch. *)

VARIABLES
    schematic, \* size, palette, records, entities and the header's includes_air
    anchor, rotation,
    pc,        \* "loaded", "validate", "count", "scatter", "planned" or "refused"
    ranges,    \* the plan's chunks
    offsets,   \* offsets: chunk -> the next record of its range to write
    output,    \* the output buffer: reserved, written out of order, frozen
    batch      \* batch_start

inputs == <<schematic, anchor, rotation>>
vars == <<inputs, pc, ranges, offsets, output, batch>>

UnitsOf(records) == ToSet(Packed(records))

TypeOK ==
    /\ schematic.size \in Sizes /\ schematic.fullVolume \in BOOLEAN
    /\ anchor \in Anchors \cup {<<0, 0, 0>>} /\ rotation \in Rotations
    /\ pc \in {"loaded", "validate", "count", "scatter", "planned", "refused"}
    /\ \A n \in DOMAIN ranges : 0 <= ranges[n].start /\ ranges[n].start < ranges[n].end
    /\ DOMAIN offsets = {ranges[n].chunk : n \in DOMAIN ranges}
    /\ output \in Buffers(UnitsOf(Turned(schematic, rotation)) \cup {Unwritten})
    /\ batch \in 0 .. Len(schematic.records)

\* What a save of a selection stores, of the blocks it kept.
Scanned(size, low, kept, palette, fullVolume, stray) ==
    LET places == Selected(ScanOrder(low, size), kept)
        records == [n \in DOMAIN places |-> Append(places[n], BlockOf(places[n]))]
    IN [size |-> size, palette |-> palette, fullVolume |-> fullVolume, records |-> records,
        entities |-> [p \in {q \in kept : BlockOf(q) \in WithEntity} \cup stray |-> EntityAt(p)]]

\* Any selection, scanned with or without its air; the file may lack records, palette
\* entries or the blocks of entities that its header claims.
IsScanned(contents) ==
    \E size \in Sizes, low \in Lows, palette \in Palettes, fullVolume \in BOOLEAN,
       stray \in Strays : \E kept \in SUBSET Box(size) :
      contents = Scanned(size, low, kept, palette, fullVolume, stray)

\* request_load puts the placement where the player stands, here at the origin.
Unplanned ==
    /\ anchor = <<0, 0, 0>> /\ rotation = 0
    /\ ranges = <<>> /\ offsets = <<>> /\ output = NewBuffer /\ batch = 0

Init ==
    /\ IsScanned(schematic)
    /\ pc = "loaded"
    /\ Unplanned

\* The player places it somewhere and asks for the paste.
Request(a, r) ==
    /\ pc = "loaded"
    /\ pc' = "validate"
    /\ anchor' = a /\ rotation' = r
    /\ UNCHANGED <<schematic, ranges, offsets, output, batch>>

Validate ==
    /\ pc = "validate"
    /\ pc' = IF Valid(schematic) THEN "count" ELSE "refused"
    /\ UNCHANGED <<inputs, ranges, offsets, output, batch>>

\* The first pass counts; the ranges are laid out and the output is reserved.
Count ==
    /\ pc = "count"
    /\ pc' = "scatter"
    /\ ranges' = RangesOf(Turned(schematic, rotation), anchor)
    /\ offsets' = [c \in {ranges'[n].chunk : n \in DOMAIN ranges'} |->
                     (CHOOSE r \in ToSet(ranges') : r.chunk = c).start]
    /\ output' = Reserve(output, Len(schematic.records) * RecordSize)
    /\ UNCHANGED <<inputs, batch>>

\* Records of the batch that starts at batch_start.
Batch(start) ==
    SubSeq(Turned(schematic, rotation), start + 1,
           Min({start + BatchRecords, Len(schematic.records)}))

\* Every bucket of a batch is written behind what earlier batches wrote to its range.
StartOfRange(chunk) == (CHOOSE r \in ToSet(ranges) : r.chunk = chunk).start    \* mutant
BucketOffset(chunk) == offsets[chunk]

BucketsWritten(buckets) ==
    LET chunk(n) == ranges[n].chunk
        written[n \in 0 .. Len(ranges)] ==
          IF n = 0 THEN output
          ELSE WriteAt(written[n - 1], BucketOffset(chunk(n)) * RecordSize,
                       Packed(buckets[chunk(n)]))
    IN written[Len(ranges)]

Scatter ==
    /\ pc = "scatter" /\ batch < Len(schematic.records)
    /\ LET buckets == [c \in DOMAIN offsets |-> Bucket(Batch(batch), anchor, c)]
       IN /\ output' = BucketsWritten(buckets)
          /\ offsets' = [c \in DOMAIN offsets |-> offsets[c] + Len(buckets[c])]
    /\ batch' = Min({batch + BatchRecords, Len(schematic.records)})
    /\ UNCHANGED <<inputs, pc, ranges>>

\* The last check: every range is filled to its end; else the plan is thrown away.
Finish ==
    /\ pc = "scatter" /\ batch = Len(schematic.records)
    /\ pc' = IF \A n \in DOMAIN ranges : offsets[ranges[n].chunk] = ranges[n].end
               THEN "planned" ELSE "refused"
    /\ UNCHANGED <<inputs, ranges, offsets, output, batch>>

Next ==
    \/ \E a \in Anchors, r \in Rotations : Request(a, r)
    \/ Validate \/ Count \/ Scatter \/ Finish
Spec == Init /\ [][Next]_vars

----------------------------------------------------------------------------
(* What scanning and planning promise. *)

\* A save visits every block of its selection exactly once, and no region leaves its
\* chunk, wherever the selection lies (build_chunk_regions, SaveJob.coordinates).
ScanVisitsSelectionOnce ==
    pc = "loaded" => \A low \in Lows :
      LET regions == ChunkRegions(low, schematic.size)
          order == ScanOrder(low, schematic.size)
      IN /\ Len(order) = Volume(schematic.size)
         /\ ToSet(order) = Box(schematic.size)
         /\ \A n \in DOMAIN regions :
              \A p \in ToSet(Coordinates(regions[n])) : ChunkOf(p) = regions[n].chunk

\* Turning a box fills the turned box, without two blocks in one place, and turning twice
\* is turning by the sum (rotate_coord, rotated_size, normalize_rotation).
RotationTurnsBox ==
    LET size == schematic.size
        turned == RotatedSize(size, rotation)
    IN /\ {RotateCoord(d, size, rotation) : d \in Box(size)} = Box(turned)
       /\ \A d \in Box(size), r \in Rotations :
            RotateCoord(RotateCoord(d, size, rotation), turned, r)
              = RotateCoord(d, size, NormalizeRotation(rotation + r))

\* A block that points to its neighbour points to it after both were turned.
TurnsWithBlocks(family) ==
    LET centre == <<1, 1, 1>>
        cube == <<3, 3, 3>>
        Turn(p) == RotateCoord(p, cube, rotation)
        Points(value) == {Step(s) : s \in Sides(family, value)}
    IN \A value \in Values(family) :
         Points(RotateState(family, value, rotation))
           = {Minus(Turn(Plus(centre, step)), Turn(centre)) : step \in Points(value)}

\* The state values of a planned palette turn the way its coordinates do (rotate_states
\* against rotate_coord).
StatesTurnWithBlocks ==
    pc = "planned" => \A family \in Families : TurnsWithBlocks(family)

\* "Block states and retained BlockData coordinates rotate with the placement", taken at its
\* word for every state that has a direction.
AllStatesTurn ==
    pc = "planned" => \A family \in Families \cup Unturned : TurnsWithBlocks(family)

\* The plan as a paste reads it, record by record through the window.
PlanRecords == Unpacked(ReadThrough(Freeze(output)))

\* A finished plan is the one prepare_paste_plan makes in memory, for every batch size:
\* it has every record once, in order within its chunk, and each chunk in one range, so
\* that a paste loads no chunk twice and completes none too early; and every block entity
\* has its block.
PlanIsComplete ==
    pc = "planned" =>
      LET turned == Turned(schematic, rotation)
      IN /\ PlanRecords = InMemoryRecords(turned, anchor)
         /\ ToSet(PlanRecords) = ToSet(turned) /\ Len(PlanRecords) = Len(turned)
         /\ DOMAIN TurnedEntities(schematic, rotation) \subseteq Places(PlanRecords)
         /\ \A i, j \in DOMAIN ranges : ranges[i].chunk = ranges[j].chunk => i = j
         /\ \A n \in DOMAIN ranges : \A i \in ranges[n].start + 1 .. ranges[n].end :
              ChunkOf(Plus(PlanRecords[i], anchor)) = ranges[n].chunk
         /\ \A n \in DOMAIN ranges :
              ranges[n].end = IF n = Len(ranges) THEN Len(turned) ELSE ranges[n + 1].start
=============================================================================
