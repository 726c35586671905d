-------------------------------- MODULE Loading --------------------------------
(***************************************************************************)
(* A schematic on its way from the end of a save to the plan of a paste, or *)
(* to a WorldEdit file.  A save encodes what it scanned; request_load       *)
(* fetches the payload to a file, decodes it in pieces and checks it before *)
(* it becomes the player's placement, from which the planner takes it;      *)
(* request_export_worldedit decodes it at once and converts it.             *)
(*                                                                          *)
(* The payload that is read is the one that was saved, or differs from it   *)
(* in one place: another tool wrote it, or an older version did, or it was  *)
(* cut or altered on its way.                                               *)
(***************************************************************************)
EXTENDS SpongeSchem

CONSTANTS
    PieceSizes   \* bound: units of a piece of the decompressed stream

ASSUME LoadingAssumption == PieceSizes \subseteq Nat \ {0}

VARIABLES
    saved,    \* the schematic as it was scanned
    damage,   \* what is wrong with the payload
    file,     \* the payload as it is read
    decoder,  \* decode_schematic_file: what it has read and parsed
    read,     \* units of the stream the decoder has taken
    export    \* the Sponge file

loadVars == <<saved, damage, file, decoder, read, export>>

----------------------------------------------------------------------------
(* Payloads. *)

\* The frozen buffer of the scan.
Source(contents) == Freeze(Extend(NewBuffer, Packed(contents.records)))

Units(contents) == Packed(contents.records)

PrefixDamages == {"magic", "version", "legacyPrefix", "headerLong", "headerShort", "fewer"}
HeaderDamages == {"legacyHeader", "noPalette", "encoding", "headerCount", "entitiesLong",
                  "entitiesShort", "entitiesMissing", "entitiesMore"}

DamagedPrefix(prefix, kind) ==
    CASE kind = "magic" -> [prefix EXCEPT !.magic = FALSE]
      [] kind = "version" -> [prefix EXCEPT !.version = FormatVersion + 1]
      [] kind = "legacyPrefix" -> [prefix EXCEPT !.version = LegacyFormatVersion]
      [] kind = "headerLong" -> [prefix EXCEPT !.headerLength = @ + 1]
      [] kind = "headerShort" -> [prefix EXCEPT !.headerLength = @ - 1]
      [] kind = "fewer" -> [prefix EXCEPT !.count = @ - 1]

DamagedHeader(header, kind) ==
    CASE kind = "legacyHeader" -> [header EXCEPT !.version = LegacyFormatVersion]
      [] kind = "noPalette" -> [header EXCEPT !.hasPalette = FALSE]
      [] kind = "encoding" -> [header EXCEPT !.jsonEntities = FALSE]
      [] kind = "headerCount" -> [header EXCEPT !.count = @ + 1]
      [] kind = "entitiesLong" -> [header EXCEPT !.entityUnits = @ + 1]
      [] kind = "entitiesShort" ->
           [header EXCEPT !.entityUnits = IF @ = 0 THEN MaxEntityUnits + 1 ELSE @ - 1]
      [] kind = "entitiesMissing" -> [header EXCEPT !.entityUnits = 0]
      [] kind = "entitiesMore" -> [header EXCEPT !.entityCount = @ + 1]

\* A file of version 1, which has no block entities.
Legacy(contents) ==
    LET count == Len(contents.records)
    IN Payload([Prefix(count) EXCEPT !.version = LegacyFormatVersion],
               [Header(contents, count) EXCEPT !.version = LegacyFormatVersion], <<>>,
               <<Units(contents)>>)

\* The payload with one thing wrong; a "row" that is wrong leaves the payload alone.
Damages ==
    PrefixDamages \cup HeaderDamages
      \cup {"none", "row", "legacy", "checksum", "cut", "partialRecord", "extraRecord"}

Damaged(contents, kind) ==
    LET count == Len(contents.records)
        units == Units(contents)
        good == Encoded(contents, Source(contents))
        With(prefix, header, pieces) == Payload(prefix, header, contents.entities, pieces)
        WithRecords(pieces) == With(Prefix(count), Header(contents, count), pieces)
    IN CASE kind \in {"none", "row"} -> good
         [] kind = "legacy" -> Legacy(contents)
         [] kind = "checksum" -> [good EXCEPT !.intact = FALSE]
         [] kind = "cut" -> [good EXCEPT !.stream = Front(@), !.complete = FALSE]
         [] kind = "partialRecord" -> WithRecords(<<SubSeq(units, 1, Len(units) - 1)>>)
         [] kind = "extraRecord" -> WithRecords(<<units, SubSeq(units, 1, RecordSize)>>)
         [] kind \in PrefixDamages ->
              With(DamagedPrefix(Prefix(count), kind), Header(contents, count), <<units>>)
         [] kind \in HeaderDamages ->
              With(Prefix(count), DamagedHeader(Header(contents, count), kind), <<units>>)

\* The record count of its row in the library (request_load compares it).
RowCount == IF damage = "row" THEN Len(saved.records) + 1 ELSE Len(saved.records)

----------------------------------------------------------------------------
(* Loading and exporting. *)

\* The stand-in for the placement that is not there yet.
NoPlacement(contents) == [contents EXCEPT !.records = <<>>, !.entities = <<>>]

\* The DecodedSchematic of what a decoder accepted.
SchematicOf(decoded) ==
    [size |-> decoded.header.size, palette |-> decoded.header.palette,
     fullVolume |-> decoded.header.fullVolume, records |-> Unpacked(decoded.records),
     entities |-> decoded.entities]

\* One thing is wrong at most: with the payload, or with what was scanned.
LoadInit ==
    /\ IsScanned(saved) /\ Encodable(saved)
    /\ damage \in IF Valid(saved) /\ saved.records # <<>> THEN Damages ELSE {"none"}
    /\ file = Damaged(saved, damage)
    /\ decoder = NewDecoder /\ read = 0
    /\ export = [size |-> <<>>, palette |-> <<>>, data |-> <<>>]
    /\ schematic = NoPlacement(saved)
    /\ pc = "load"
    /\ Unplanned

planVars == <<schematic, anchor, rotation, ranges, offsets, output, batch>>

\* The next piece of the decompressed stream, of any size.
Read(size) ==
    /\ pc = "load" /\ ~decoder.failed
    /\ size <= Len(file.stream) - read
    /\ decoder' = Consumed(decoder, SubSeq(file.stream, read + 1, read + size))
    /\ read' = read + size
    /\ UNCHANGED <<planVars, pc, saved, damage, file, export>>

\* The decoder is done: what it accepts is checked and becomes the placement.  There is room
\* for the records (_ensure_stream_workspace): a failure for want of it is TaskFails of
\* PlayerSession.
FinishLoad ==
    /\ pc = "load" /\ (decoder.failed \/ read = Len(file.stream))
    /\ LET decoded == Finished(file, decoder)
       IN IF /\ decoded.accepted
             /\ Valid(SchematicOf(decoded))
             /\ Len(decoded.records) = RowCount * RecordSize
            THEN pc' = "loaded" /\ schematic' = SchematicOf(decoded)
            ELSE pc' = "refused" /\ UNCHANGED schematic
    /\ UNCHANGED <<anchor, rotation, ranges, offsets, output, batch, loadVars>>

\* request_export_worldedit, in place of a load.
ExportWorldEdit ==
    /\ pc = "load" /\ read = 0
    /\ LET decoded == DecodeWhole(file)
       IN IF decoded.accepted /\ Exportable(SchematicOf(decoded))
            THEN pc' = "exported" /\ export' = Sponge(SchematicOf(decoded))
            ELSE pc' = "unexported" /\ UNCHANGED export
    /\ UNCHANGED <<planVars, saved, damage, file, decoder, read>>

LoadNext ==
    \/ \E size \in PieceSizes : Read(size)
    \/ FinishLoad
    \/ ExportWorldEdit
    \/ Next /\ UNCHANGED loadVars

LoadSpec == LoadInit /\ [][LoadNext]_<<vars, loadVars>>

----------------------------------------------------------------------------
(* What loading promises. *)

LoadTypeOK ==
    /\ IF pc \in {"load", "exported", "unexported"} THEN schematic = NoPlacement(saved) ELSE TypeOK
    /\ damage \in Damages
    /\ read \in 0 .. Len(file.stream)
    /\ decoder.records \in Buffers(ToSet(file.stream) \cup {Unwritten})
    /\ Len(decoder.buffer) <= read

\* However the stream falls into pieces, also inside the prefix, the header or a record,
\* and with memory or a temporary file behind the records, decode_schematic_file accepts
\* what decode_schematic accepts and returns the same.
StreamedDecodeIsDecode ==
    decoder.failed \/ read = Len(file.stream) => Finished(file, decoder) = DecodeWhole(file)

\* The placement a load makes is what the save scanned, and so is the one a paste is
\* planned for: a payload, header or row that is inconsistent anywhere is refused, and
\* nothing else is for what it holds, but for an export whose sides are too long.  A legacy
\* file has no block entities.
SavedIsLoaded ==
    /\ pc \notin {"load", "refused", "exported", "unexported"} =>
         schematic = IF damage = "legacy" THEN [saved EXCEPT !.entities = <<>>] ELSE saved
    /\ damage \in {"none", "legacy"} /\ Valid(saved) =>
         /\ pc # "refused"
         /\ pc = "unexported" => \E i \in 1 .. 3 : saved.size[i] >= 2 * ShortHalf

\* A reader of the Sponge file finds at every place of the box the Java name of the block
\* that was saved there, pointing to the same sides, and air where no block was saved.
SpongeHoldsSchematic ==
    pc = "exported" =>
      /\ \A i \in 1 .. 3 : UnsignedShort(export.size[i]) = saved.size[i]
      /\ \A i, j \in DOMAIN export.palette : export.palette[i] = export.palette[j] => i = j
      /\ Len(VarintsIn(export.data)) = Volume(saved.size)
      /\ \A place \in Box(saved.size) :
           NameAt(export, place) =
             IF place \in Places(saved.records)
               THEN JavaName[saved.palette[BlockOf(place) + 1]] ELSE Air
      /\ \A family \in JavaFamilies : \A value \in Values(family) :
           JavaSides(JavaState(family, value)[1], JavaState(family, value)[2])
             = Sides(family, value)
=============================================================================
