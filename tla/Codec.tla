--------------------------------- MODULE Codec ---------------------------------
(***************************************************************************)
(* codec.py: the NSCM payload, one zlib stream of a prefix, a JSON header,  *)
(* the block entities and the records.  encode_schematic_to_file writes it  *)
(* piece by piece; decode_schematic reads it at once, decode_schematic_file *)
(* in pieces that may end anywhere, also inside the prefix or the header.   *)
(*                                                                          *)
(* A byte of the uncompressed stream is a unit <<section, number, content>>, *)
(* where the content is what the whole section says: a reader gets it only  *)
(* from the complete section.                                               *)
(***************************************************************************)
EXTENDS Planner

CONSTANTS
    PrefixSize,      \* units of the prefix
    HeaderSize,      \* units of the header
    MaxHeader,       \* MAX_HEADER_BYTES
    MaxEntityUnits,  \* MAX_BLOCK_ENTITY_BYTES
    ChunkSize        \* units of the pieces the records are encoded in (chunk_bytes)

ASSUME CodecAssumption ==
    /\ {PrefixSize, HeaderSize, ChunkSize} \subseteq Nat \ {0}
    /\ {MaxHeader, MaxEntityUnits} \subseteq Nat

FormatVersion == 2
LegacyFormatVersion == 1

Section(name, content, size) == [n \in 1 .. size |-> <<name, n, content>>]

\* The units are the whole section of this name, of the size its content has.
Reads(name, units, SizeOf(_)) ==
    /\ units # <<>> /\ units[1][1] = name
    /\ units = Section(name, units[1][3], SizeOf(units[1][3]))

\* No entities take no bytes.
EntityUnits(entities) == IF entities = <<>> THEN 0 ELSE Cardinality(DOMAIN entities) + 1

\* _normalized_header
Header(contents, count) ==
    [version |-> FormatVersion, count |-> count, palette |-> contents.palette,
     hasPalette |-> TRUE, jsonEntities |-> TRUE,
     entityUnits |-> EntityUnits(contents.entities),
     entityCount |-> Cardinality(DOMAIN contents.entities),
     size |-> contents.size, fullVolume |-> contents.fullVolume]

\* encode_schematic_to_file: what is in the file, whether the zlib stream came to its end
\* and whether the file has the expected hash.
Payload(prefix, header, entities, pieces) ==
    [stream |-> Section("prefix", prefix, PrefixSize) \o Section("header", header, HeaderSize)
                  \o Section("entities", entities, EntityUnits(entities)) \o FlattenSeq(pieces),
     complete |-> TRUE, intact |-> TRUE]

Prefix(count) ==
    [magic |-> TRUE, version |-> FormatVersion, headerLength |-> HeaderSize, count |-> count]

\* The encoder writes no payload that is beyond the limits.
Encodable(contents) ==
    HeaderSize <= MaxHeader /\ EntityUnits(contents.entities) <= MaxEntityUnits

Encoded(contents, source) ==
    LET count == RecordCount(source)
    IN Payload(Prefix(count), Header(contents, count), contents.entities,
               ChunksOf(source, ChunkSize))

----------------------------------------------------------------------------
(* What both decoders check. *)

PrefixAccepted(prefix) ==
    /\ prefix.magic
    /\ prefix.version \in {LegacyFormatVersion, FormatVersion}
    /\ prefix.headerLength <= MaxHeader

\* _validate_decoded_header
HeaderAccepted(header, prefix) == header.hasPalette /\ header.count = prefix.count

\* _block_entity_section_fields: a legacy file has no such section.
EntityFieldsAccepted(header, prefix) ==
    /\ header.version = prefix.version
    /\ prefix.version = FormatVersion =>
         /\ header.jsonEntities
         /\ header.entityUnits <= MaxEntityUnits
         /\ header.entityCount <= prefix.count
DeclaredUnits(header, prefix) ==
    IF prefix.version = LegacyFormatVersion THEN 0 ELSE header.entityUnits
DeclaredCount(header, prefix) ==
    IF prefix.version = LegacyFormatVersion THEN 0 ELSE header.entityCount

\* _decode_block_entities
EntitiesAccepted(units, count) ==
    IF units = <<>> THEN count = 0
    ELSE Reads("entities", units, EntityUnits) /\ Cardinality(DOMAIN units[1][3]) = count
EntitiesIn(units) == IF units = <<>> THEN <<>> ELSE units[1][3]

Refused == [accepted |-> FALSE]
Decoded(header, entities, records) ==
    [accepted |-> TRUE, header |-> header, entities |-> entities, records |-> records]

\* decode_schematic
DecodeWhole(file) ==
    LET raw == file.stream
        prefix == raw[1][3]
        headerEnd == PrefixSize + prefix.headerLength
        header == raw[PrefixSize + 1][3]
        entityEnd == headerEnd + DeclaredUnits(header, prefix)
        entities == SubSeq(raw, headerEnd + 1, entityEnd)
    IN IF /\ file.intact
          /\ file.complete
          /\ Len(raw) >= PrefixSize /\ PrefixAccepted(prefix)
          /\ Len(raw) >= headerEnd
          /\ Reads("header", SubSeq(raw, PrefixSize + 1, headerEnd), LAMBDA h : HeaderSize)
          /\ EntityFieldsAccepted(header, prefix)
          /\ Len(raw) >= entityEnd
          /\ EntitiesAccepted(entities, DeclaredCount(header, prefix))
          /\ Len(raw) - entityEnd = prefix.count * RecordSize
          /\ HeaderAccepted(header, prefix)
         THEN Decoded(header, EntitiesIn(entities), SubSeq(raw, entityEnd + 1, Len(raw)))
         ELSE Refused

----------------------------------------------------------------------------
(* decode_schematic_file: what its consume keeps between two pieces. *)

\* The prefix buffer, until the head is parsed; then its header, entities and count.
NewDecoder ==
    [buffer |-> <<>>, failed |-> FALSE, head |-> <<>>, records |-> NewBuffer]

HeaderEnd(buffer) == PrefixSize + buffer[1][3].headerLength
HasPrefix(buffer) == Len(buffer) >= PrefixSize
HasHeader(buffer) == HasPrefix(buffer) /\ Len(buffer) >= HeaderEnd(buffer)
HeaderOf(buffer) == buffer[PrefixSize + 1][3]
EntityEnd(buffer) == HeaderEnd(buffer) + DeclaredUnits(HeaderOf(buffer), buffer[1][3])
EntitiesOf(buffer) == SubSeq(buffer, HeaderEnd(buffer) + 1, EntityEnd(buffer))

HeaderSound(buffer) ==
    /\ Reads("header", SubSeq(buffer, PrefixSize + 1, HeaderEnd(buffer)), LAMBDA h : HeaderSize)
    /\ HeaderAccepted(HeaderOf(buffer), buffer[1][3])
    /\ EntityFieldsAccepted(HeaderOf(buffer), buffer[1][3])

\* The header may be there while the entities are not: it is parsed again then.
HasHead(buffer) ==
    HasHeader(buffer) /\ HeaderSound(buffer) /\ Len(buffer) >= EntityEnd(buffer)

Broken(buffer) ==
    \/ HasPrefix(buffer) /\ ~PrefixAccepted(buffer[1][3])
    \/ HasHeader(buffer) /\ ~HeaderSound(buffer)
    \/ /\ HasHead(buffer)
       /\ ~EntitiesAccepted(EntitiesOf(buffer),
                            DeclaredCount(HeaderOf(buffer), buffer[1][3]))

\* What follows the head in the piece that completed it is the first of the records.
TrailingDropped(buffer) == NewBuffer                                  \* mutant
Trailing(buffer) ==
    Extend(NewBuffer, SubSeq(buffer, EntityEnd(buffer) + 1, Len(buffer)))

HeadOf(buffer) ==
    <<HeaderOf(buffer), EntitiesIn(EntitiesOf(buffer)), buffer[1][3].count>>

Consumed(decoder, piece) ==
    LET buffer == decoder.buffer \o piece
        parsed == decoder.head # <<>>
    IN CASE parsed -> [decoder EXCEPT !.records = Extend(@, piece)]
         [] ~parsed /\ Broken(buffer) -> [decoder EXCEPT !.failed = TRUE]
         [] ~parsed /\ ~Broken(buffer) /\ HasHead(buffer) ->
              [decoder EXCEPT !.buffer = <<>>, !.head = HeadOf(buffer),
                              !.records = Trailing(buffer)]
         [] OTHER -> [decoder EXCEPT !.buffer = buffer]

\* The checks after the last piece.
Finished(file, decoder) ==
    IF /\ ~decoder.failed
       /\ file.intact
       /\ file.complete
       /\ decoder.head # <<>>
       /\ decoder.records.length = decoder.head[3] * RecordSize
      THEN Decoded(decoder.head[1], decoder.head[2], ReadThrough(Freeze(decoder.records)))
      ELSE Refused
=============================================================================
