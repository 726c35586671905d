----------------------------- MODULE RecordStore -----------------------------
(***************************************************************************)
(* record_store.py: SpillRecordBuffer, which collects fixed-width records   *)
(* in memory and moves to a temporary file once it grows past a threshold,  *)
(* and RecordSource, the frozen records, read in pieces or one by one       *)
(* through a cached window of the file.  The bytes of a record are its      *)
(* RecordSize units.                                                        *)
(*                                                                          *)
(* The operators take and return a buffer or a source: the modules that use *)
(* records keep it in a variable of theirs.                                 *)
(***************************************************************************)
EXTENDS Integers, Sequences

CONSTANTS
    RecordSize,  \* units of a record, 16 bytes in the code
    Threshold,   \* threshold_bytes, at least one record
    WindowSize,  \* units of the cached window, 1 MiB in the code
    Unwritten    \* model value: a unit of a reserved or skipped range

ASSUME RecordStoreAssumption ==
    /\ RecordSize \in Nat \ {0}
    /\ Threshold \in Nat /\ Threshold >= RecordSize
    /\ WindowSize \in Nat \ {0} /\ WindowSize % RecordSize = 0

\* SpillRecordBuffer: a file once spilled, and the position of its stream.
NewBuffer == [spilled |-> FALSE, memory |-> <<>>, file |-> <<>>, position |-> 0, length |-> 0]

\* Its length is that of the content it keeps, in the one place or the other.
Buffers(Units) ==
    {b \in [spilled : BOOLEAN, memory : Seq(Units), file : Seq(Units),
            position : Nat, length : Nat] :
       b.length = Len(IF b.spilled THEN b.file ELSE b.memory)}

\* A write or a truncation beyond the end fills the gap.
Extent(content, length) ==
    [n \in 1 .. length |-> IF n \in DOMAIN content THEN content[n] ELSE Unwritten]
Overwritten(content, at, piece) ==
    [n \in 1 .. (IF at + Len(piece) > Len(content) THEN at + Len(piece) ELSE Len(content)) |->
       IF at < n /\ n <= at + Len(piece) THEN piece[n - at]
       ELSE IF n \in DOMAIN content THEN content[n] ELSE Unwritten]

\* _spill
Spilled(b) ==
    IF b.spilled THEN b
    ELSE [b EXCEPT !.spilled = TRUE, !.file = b.memory, !.position = Len(b.memory),
                   !.memory = <<>>]

\* extend
Extend(b, piece) ==
    LET c == IF b.length + Len(piece) > Threshold THEN Spilled(b) ELSE b
    IN IF c.spilled
         THEN [c EXCEPT !.file = Overwritten(@, c.position, piece),
                        !.position = @ + Len(piece), !.length = @ + Len(piece)]
         ELSE [c EXCEPT !.memory = @ \o piece, !.length = @ + Len(piece)]

\* reserve, of an empty buffer
ReserveWithoutTruncate(b, length) ==                                  \* mutant
    IF length > Threshold
      THEN [Spilled(b) EXCEPT !.position = length, !.length = length]
      ELSE [b EXCEPT !.memory = Extent(<<>>, length), !.length = length]
Reserve(b, length) ==
    LET c == IF length > Threshold THEN Spilled(b) ELSE b
    IN IF c.spilled
         THEN [c EXCEPT !.file = Extent(@, length), !.position = length, !.length = length]
         ELSE [c EXCEPT !.memory = Extent(<<>>, length), !.length = length]

\* write_at, which returns the stream to the end
WriteAt(b, offset, piece) ==
    IF b.spilled
      THEN [b EXCEPT !.file = Overwritten(@, offset, piece), !.position = b.length]
      ELSE [b EXCEPT !.memory = Overwritten(@, offset, piece)]

\* truncate
Truncate(b, length) ==
    IF b.spilled
      THEN [b EXCEPT !.file = SubSeq(@, 1, length), !.position = length, !.length = length]
      ELSE [b EXCEPT !.memory = SubSeq(@, 1, length), !.length = length]

\* freeze: the RecordSource, whose length is the buffer's count, not the file's.
Freeze(b) ==
    [fileBacked |-> b.spilled, content |-> IF b.spilled THEN b.file ELSE b.memory,
     length |-> b.length]

----------------------------------------------------------------------------
(* RecordSource. *)

Least(a, b) == IF a < b THEN a ELSE b

\* iter_chunks: the pieces of the records.
PieceAt(source, size, n) ==
    SubSeq(source.content, (n - 1) * size + 1, Least(n * size, source.length))
WholeChunksOf(source, size) ==                                        \* mutant
    [n \in 1 .. source.length \div size |-> PieceAt(source, size, n)]
ChunksOf(source, size) ==
    [n \in 1 .. ((source.length + size - 1) \div size) |-> PieceAt(source, size, n)]

RecordCount(source) == source.length \div RecordSize

\* unpack_record: the window that holds the record's first unit, read again unless the
\* cached one holds the record, and the record's units in it.
NoWindow == [start |-> -1, units |-> <<>>]
WindowAt(source, offset) ==
    LET start == (offset \div WindowSize) * WindowSize
    IN [start |-> start,
        units |-> SubSeq(source.content, start + 1,
                         Least(start + WindowSize, Len(source.content)))]

Holds(window, offset) ==
    /\ window.start <= offset
    /\ offset + RecordSize <= window.start + Len(window.units)

WindowFor(source, window, index) ==
    IF Holds(window, index * RecordSize) THEN window ELSE WindowAt(source, index * RecordSize)

RecordIn(window, index) ==
    LET local == index * RecordSize - window.start
    IN SubSeq(window.units, local + 1, Least(local + RecordSize, Len(window.units)))

\* Reading every record in turn: a file through the window, memory as it is.
ReadThrough(source) ==
    LET window[n \in 0 .. RecordCount(source)] ==
          IF n = 0 THEN NoWindow ELSE WindowFor(source, window[n - 1], n - 1)
    IN IF source.fileBacked
         THEN [n \in 1 .. RecordCount(source) * RecordSize |->
                 LET index == (n - 1) \div RecordSize
                     record == RecordIn(window[index + 1], index)
                     part == ((n - 1) % RecordSize) + 1
                 IN IF part \in DOMAIN record THEN record[part] ELSE Unwritten]
         ELSE source.content
=============================================================================
