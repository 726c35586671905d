--------------------------- MODULE MCChunkTickets ---------------------------
(* Values for the constants of ChunkTickets: three players that compete for     *)
(* two legacy slots and share one chunk, over three server processes started    *)
(* with the fallback on or off; two players and two chunks in the journal run.  *)
EXTENDS ChunkTickets

CONSTANTS p1, p2, p3, c1, c2

Players3 == {p1, p2, p3}
Players2 == {p1, p2}
OnOrOff == BOOLEAN
AlwaysOn == {TRUE}
OneChunk == {c1}
TwoChunks == {c1, c2}
=============================================================================
