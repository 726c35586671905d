----------------------------- MODULE MCSaveScan -----------------------------
(* A selection cut into three chunk regions: air between blocks, block types  *)
(* that return in a later region, a block entity in two regions, and a region *)
(* of air alone, which a sparse save reduces to nothing.                      *)
EXTENDS SaveScan

Stone == [key |-> "stone", entity |-> FALSE]
Plank == [key |-> "plank", entity |-> FALSE]
Chest == [key |-> "chest", entity |-> TRUE]
Void == [key |-> "air", entity |-> FALSE]

ThreeRegions == << <<Stone, Void, Chest>>, <<Chest, Stone, Plank>>, <<Void, Void>> >>
=============================================================================
