--------------------------- MODULE MCPasteHistory ---------------------------
(* Two positions, chests with two contents, and two schematics that overlap, so    *)
(* that the history holds several changes of one position.  One has two records of *)
(* a palette entry, with and without a block entity, and its states may turn out   *)
(* to be unusable at either; the other has a custom block that is missing.  The    *)
(* first configuration is the default one; the last verifies nothing, and keeps no *)
(* history of the longer schematic because its limit is below that one's length.   *)
EXTENDS PasteHistory

ShapeOfBlock == [b \in Blocks |-> IF b = "air" THEN "air_states" ELSE "chest_states"]
TypeOfBlock == [b \in Blocks \cup Shapes |-> IF b \in {"air", "air_states"} THEN "Air" ELSE "Chest"]

To(p, w) == [at |-> p, to |-> w]

Overlapping == {<<To(1, "chest_a"), To(2, "chest_states")>>, <<To(1, "Gone")>>}

Default == [maxFailures |-> 0, policy |-> "skip", substitute |-> "Air",
            verify |-> TRUE, strict |-> TRUE, skipUnchanged |-> TRUE,
            maxPerOperation |-> 2, overflows |-> FALSE]

FourConfigs ==
    {Default,
     [Default EXCEPT !.maxFailures = 1, !.policy = "abort"],
     [Default EXCEPT !.policy = "substitute", !.substitute = "Chest", !.strict = FALSE],
     [Default EXCEPT !.policy = "substitute", !.substitute = "Chest", !.verify = FALSE,
                     !.skipUnchanged = FALSE, !.maxPerOperation = 1, !.overflows = TRUE]}
=============================================================================
