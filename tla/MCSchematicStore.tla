-------------------------- MODULE MCSchematicStore --------------------------
(* Three requests of any servers over two contents of two pieces each and one *)
(* inline content: every pair of operations, and a third that interferes.      *)
EXTENDS SchematicStore

Pieces == [c \in {"bridge", "tower", "lamp"} |-> IF c = "lamp" THEN 0 ELSE 2]

SaveCall(c, o, g) == [op |-> "save", content |-> c, overwrite |-> o, category |-> g]
Plain(op) == [op |-> op]
DiskCall(op, o) == [op |-> op, overwrite |-> o]
CategoryCall(op, g) == [op |-> op, category |-> g]

AllCalls == {SaveCall("bridge", FALSE, "keep"), SaveCall("tower", TRUE, "keep"),
             SaveCall("bridge", TRUE, "walls"), SaveCall("lamp", TRUE, ""),
             Plain("fetch"), Plain("remove"), Plain("archive"),
             DiskCall("export", FALSE), DiskCall("backupRemove", TRUE),
             CategoryCall("move", "walls"), CategoryCall("createCategory", "walls")}

OverwriteCalls == {SaveCall("bridge", TRUE, "keep"), SaveCall("tower", TRUE, "keep")}
=============================================================================
