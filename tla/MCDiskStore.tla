----------------------------- MODULE MCDiskStore -----------------------------
(* Versions of one and of two pieces; a third is above the size limit.  One    *)
(* worker exports, overwriting or not, while the other reads and deletes; or   *)
(* two workers make backups of the same name.                                  *)
EXTENDS DiskStore

Versions == [c \in {"old", "new", "huge"} |-> CASE c = "old" -> 1 [] c = "new" -> 2 [] OTHER -> 3]

Job(op, overwrite) == [op |-> op, overwrite |-> overwrite]
ExporterAndReader ==
    [w \in {"w1", "w2"} |->
       IF w = "w1" THEN {Job("row", FALSE), Job("backupRemove", TRUE), Job("delete", FALSE)}
                   ELSE {Job("read", FALSE), Job("delete", FALSE)}]
TwoBackups == [w \in {"w1", "w2"} |-> {Job("backupRemove", TRUE)}]
=============================================================================
