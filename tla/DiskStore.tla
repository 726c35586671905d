------------------------------ MODULE DiskStore ------------------------------
(***************************************************************************)
(* disk_store.py's DiskSchematicStore: the native backup of one schematic   *)
(* name, a payload file and its metadata sidecar, as the worker threads of  *)
(* one server process use it through request_export_to_disk.                *)
(*                                                                          *)
(* The directory maps paths to files as POSIX does: opening a path for      *)
(* writing truncates the file found there, a rename moves the file whatever *)
(* it holds by then, and a worker goes on writing to the file it opened.    *)
(* Every file is written to a temporary path first, whose name holds the    *)
(* process id, so all workers of a process use the same one.                *)
(***************************************************************************)
EXTENDS Naturals, Sequences, FiniteSets

CONSTANTS
    Workers,     \* threads of the worker pool
    Jobs,        \* what each worker may be asked: [op, overwrite]
    Contents,    \* versions of the schematic, told apart by content_sha256
    PieceCount,  \* the pieces copyfileobj writes for each of them
    Configured,  \* values disk.write_metadata_sidecar may have when the process starts
    MaxPieces,   \* disk.max_file_size_mb, in pieces
    MaxSaves,    \* bound: versions stored in the cloud while the workers are busy
    MaxCrashes,  \* bound: crashes of the process
    None

ASSUME DiskStoreAssumption ==
    /\ PieceCount \in [Contents -> Nat \ {0}]
    /\ IsFiniteSet(Workers) /\ Configured \subseteq BOOLEAN
    /\ Jobs \in [Workers -> SUBSET [op : {"export", "backupRemove", "row", "read", "delete"},
                                    overwrite : BOOLEAN]]
    /\ MaxPieces \in Nat /\ MaxSaves \in Nat /\ MaxCrashes \in Nat
    /\ None \notin Contents

\* A destination and its temporary name, for the payload and for the sidecar.
Kinds == {"payload", "sidecar"}
Paths == Kinds \X {"destination", "temp"}
Destination(kind) == <<kind, "destination">>
Temp(kind) == <<kind, "temp">>

\* Never more files than names and open streams.
Files == 1 .. (Cardinality(Paths) + Cardinality(Workers))

Hole == <<None, 0>>      \* bytes of a file that nobody has written
Pieces == (Contents \cup {None}) \X Nat

\* What a file of a kind holds when it is complete.  The sidecar carries the checksum.
Whole(kind, c) ==
    IF kind = "payload" THEN [n \in 1 .. PieceCount[c] |-> <<c, n>>] ELSE <<<<c, 0>>>>

VARIABLES
    row,         \* the version in the cloud, None once it is removed
    dir,         \* the directory: the file at each path, 0 if there is none
    data,        \* the contents of each file
    worker,      \* each worker's request and the local variables of its call
    sidecars,    \* disk.write_metadata_sidecar of the running process
    saves, crashes,
    outdated,    \* history: a payload replaced or removed without its sidecar, not repaired since
    seen         \* history: the moments of the directory during each worker's read

disk == <<dir, data>>
rest == <<sidecars, saves, crashes>>
vars == <<row, disk, worker, rest, outdated, seen>>

Idle == [op |-> "none", overwrite |-> FALSE, step |-> "idle", content |-> None,
         file |-> 0, offset |-> 0, got |-> <<>>, meta |-> None, answer |-> ""]

Steps == {"idle", "fetched", "open", "write", "replace", "side-open", "side-write",
          "side-replace", "stored", "started", "second"}

Call == [op : {"none", "export", "backupRemove", "row", "read", "delete"},
         overwrite : BOOLEAN, step : Steps, content : Contents \cup {None},
         file : {0} \cup Files, offset : Nat, got : Seq(Pieces), meta : Contents \cup {None},
         answer : {"", "exported", "removed", "read", "deleted", "exists", "tooLarge",
                   "missing", "failed"}]

FileContents == Seq(Pieces)
Moments == [payload : FileContents, sidecar : FileContents, deleting : BOOLEAN]

StoreOK ==
    /\ row \in Contents \cup {None}
    /\ dir \in [Paths -> {0} \cup Files]
    /\ \A p, o \in Paths : dir[p] = dir[o] => p = o \/ dir[p] = 0
    /\ data \in [Files -> Seq(Pieces)]
    /\ worker \in [Workers -> Call]
    /\ sidecars \in BOOLEAN /\ saves \in 0 .. MaxSaves /\ crashes \in 0 .. MaxCrashes
    /\ outdated \in BOOLEAN

TypeOK ==
    /\ StoreOK
    /\ seen \in [Workers -> SUBSET Moments]

Init ==
    /\ row \in Contents
    /\ dir = [p \in Paths |-> 0] /\ data = [f \in Files |-> <<>>]
    /\ worker = [w \in Workers |-> Idle]
    /\ sidecars \in Configured /\ saves = 0 /\ crashes = 0 /\ outdated = FALSE
    /\ seen = [w \in Workers |-> {}]

----------------------------------------------------------------------------
(* The worker. *)

Becomes(w, q) == worker' = [worker EXCEPT ![w] = q]
Answers(w, answer) == Becomes(w, [Idle EXCEPT !.answer = answer])
GoesOn(w, step) == Becomes(w, [worker[w] EXCEPT !.step = step])
At(w, step) == worker[w].step = step

\* request_export_to_disk downloads the row into a file of its own, verified by
\* fetch_to_file; read and delete need no row.
Ask(w) ==
    /\ At(w, "idle")
    /\ \E j \in Jobs[w] :
         LET q == [Idle EXCEPT !.op = j.op, !.overwrite = j.overwrite]
         IN IF j.op \in {"read", "delete"} THEN Becomes(w, [q EXCEPT !.step = "started"])
            ELSE Becomes(w, IF row = None THEN [Idle EXCEPT !.answer = "missing"]
                            ELSE [q EXCEPT !.step = "fetched", !.content = row])
    /\ UNCHANGED <<row, disk, rest, outdated>>

\* An existing file, then the size limit.
Checked(w) ==
    LET q == worker[w]
    IN CASE dir[Destination("payload")] # 0 /\ ~q.overwrite -> Answers(w, "exists")
         [] PieceCount[q.content] > MaxPieces -> Answers(w, "tooLarge")
         [] OTHER -> GoesOn(w, "open")

\* The checks of save_cloud_file; length and checksum of the downloaded file were verified
\* when it was downloaded.
Check(w) ==
    /\ At(w, "fetched") /\ worker[w].op # "row"
    /\ Checked(w)
    /\ UNCHANGED <<row, disk, rest, outdated>>

\* Those of save_cloud_row, which decodes a payload held in memory.
CheckRow(w) ==
    /\ At(w, "fetched") /\ worker[w].op = "row"
    /\ Checked(w)
    /\ UNCHANGED <<row, disk, rest, outdated>>

----------------------------------------------------------------------------
(* Writing a file: open the temporary name, write, flush, rename. *)

\* Files that a path names or a stream has open.
Used == {dir[p] : p \in Paths} \cup {worker[w].file : w \in Workers}
NewFile == CHOOSE f \in Files : f \notin Used

\* The name the stream is opened under.
WrittenInPlace(kind) == Destination(kind)                             \* mutant
WrittenUnder(kind) == Temp(kind)

OpenTemp(w, kind, here, next) ==
    /\ At(w, here)
    /\ LET path == WrittenUnder(kind)
           f == IF dir[path] = 0 THEN NewFile ELSE dir[path]
       IN /\ dir' = [dir EXCEPT ![path] = f]
          /\ data' = [data EXCEPT ![f] = <<>>]
          /\ Becomes(w, [worker[w] EXCEPT !.step = next, !.file = f, !.offset = 0])
    /\ UNCHANGED <<row, rest, outdated>>

\* The n-th piece at the stream's own offset, whatever the file's length has become.
Written(old, n, piece) ==
    [k \in 1 .. (IF n > Len(old) THEN n ELSE Len(old)) |->
       IF k = n THEN piece ELSE IF k \in DOMAIN old THEN old[k] ELSE Hole]

LastButOne(n, wanted) == n + 1 >= Len(wanted)                         \* mutant
Last(n, wanted) == n >= Len(wanted)

WritePiece(w, kind, here, next) ==
    /\ At(w, here)
    /\ LET q == worker[w]
           wanted == Whole(kind, q.content)
           n == q.offset + 1
       IN /\ data' = [data EXCEPT ![q.file] = Written(@, n, wanted[n])]
          /\ Becomes(w, IF ~Last(n, wanted) THEN [q EXCEPT !.offset = n]
                        ELSE [q EXCEPT !.step = next, !.file = 0, !.offset = 0])
    /\ UNCHANGED <<row, dir, rest, outdated>>

RenamedKeepingTemp(kind) ==                                           \* mutant
    [dir EXCEPT ![Destination(kind)] = dir[Temp(kind)]]
RenamedDroppingSidecar(kind) ==                                       \* mutant
    [dir EXCEPT ![Destination(kind)] = dir[Temp(kind)], ![Temp(kind)] = 0,
                ![Destination("sidecar")] = IF kind = "payload" THEN 0 ELSE dir[Temp(kind)]]
RenamedTo(kind) ==
    [dir EXCEPT ![Destination(kind)] = dir[Temp(kind)], ![Temp(kind)] = 0]

AfterSidecar(w) ==
    IF worker[w].op = "backupRemove" THEN GoesOn(w, "stored") ELSE Answers(w, "exported")
AfterPayload(w) ==
    IF sidecars THEN GoesOn(w, "side-open") ELSE AfterSidecar(w)

\* os.replace fails when another worker renamed or unlinked the temporary file: no other
\* error of it is possible then than those of Break.
ReplacePayload(w) ==
    /\ At(w, "replace")
    /\ dir[Temp("payload")] # 0
    /\ dir' = RenamedTo("payload")
    /\ outdated' = (outdated \/ (~sidecars /\ dir[Destination("sidecar")] # 0))
    /\ AfterPayload(w)
    /\ UNCHANGED <<row, data, rest>>

ReplaceSidecar(w) ==
    /\ At(w, "side-replace")
    /\ dir[Temp("sidecar")] # 0
    /\ dir' = RenamedTo("sidecar")
    /\ outdated' = FALSE
    /\ AfterSidecar(w)
    /\ UNCHANGED <<row, data, rest>>

WritingKind(w) ==
    IF worker[w].step \in {"open", "write", "replace"} THEN "payload" ELSE "sidecar"

\* An OSError while the file is written or renamed: the temporary file is unlinked, and the
\* request fails; the payload's error leaves the sidecar as it was.
Break(w) ==
    /\ worker[w].step \in {"open", "write", "replace", "side-open", "side-write", "side-replace"}
    /\ dir' = [dir EXCEPT ![Temp(WritingKind(w))] = 0]
    /\ outdated' = (outdated \/ WritingKind(w) = "sidecar")
    /\ Answers(w, "failed")
    /\ UNCHANGED <<row, data, rest>>

\* hard_delete by name, the last step of a backup-remove.
HardDelete(w) ==
    /\ At(w, "stored")
    /\ \/ row # None /\ row' = None /\ Answers(w, "removed")
       \/ row = None /\ row' = row /\ Answers(w, "missing")
       \/ row' \in {row, None} /\ Answers(w, "failed")
    /\ UNCHANGED <<disk, rest, outdated>>

----------------------------------------------------------------------------
(* read and delete. *)

FileAt(kind) == IF dir[Destination(kind)] = 0 THEN <<>> ELSE data[dir[Destination(kind)]]

ReadPayload(w) ==
    /\ At(w, "started") /\ worker[w].op = "read"
    /\ IF dir[Destination("payload")] = 0 THEN Answers(w, "missing")
       ELSE IF Len(FileAt("payload")) > MaxPieces THEN Answers(w, "failed")
       ELSE Becomes(w, [worker[w] EXCEPT !.step = "second", !.got = FileAt("payload")])
    /\ UNCHANGED <<row, disk, rest, outdated>>

\* The sidecar's checksum if there is one, and decode_schematic, which takes no payload with
\* a piece missing or of another version.
PayloadAccepted(got, sidecar) ==
    \E c \in Contents : /\ got = Whole("payload", c)
                        /\ sidecar \in {<<>>, Whole("sidecar", c)}

ReadSidecar(w) ==
    /\ At(w, "second") /\ worker[w].op = "read"
    /\ LET sidecar == FileAt("sidecar")
       IN IF PayloadAccepted(worker[w].got, sidecar)
            THEN Becomes(w, [Idle EXCEPT !.answer = "read", !.got = worker[w].got,
                               !.meta = IF sidecar = <<>> THEN None ELSE sidecar[1][1]])
            ELSE Answers(w, "failed")
    /\ UNCHANGED <<row, disk, rest, outdated>>

DeletePayload(w) ==
    /\ At(w, "started") /\ worker[w].op = "delete"
    /\ IF dir[Destination("payload")] = 0
         THEN dir' = dir /\ Answers(w, "missing")
         ELSE /\ dir' = [dir EXCEPT ![Destination("payload")] = 0]
              /\ GoesOn(w, "second")
    /\ UNCHANGED <<row, data, rest, outdated>>

DeleteSidecar(w) ==
    /\ At(w, "second") /\ worker[w].op = "delete"
    /\ dir' = [dir EXCEPT ![Destination("sidecar")] = 0]
    /\ Answers(w, "deleted")
    /\ UNCHANGED <<row, data, rest, outdated>>

\* An OSError of read or of delete.
AccessBreaks(w) ==
    /\ worker[w].step \in {"started", "second"}
    /\ outdated' = (outdated \/ (At(w, "second") /\ worker[w].op = "delete"))
    /\ Answers(w, "failed")
    /\ UNCHANGED <<row, disk, rest>>

----------------------------------------------------------------------------
(* The surroundings. *)

\* Any server stores another version under the name.
CloudSave ==
    /\ saves < MaxSaves
    /\ saves' = saves + 1
    /\ \E c \in Contents : row' = c
    /\ UNCHANGED <<disk, worker, sidecars, crashes, outdated>>

BetweenPayloadAndSidecar(w) ==
    \/ worker[w].step \in {"side-open", "side-write", "side-replace"}
    \/ At(w, "second") /\ worker[w].op = "delete"

\* The process ends and starts again, perhaps configured anew, under the old process id or
\* a new one, to which the temporary files left behind mean nothing.
Crash ==
    /\ crashes < MaxCrashes
    /\ crashes' = crashes + 1
    /\ worker' = [w \in Workers |-> Idle] /\ sidecars' \in Configured
    /\ dir' \in {dir, [p \in Paths |-> IF p[2] = "temp" THEN 0 ELSE dir[p]]}
    /\ outdated' = (outdated \/ \E w \in Workers : BetweenPayloadAndSidecar(w))
    /\ UNCHANGED <<row, data, saves>>

\* What the two names stand for, and whether a delete is between its two unlinks.
Deleting == \E w \in Workers : worker[w].op = "delete" /\ At(w, "second")
Moment == [payload |-> FileAt("payload"), sidecar |-> FileAt("sidecar"), deleting |-> Deleting]

\* A read takes its time from the payload to the sidecar.
Reading(w) == worker[w].op = "read" /\ At(w, "second")

Watch ==
    seen' = [w \in Workers |-> IF Reading(w)' THEN seen[w] \cup {Moment'} ELSE {}]

Step ==
    \/ CloudSave \/ Crash
    \/ \E w \in Workers :
         \/ Ask(w) \/ Check(w) \/ CheckRow(w)
         \/ OpenTemp(w, "payload", "open", "write")
         \/ WritePiece(w, "payload", "write", "replace")
         \/ ReplacePayload(w)
         \/ OpenTemp(w, "sidecar", "side-open", "side-write")
         \/ WritePiece(w, "sidecar", "side-write", "side-replace")
         \/ ReplaceSidecar(w)
         \/ Break(w) \/ HardDelete(w)
         \/ ReadPayload(w) \/ ReadSidecar(w) \/ DeletePayload(w) \/ DeleteSidecar(w)
         \/ AccessBreaks(w)

Next == Step /\ Watch

Spec == Init /\ [][Next]_vars

----------------------------------------------------------------------------
(* What the disk store promises. *)

\* "Atomically save a validated cloud payload file": while one worker saves at a time,
\* whatever fails or dies in between, the payload's name is free or names one version,
\* complete.  A payload with the sidecar of another version, which read refuses, is there
\* only while a worker is between the two or after it failed or died there or wrote no
\* sidecar, and until the next export that does.
FilesAgree ==
    dir[Destination("payload")] # 0 =>
      /\ \E c \in Contents : FileAt("payload") = Whole("payload", c)
      /\ \/ dir[Destination("sidecar")] = 0
         \/ PayloadAccepted(FileAt("payload"), FileAt("sidecar"))
         \/ outdated
         \/ \E w \in Workers : BetweenPayloadAndSidecar(w)

\* A moment of the read that shows this payload with this sidecar, or a delete under way.
Explains(m, got, sidecar) == m.deleting \/ (m.payload = got /\ m.sidecar = sidecar)
Explained(moments, got, sidecar) == \E m \in moments : Explains(m, got, sidecar)

\* The payload and the metadata that read returns were on the disk together at one moment of
\* the read, although it takes one after the other while an export replaces one after the
\* other: no caller sees a payload without the metadata that it had, or with those of a
\* version it never stood beside.  Only a delete between its two unlinks may tear them apart.
ReadIsAtomic(w, answer) ==
    answer.answer = "read" =>
      Explained(seen[w], answer.got,
                IF answer.meta = None THEN <<>> ELSE Whole("sidecar", answer.meta))
ReadsAreAtomic == [][\A w \in Workers : Reading(w) => ReadIsAtomic(w, worker'[w])]_vars

\* "The database row is deleted only after backup verification succeeds": a worker about to
\* delete the row has its version on the disk, complete and, unless sidecars were turned off
\* over an older one, accepted by read; or the backup was deleted by request meanwhile.
BackupVerified ==
    \A w \in Workers : At(w, "stored") =>
      \/ dir[Destination("payload")] = 0
      \/ /\ FileAt("payload") = Whole("payload", worker[w].content)
         /\ PayloadAccepted(FileAt("payload"), FileAt("sidecar")) \/ ~sidecars

\* "Writes and verifies a native .nscm backup, then permanently removes the cloud entry":
\* when a worker comes to delete the row, the file holds the version it deletes.
BackupHoldsRemoved ==
    \A w \in Workers : (At(w, "stored") /\ row # None) =>
                         FileAt("payload") = Whole("payload", row)
=============================================================================
