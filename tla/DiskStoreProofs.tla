--------------------------- MODULE DiskStoreProofs ---------------------------
(***************************************************************************)
(* Proofs about DiskStore for versions of any number of pieces, any number  *)
(* of readers, crashes and saves in the cloud, while one worker at a time   *)
(* writes backups of the name.                                              *)
(***************************************************************************)
EXTENDS DiskStore, FiniteSetTheorems, TLAPS

\* The worker may be asked to write a backup.
CanSave(w) == \E j \in Jobs[w] : j.op \notin {"read", "delete"}

\* The condition of the theorems: two workers that write do not write the same name.
OneSaver == \A v, w \in Workers : CanSave(v) /\ CanSave(w) => v = w

Writing == {"write", "side-write"}
WritesSidecar == {"side-open", "side-write", "side-replace"}
Saving == {"fetched", "open", "write", "replace", "stored"} \cup WritesSidecar

\* What a call's local variables say in each of its steps.
LocalsAgree(w) ==
    /\ worker[w].step \in Saving => CanSave(w) /\ worker[w].content \in Contents
    /\ worker[w].answer # "" => worker[w].step = "idle"
    /\ worker[w].step \notin Writing => worker[w].file = 0

\* The temporary file holds what its worker has written so far.
PartWritten(w, kind) ==
    LET f == worker[w].file
        whole == Whole(kind, worker[w].content)
    IN /\ f # 0 /\ f = dir[Temp(kind)]
       /\ worker[w].offset < Len(whole)
       /\ Len(data[f]) = worker[w].offset
       /\ \A k \in 1 .. worker[w].offset : data[f][k] = whole[k]

AllWritten(w, kind) ==
    /\ dir[Temp(kind)] # 0
    /\ data[dir[Temp(kind)]] = Whole(kind, worker[w].content)

TempAgrees(w) ==
    /\ At(w, "write") => PartWritten(w, "payload")
    /\ At(w, "replace") => AllWritten(w, "payload")
    /\ At(w, "side-write") => PartWritten(w, "sidecar")
    /\ At(w, "side-replace") => AllWritten(w, "sidecar")

\* Once it is renamed the payload stays that of its worker, or is deleted.
PayloadStays(w) ==
    worker[w].step \in WritesSidecar \cup {"stored"} =>
      \/ dir[Destination("payload")] = 0
      \/ FileAt("payload") = Whole("payload", worker[w].content)

\* What a destination names is complete.
Complete(kind) ==
    dir[Destination(kind)] # 0 => \E c \in Contents : FileAt(kind) = Whole(kind, c)

SidecarAgrees ==
    dir[Destination("payload")] # 0 =>
      \/ dir[Destination("sidecar")] = 0
      \/ PayloadAccepted(FileAt("payload"), FileAt("sidecar"))
      \/ outdated
      \/ \E w \in Workers : BetweenPayloadAndSidecar(w)

IInv ==
    /\ StoreOK
    /\ \A w \in Workers : LocalsAgree(w) /\ TempAgrees(w) /\ PayloadStays(w)
    /\ Complete("payload") /\ Complete("sidecar")
    /\ SidecarAgrees /\ BackupVerified

----------------------------------------------------------------------------
(* Names, files and contents. *)

LEMMA PathFacts ==
    /\ Paths = {Destination("payload"), Temp("payload"), Destination("sidecar"), Temp("sidecar")}
    /\ Destination("payload") # Destination("sidecar") /\ Temp("payload") # Temp("sidecar")
    /\ \A k, m \in Kinds : Destination(k) # Temp(m)
BY DEF Paths, Kinds, Destination, Temp

\* There are at least as many files as paths.
LEMMA EnoughFiles == 1 .. 4 \subseteq Files /\ 0 \notin Files
<1> DEFINE a == Destination("payload")
           b == Temp("payload")
           c == Destination("sidecar")
           d == Temp("sidecar")
<1>1. Paths = (({a} \cup {b}) \cup {c}) \cup {d}
  BY PathFacts
<1>2. a # b /\ c # a /\ c # b /\ d # a /\ d # b /\ d # c
  BY DEF Destination, Temp
<1> HIDE DEF a, b, c, d
<1>3. IsFiniteSet({a}) /\ Cardinality({a}) = 1
  BY FS_Singleton
<1>4. IsFiniteSet({a} \cup {b}) /\ Cardinality({a} \cup {b}) = 2
  BY <1>2, <1>3, FS_AddElement
<1>5. IsFiniteSet(({a} \cup {b}) \cup {c}) /\ Cardinality(({a} \cup {b}) \cup {c}) = 3
  BY <1>2, <1>4, FS_AddElement
<1>6. Cardinality(Paths) = 4
  BY <1>1, <1>2, <1>5, FS_AddElement
<1>7. Cardinality(Workers) \in Nat
  BY DiskStoreAssumption, FS_CardinalityType
<1>8. QED
  BY <1>6, <1>7 DEF Files

LEMMA WholeFacts ==
    ASSUME NEW c \in Contents, NEW kind \in Kinds
    PROVE  /\ Whole(kind, c) \in Seq(Pieces)
           /\ Len(Whole(kind, c)) \in Nat /\ Len(Whole(kind, c)) > 0
<1>1. CASE kind = "payload"
  <2>1. PieceCount[c] \in Nat /\ PieceCount[c] > 0
    BY DiskStoreAssumption
  <2>2. \A n \in 1 .. PieceCount[c] : <<c, n>> \in Pieces
    BY <2>1 DEF Pieces
  <2>3. Whole(kind, c) = [n \in 1 .. PieceCount[c] |-> <<c, n>>]
    BY <1>1 DEF Whole
  <2>4. QED
    BY <2>1, <2>2, <2>3
<1>2. CASE kind = "sidecar"
  <2>1. Whole(kind, c) = <<<<c, 0>>>> /\ <<c, 0>> \in Pieces
    BY <1>2 DEF Whole, Pieces
  <2>2. QED
    BY <2>1
<1>3. QED
  BY <1>1, <1>2 DEF Kinds

\* The metadata that read takes from an accepted sidecar.
LEMMA AcceptedMeta ==
    ASSUME NEW got, NEW sidecar, PayloadAccepted(got, sidecar),
           NEW meta, meta = IF sidecar = <<>> THEN None ELSE sidecar[1][1]
    PROVE  /\ meta \in Contents \cup {None}
           /\ sidecar = IF meta = None THEN <<>> ELSE Whole("sidecar", meta)
<1>1. PICK c \in Contents : got = Whole("payload", c) /\ sidecar \in {<<>>, Whole("sidecar", c)}
  BY DEF PayloadAccepted
<1>2. Whole("sidecar", c) = <<<<c, 0>>>> /\ Whole("sidecar", c) # <<>> /\ c # None
  BY DiskStoreAssumption DEF Whole
<1>3. QED
  BY <1>1, <1>2

----------------------------------------------------------------------------
(* Steps of one worker. *)

LEMMA OneWorkerChanges ==
    ASSUME IInv, NEW w \in Workers, NEW q \in Call, Becomes(w, q)
    PROVE  /\ worker' \in [Workers -> Call]
           /\ worker'[w] = q
           /\ \A v \in Workers : v # w => worker'[v] = worker[v]
BY DEF IInv, StoreOK, Becomes

LEMMA OthersDoNotSave ==
    ASSUME OneSaver, IInv, NEW w \in Workers, worker[w].step \in Saving,
           NEW v \in Workers, v # w
    PROVE  worker[v].step \notin Saving
BY DEF OneSaver, IInv, LocalsAgree

\* A step that touches neither the directory nor a file, nor enters a step in which the
\* worker relies on one.
LEMMA QuietStep ==
    ASSUME IInv, NEW w \in Workers, NEW q \in Call, Becomes(w, q),
           UNCHANGED disk, UNCHANGED rest,
           row' \in Contents \cup {None}, outdated' \in BOOLEAN, outdated => outdated',
           q.step \in {"idle", "fetched", "open", "started", "second"}, q.file = 0,
           q.step \in Saving => CanSave(w) /\ q.content \in Contents,
           q.answer # "" => q.step = "idle",
           BetweenPayloadAndSidecar(w) => outdated' \/ BetweenPayloadAndSidecar(w)'
    PROVE  IInv'
<1>1. /\ worker' \in [Workers -> Call] /\ worker'[w] = q
      /\ \A v \in Workers : v # w => worker'[v] = worker[v]
  BY OneWorkerChanges
<1>2. dir' = dir /\ data' = data /\ sidecars' = sidecars
  BY DEF disk, rest
<1>3. StoreOK'
  BY <1>1, <1>2 DEF IInv, StoreOK, rest
<1>4. ASSUME NEW v \in Workers
      PROVE  (LocalsAgree(v) /\ TempAgrees(v) /\ PayloadStays(v))'
  <2>1. CASE v = w
    BY <1>1, <2>1 DEF LocalsAgree, TempAgrees, PayloadStays, At, Saving, Writing, WritesSidecar
  <2>2. CASE v # w
    <3>1. worker'[v] = worker[v] /\ LocalsAgree(v) /\ TempAgrees(v) /\ PayloadStays(v)
      BY <1>1, <2>2 DEF IInv
    <3>2. QED
      BY <1>2, <3>1 DEF LocalsAgree, TempAgrees, PayloadStays, At, PartWritten, AllWritten, FileAt,
                        CanSave
  <2>3. QED
    BY <2>1, <2>2
<1>5. Complete("payload")' /\ Complete("sidecar")'
  BY <1>2 DEF IInv, Complete, FileAt
<1>6. SidecarAgrees'
  <2>1. ASSUME NEW v \in Workers, BetweenPayloadAndSidecar(v)
        PROVE  outdated' \/ BetweenPayloadAndSidecar(v)'
    <3>1. CASE v = w
      BY <2>1, <3>1
    <3>2. CASE v # w
      BY <1>1, <2>1, <3>2 DEF BetweenPayloadAndSidecar, At
    <3>3. QED
      BY <3>1, <3>2
  <2>2. QED
    BY <1>2, <2>1 DEF IInv, SidecarAgrees, FileAt, PayloadAccepted
<1>7. BackupVerified'
  <2>1. SUFFICES ASSUME NEW v \in Workers, At(v, "stored")'
                 PROVE  \/ dir[Destination("payload")] = 0
                        \/ /\ FileAt("payload") = Whole("payload", worker'[v].content)
                           /\ PayloadAccepted(FileAt("payload"), FileAt("sidecar")) \/ ~sidecars
    BY <1>2 DEF BackupVerified, FileAt, PayloadAccepted
  <2>2. v # w
    BY <1>1, <2>1 DEF At
  <2>3. worker'[v] = worker[v] /\ At(v, "stored")
    BY <1>1, <2>1, <2>2 DEF At
  <2>4. QED
    BY <2>3 DEF IInv, BackupVerified
<1>9. QED
  BY <1>3, <1>4, <1>5, <1>6, <1>7 DEF IInv

\* A step of the worker that writes, at its temporary files: destinations stay as they are.
LEMMA SavingStep ==
    ASSUME OneSaver, IInv, NEW w \in Workers, worker[w].step \in Saving,
           NEW q \in Call, Becomes(w, q), UNCHANGED <<row, rest>>,
           dir' \in [Paths -> {0} \cup Files],
           \A p, o \in Paths : dir'[p] = dir'[o] => p = o \/ dir'[p] = 0,
           data' \in [Files -> Seq(Pieces)],
           \A kind \in Kinds : /\ dir'[Destination(kind)] = dir[Destination(kind)]
                               /\ FileAt(kind)' = FileAt(kind),
           outdated' \in BOOLEAN, outdated => outdated',
           LocalsAgree(w)', TempAgrees(w)', PayloadStays(w)',
           q.step # "stored",
           BetweenPayloadAndSidecar(w) => outdated' \/ BetweenPayloadAndSidecar(w)'
    PROVE  IInv'
<1>1. /\ worker' \in [Workers -> Call] /\ worker'[w] = q
      /\ \A v \in Workers : v # w => worker'[v] = worker[v]
  BY OneWorkerChanges
<1>2. StoreOK'
  BY <1>1 DEF IInv, StoreOK, rest
<1>3. ASSUME NEW v \in Workers
      PROVE  (LocalsAgree(v) /\ TempAgrees(v) /\ PayloadStays(v))'
  <2>1. CASE v = w
    BY <2>1
  <2>2. CASE v # w
    <3>1. worker'[v] = worker[v] /\ LocalsAgree(v) /\ worker[v].step \notin Saving
      BY <1>1, <2>2, OthersDoNotSave DEF IInv
    <3>2. QED
      BY <3>1 DEF LocalsAgree, TempAgrees, PayloadStays, At, Saving, WritesSidecar, CanSave
  <2>3. QED
    BY <2>1, <2>2
<1>4. /\ dir'[Destination("payload")] = dir[Destination("payload")]
      /\ dir'[Destination("sidecar")] = dir[Destination("sidecar")]
      /\ FileAt("payload")' = FileAt("payload") /\ FileAt("sidecar")' = FileAt("sidecar")
  BY DEF Kinds
<1>5. Complete("payload")' /\ Complete("sidecar")'
  BY <1>4 DEF IInv, Complete
<1>6. SidecarAgrees'
  <2>1. ASSUME NEW v \in Workers, BetweenPayloadAndSidecar(v)
        PROVE  outdated' \/ BetweenPayloadAndSidecar(v)'
    <3>1. CASE v = w
      BY <2>1, <3>1
    <3>2. CASE v # w
      BY <1>1, <2>1, <3>2 DEF BetweenPayloadAndSidecar, At
    <3>3. QED
      BY <3>1, <3>2
  <2>2. QED
    BY <1>4, <2>1 DEF IInv, SidecarAgrees, PayloadAccepted
<1>7. BackupVerified'
  <2>1. SUFFICES ASSUME NEW v \in Workers, At(v, "stored")'
                 PROVE  FALSE
    BY DEF BackupVerified
  <2>2. CASE v = w
    BY <1>1, <2>1, <2>2 DEF At
  <2>3. CASE v # w
    BY <1>1, <2>1, <2>3, OthersDoNotSave DEF At, Saving
  <2>4. QED
    BY <2>2, <2>3
<1>9. QED
  BY <1>2, <1>3, <1>5, <1>6, <1>7 DEF IInv

----------------------------------------------------------------------------
(* Requests, checks and reads. *)

LEMMA IdleIsCall == Idle \in Call /\ None \notin Contents
<1>1. <<>> \in Seq(Pieces)
  OBVIOUS
<1>2. QED
  BY <1>1, DiskStoreAssumption DEF Idle, Call, Steps

\* The usual end of a call, and going on to a step that needs no file.
LEMMA AnswerIsQuiet ==
    ASSUME IInv, NEW w \in Workers, NEW a, Answers(w, a),
           a \in {"exported", "removed", "deleted", "exists", "tooLarge", "missing", "failed"},
           UNCHANGED disk, UNCHANGED rest,
           row' \in Contents \cup {None}, outdated' \in BOOLEAN, outdated => outdated',
           BetweenPayloadAndSidecar(w) => outdated'
    PROVE  IInv'
<1> DEFINE q == [Idle EXCEPT !.answer = a]
<1>1. q \in Call /\ q.step = "idle" /\ q.file = 0 /\ q.answer = a
  BY IdleIsCall DEF Idle, Call
<1>2. Becomes(w, q)
  BY DEF Answers
<1>3. q.step \notin Saving
  BY <1>1 DEF Saving, WritesSidecar
<1> HIDE DEF q
<1>4. QED
  BY <1>1, <1>2, <1>3, QuietStep

LEMMA GoingOnIsQuiet ==
    ASSUME IInv, NEW w \in Workers, NEW step, GoesOn(w, step), step \in {"open", "second"},
           worker[w].step \in {"fetched", "started"},
           step = "open" => worker[w].step = "fetched",
           UNCHANGED <<row, disk, rest, outdated>>
    PROVE  IInv'
<1> DEFINE q == [worker[w] EXCEPT !.step = step]
<1>1. worker[w] \in Call /\ LocalsAgree(w)
  BY DEF IInv, StoreOK
<1>2. worker[w].file = 0 /\ worker[w].answer = ""
  BY <1>1 DEF LocalsAgree, Writing
<1>3. /\ q \in Call /\ q.step = step /\ q.file = 0 /\ q.answer = ""
      /\ q.content = worker[w].content
  BY <1>1, <1>2 DEF Call, Steps
<1>4. Becomes(w, q)
  BY DEF GoesOn
<1>5. q.step \in Saving => CanSave(w) /\ q.content \in Contents
  BY <1>1, <1>3 DEF LocalsAgree, Saving, WritesSidecar
<1>6. ~BetweenPayloadAndSidecar(w)
  BY DEF BetweenPayloadAndSidecar, At
<1>7. /\ row' \in Contents \cup {None} /\ outdated' \in BOOLEAN /\ (outdated => outdated')
      /\ UNCHANGED disk /\ UNCHANGED rest
  BY DEF IInv, StoreOK
<1> HIDE DEF q
<1>8. QED
  BY <1>3, <1>4, <1>5, <1>6, <1>7, QuietStep

LEMMA AskKeeps ==
    ASSUME IInv, NEW w \in Workers, Ask(w)
    PROVE  IInv'
<1>1. PICK j \in Jobs[w] :
        LET q == [Idle EXCEPT !.op = j.op, !.overwrite = j.overwrite]
        IN IF j.op \in {"read", "delete"} THEN Becomes(w, [q EXCEPT !.step = "started"])
           ELSE Becomes(w, IF row = None THEN [Idle EXCEPT !.answer = "missing"]
                           ELSE [q EXCEPT !.step = "fetched", !.content = row])
  BY DEF Ask
<1>2. j \in [op : {"export", "backupRemove", "row", "read", "delete"}, overwrite : BOOLEAN]
  BY DiskStoreAssumption
<1>3. /\ UNCHANGED disk /\ UNCHANGED rest /\ UNCHANGED <<row, outdated>>
      /\ At(w, "idle") /\ ~BetweenPayloadAndSidecar(w)
      /\ row' \in Contents \cup {None} /\ outdated' \in BOOLEAN
  BY DEF Ask, At, BetweenPayloadAndSidecar, IInv, StoreOK
<1> DEFINE q == [Idle EXCEPT !.op = j.op, !.overwrite = j.overwrite]
<1>4. CASE j.op \in {"read", "delete"}
  <2> DEFINE s == [q EXCEPT !.step = "started"]
  <2>1. s \in Call /\ s.step = "started" /\ s.file = 0 /\ s.answer = ""
    BY <1>2, IdleIsCall DEF Idle, Call, Steps
  <2>2. Becomes(w, s) /\ s.step \notin Saving
    BY <1>1, <1>4, <2>1 DEF Saving, WritesSidecar
  <2> HIDE DEF s
  <2>3. QED
    BY <1>3, <2>1, <2>2, QuietStep
<1>5. CASE j.op \notin {"read", "delete"} /\ row = None
  <2>1. Answers(w, "missing")
    BY <1>1, <1>5 DEF Answers
  <2>2. QED
    BY <1>3, <2>1, AnswerIsQuiet
<1>6. CASE j.op \notin {"read", "delete"} /\ row # None
  <2> DEFINE s == [q EXCEPT !.step = "fetched", !.content = row]
  <2>1. row \in Contents
    BY <1>3, <1>6 DEF IInv, StoreOK
  <2>2. s \in Call /\ s.step = "fetched" /\ s.file = 0 /\ s.answer = "" /\ s.content = row
    BY <1>2, <2>1, IdleIsCall DEF Idle, Call, Steps
  <2>3. Becomes(w, s) /\ CanSave(w)
    BY <1>1, <1>6 DEF CanSave
  <2> HIDE DEF s
  <2>4. QED
    BY <1>3, <2>1, <2>2, <2>3, QuietStep
<1>7. QED
  BY <1>4, <1>5, <1>6

LEMMA CheckKeeps ==
    ASSUME IInv, NEW w \in Workers, Check(w) \/ CheckRow(w)
    PROVE  IInv'
<1>1. /\ worker[w].step = "fetched" /\ Checked(w)
      /\ UNCHANGED <<row, disk, rest, outdated>>
  BY DEF Check, CheckRow, At
<1>2. \/ Answers(w, "exists") \/ Answers(w, "tooLarge") \/ GoesOn(w, "open")
  BY <1>1 DEF Checked
<1>3. ~BetweenPayloadAndSidecar(w) /\ row' \in Contents \cup {None} /\ outdated' \in BOOLEAN
  BY <1>1 DEF BetweenPayloadAndSidecar, At, IInv, StoreOK
<1>4. CASE GoesOn(w, "open")
  BY <1>1, <1>4, GoingOnIsQuiet
<1>5. CASE Answers(w, "exists") \/ Answers(w, "tooLarge")
  BY <1>1, <1>3, <1>5, AnswerIsQuiet
<1>6. QED
  BY <1>2, <1>4, <1>5

LEMMA HardDeleteKeeps ==
    ASSUME IInv, NEW w \in Workers, HardDelete(w)
    PROVE  IInv'
<1>1. /\ Answers(w, "removed") \/ Answers(w, "missing") \/ Answers(w, "failed")
      /\ row' \in Contents \cup {None}
      /\ UNCHANGED disk /\ UNCHANGED rest /\ outdated' = outdated /\ outdated' \in BOOLEAN
  BY DEF HardDelete, IInv, StoreOK
<1>2. ~BetweenPayloadAndSidecar(w)
  BY DEF HardDelete, At, BetweenPayloadAndSidecar
<1>3. QED
  BY <1>1, <1>2, AnswerIsQuiet

LEMMA FileIsSequence ==
    ASSUME IInv, NEW kind \in Kinds
    PROVE  FileAt(kind) \in Seq(Pieces)
<1>1. Destination(kind) \in Paths
  BY DEF Destination, Paths
<1>2. QED
  BY <1>1 DEF IInv, StoreOK, FileAt

LEMMA ReadPayloadKeeps ==
    ASSUME IInv, NEW w \in Workers, ReadPayload(w)
    PROVE  IInv'
<1>1. /\ UNCHANGED <<row, disk, rest, outdated>> /\ ~BetweenPayloadAndSidecar(w)
      /\ row' \in Contents \cup {None} /\ outdated' \in BOOLEAN
      /\ worker[w].step = "started" /\ worker[w] \in Call /\ LocalsAgree(w)
  BY DEF ReadPayload, At, BetweenPayloadAndSidecar, IInv, StoreOK
<1> DEFINE q == [worker[w] EXCEPT !.step = "second", !.got = FileAt("payload")]
<1>2. Answers(w, "missing") \/ Answers(w, "failed") \/ Becomes(w, q)
  BY DEF ReadPayload
<1>3. CASE Becomes(w, q)
  <2>1. worker[w].file = 0 /\ worker[w].answer = ""
    BY <1>1 DEF LocalsAgree, Writing
  <2>2. FileAt("payload") \in Seq(Pieces)
    BY FileIsSequence DEF Kinds
  <2>3. q \in Call /\ q.step = "second" /\ q.file = 0 /\ q.answer = ""
    BY <1>1, <2>1, <2>2 DEF Call, Steps
  <2>4. q.step \notin Saving
    BY <2>3 DEF Saving, WritesSidecar
  <2> HIDE DEF q
  <2>5. QED
    BY <1>1, <1>3, <2>3, <2>4, QuietStep
<1>4. CASE Answers(w, "missing") \/ Answers(w, "failed")
  BY <1>1, <1>4, AnswerIsQuiet
<1>5. QED
  BY <1>2, <1>3, <1>4

LEMMA ReadSidecarKeeps ==
    ASSUME IInv, NEW w \in Workers, ReadSidecar(w)
    PROVE  IInv'
<1>1. /\ UNCHANGED <<row, disk, rest, outdated>> /\ ~BetweenPayloadAndSidecar(w)
      /\ row' \in Contents \cup {None} /\ outdated' \in BOOLEAN
      /\ worker[w] \in Call
  BY DEF ReadSidecar, At, BetweenPayloadAndSidecar, IInv, StoreOK
<1> DEFINE sidecar == FileAt("sidecar")
           meta == IF sidecar = <<>> THEN None ELSE sidecar[1][1]
           q == [Idle EXCEPT !.answer = "read", !.got = worker[w].got, !.meta = meta]
<1>2. CASE PayloadAccepted(worker[w].got, sidecar)
  <2>1. meta \in Contents \cup {None}
    BY <1>2, AcceptedMeta
  <2>2. worker[w].got \in Seq(Pieces)
    BY <1>1 DEF Call
  <2>3. Becomes(w, q)
    BY <1>2 DEF ReadSidecar
  <2> HIDE DEF meta
  <2>4. /\ q \in Call /\ q.step = "idle" /\ q.file = 0
        /\ q.got = worker[w].got /\ q.meta = meta
    BY <2>1, <2>2, IdleIsCall DEF Idle, Call, Steps
  <2>5. q.step \notin Saving
    BY <2>4 DEF Saving, WritesSidecar
  <2> HIDE DEF q
  <2>6. QED
    BY <1>1, <2>1, <2>3, <2>4, <2>5, QuietStep
<1>3. CASE ~PayloadAccepted(worker[w].got, sidecar)
  <2>1. Answers(w, "failed")
    BY <1>3 DEF ReadSidecar
  <2>2. QED
    BY <1>1, <2>1, AnswerIsQuiet
<1>4. QED
  BY <1>2, <1>3

LEMMA AccessBreaksKeeps ==
    ASSUME IInv, NEW w \in Workers, AccessBreaks(w)
    PROVE  IInv'
<1>1. /\ Answers(w, "failed") /\ UNCHANGED disk /\ UNCHANGED rest
      /\ row' \in Contents \cup {None} /\ outdated' \in BOOLEAN /\ (outdated => outdated')
  BY DEF AccessBreaks, IInv, StoreOK
<1>2. BetweenPayloadAndSidecar(w) => outdated'
  BY DEF AccessBreaks, BetweenPayloadAndSidecar, At
<1>3. QED
  BY <1>1, <1>2, AnswerIsQuiet

----------------------------------------------------------------------------
(* Writing the temporary files. *)

\* While nobody writes and a path is free, there is a file that no path names.
LEMMA NewFileIsNew ==
    ASSUME StoreOK, \A v \in Workers : worker[v].file = 0,
           NEW path \in Paths, dir[path] = 0
    PROVE  NewFile \in Files /\ \A p \in Paths : dir[p] # NewFile
<1> DEFINE D == {dir[p] : p \in Paths}
<1>1. PICK x, y, z : D \subseteq {0, x, y, z}
  <2> DEFINE a == Destination("payload")
             b == Temp("payload")
             c == Destination("sidecar")
             d == Temp("sidecar")
  <2>1. Paths = {a, b, c, d}
    BY PathFacts
  <2> HIDE DEF a, b, c, d
  <2>2. path = a \/ path = b \/ path = c \/ path = d
    BY <2>1
  <2>3. CASE path = a
    <3>1. D \subseteq {0, dir[b], dir[c], dir[d]}
      BY <2>1, <2>3
    <3>2. QED
      BY <3>1
  <2>4. CASE path = b
    <3>1. D \subseteq {0, dir[a], dir[c], dir[d]}
      BY <2>1, <2>4
    <3>2. QED
      BY <3>1
  <2>5. CASE path = c
    <3>1. D \subseteq {0, dir[a], dir[b], dir[d]}
      BY <2>1, <2>5
    <3>2. QED
      BY <3>1
  <2>6. CASE path = d
    <3>1. D \subseteq {0, dir[a], dir[b], dir[c]}
      BY <2>1, <2>6
    <3>2. QED
      BY <3>1
  <2>7. QED
    BY <2>2, <2>3, <2>4, <2>5, <2>6
<1>2. Used \subseteq {0, x, y, z}
  BY <1>1 DEF Used
<1>3. \E f \in 1 .. 4 : f \notin {0, x, y, z}
  <2>1. 1 \in 1 .. 4 /\ 2 \in 1 .. 4 /\ 3 \in 1 .. 4 /\ 4 \in 1 .. 4
    OBVIOUS
  <2>2. \/ 1 \notin {0, x, y, z} \/ 2 \notin {0, x, y, z}
        \/ 3 \notin {0, x, y, z} \/ 4 \notin {0, x, y, z}
    OBVIOUS
  <2>3. QED
    BY <2>1, <2>2
<1>4. \E f \in Files : f \notin Used
  BY <1>2, <1>3, EnoughFiles
<1>5. NewFile \in Files /\ NewFile \notin Used
  BY <1>4 DEF NewFile
<1>6. QED
  BY <1>5 DEF Used

\* A file that no destination names may change, and its name may be taken.
LEMMA DestinationsStay ==
    ASSUME IInv, NEW kind \in Kinds, NEW f \in {0} \cup Files,
           \A m \in Kinds : dir[Destination(m)] # f \/ f = 0,
           dir' = [dir EXCEPT ![Temp(kind)] = f],
           \A g \in Files : g # f => data'[g] = data[g]
    PROVE  \A m \in Kinds : /\ dir'[Destination(m)] = dir[Destination(m)]
                            /\ FileAt(m)' = FileAt(m)
<1>1. SUFFICES ASSUME NEW m \in Kinds
               PROVE  /\ dir'[Destination(m)] = dir[Destination(m)]
                      /\ FileAt(m)' = FileAt(m)
  OBVIOUS
<1>2. Destination(m) # Temp(kind) /\ Destination(m) \in Paths
  BY PathFacts DEF Destination, Paths
<1>3. dir'[Destination(m)] = dir[Destination(m)]
  BY <1>2 DEF IInv, StoreOK
<1>4. dir[Destination(m)] \in {0} \cup Files /\ (dir[Destination(m)] # f \/ f = 0)
  BY <1>2 DEF IInv, StoreOK
<1>5. QED
  BY <1>3, <1>4, EnoughFiles DEF FileAt

\* Both names stand for the files they stood for, with the same contents.
DestinationsAsBefore ==
    \A m \in Kinds : dir'[Destination(m)] = dir[Destination(m)] /\ FileAt(m)' = FileAt(m)

LEMMA OpenTempKeeps ==
    ASSUME OneSaver, IInv, NEW w \in Workers, NEW kind \in Kinds, NEW here, NEW next,
           \/ kind = "payload" /\ here = "open" /\ next = "write"
           \/ kind = "sidecar" /\ here = "side-open" /\ next = "side-write",
           OpenTemp(w, kind, here, next)
    PROVE  IInv' /\ DestinationsAsBefore
<1> DEFINE f == IF dir[Temp(kind)] = 0 THEN NewFile ELSE dir[Temp(kind)]
           q == [worker[w] EXCEPT !.step = next, !.file = f, !.offset = 0]
<1>1. /\ worker[w].step = here /\ UNCHANGED <<row, rest, outdated>>
      /\ dir' = [dir EXCEPT ![Temp(kind)] = f]
      /\ data' = [data EXCEPT ![f] = <<>>]
      /\ Becomes(w, q)
  BY DEF OpenTemp, WrittenUnder, At
<1>2. /\ worker[w].step \in Saving /\ worker[w] \in Call /\ LocalsAgree(w) /\ PayloadStays(w)
      /\ worker[w].content \in Contents /\ worker[w].answer = "" /\ StoreOK
      /\ Temp(kind) \in Paths
  BY <1>1 DEF Saving, WritesSidecar, IInv, StoreOK, LocalsAgree, Temp, Paths
<1>3. /\ f \in Files
      /\ \A p \in Paths : p # Temp(kind) => dir[p] # f
  <2>1. CASE dir[Temp(kind)] = 0
    <3>1. worker[w].file = 0
      BY <1>1, <1>2 DEF LocalsAgree, Writing
    <3>2. ASSUME NEW v \in Workers, v # w
          PROVE  worker[v].file = 0
      BY <1>2, <3>2, OthersDoNotSave DEF IInv, LocalsAgree, Writing, Saving, WritesSidecar
    <3>3. NewFile \in Files /\ \A p \in Paths : dir[p] # NewFile
      BY <1>2, <2>1, <3>1, <3>2, NewFileIsNew
    <3>4. QED
      BY <2>1, <3>3
  <2>2. CASE dir[Temp(kind)] # 0
    BY <1>2, <2>2 DEF StoreOK
  <2>3. QED
    BY <2>1, <2>2
<1> HIDE DEF f
<1>4. f # 0
  BY <1>3, EnoughFiles
<1>5. <<>> \in Seq(Pieces) /\ Len(<<>>) = 0
  OBVIOUS
<1>6. /\ dir' \in [Paths -> {0} \cup Files]
      /\ \A p, o \in Paths : dir'[p] = dir'[o] => p = o \/ dir'[p] = 0
      /\ data' \in [Files -> Seq(Pieces)]
  BY <1>1, <1>2, <1>3, <1>5 DEF StoreOK
<1>7. \A m \in Kinds : dir'[Destination(m)] = dir[Destination(m)] /\ FileAt(m)' = FileAt(m)
  <2>1. \A m \in Kinds : dir[Destination(m)] # f
    <3>1. \A m \in Kinds : Destination(m) \in Paths /\ Destination(m) # Temp(kind)
      BY PathFacts DEF Destination, Paths
    <3>2. QED
      BY <1>3, <3>1
  <2>2. \A g \in Files : g # f => data'[g] = data[g]
    BY <1>1, <1>2 DEF StoreOK
  <2>3. QED
    BY <1>1, <1>3, <2>1, <2>2, DestinationsStay
<1>8. /\ q \in Call /\ q.step = next /\ q.file = f /\ q.offset = 0 /\ q.answer = ""
      /\ q.content = worker[w].content
  BY <1>2, <1>3 DEF Call, Steps
<1> HIDE DEF q
<1>9. worker'[w] = q
  BY <1>1, <1>8, OneWorkerChanges
<1>10. LocalsAgree(w)'
  BY <1>2, <1>8, <1>9 DEF LocalsAgree, Saving, WritesSidecar, Writing, CanSave
<1>11. PartWritten(w, kind)'
  <2>1. Len(Whole(kind, q.content)) \in Nat /\ Len(Whole(kind, q.content)) > 0
    BY <1>2, <1>8, WholeFacts
  <2>2. dir'[Temp(kind)] = f /\ data'[f] = <<>>
    BY <1>1, <1>2, <1>3 DEF StoreOK
  <2>3. worker'[w].file = f /\ worker'[w].offset = 0 /\ worker'[w].content = q.content
    BY <1>8, <1>9
  <2>4. /\ 0 < Len(Whole(kind, q.content)) /\ Len(data'[f]) = 0
        /\ \A k \in 1 .. 0 : data'[f][k] = Whole(kind, q.content)[k]
    BY <1>5, <2>1, <2>2
  <2>5. QED
    BY <1>4, <2>2, <2>3, <2>4 DEF PartWritten
<1>12. TempAgrees(w)'
  BY <1>8, <1>9, <1>11 DEF TempAgrees, At
<1>13. PayloadStays(w)'
  <2>1. CASE kind = "sidecar"
    BY <1>1, <1>2, <1>7, <1>8, <1>9, <2>1 DEF PayloadStays, WritesSidecar, Kinds
  <2>2. CASE kind = "payload"
    BY <1>8, <1>9, <2>2 DEF PayloadStays, WritesSidecar
  <2>3. QED
    BY <2>1, <2>2 DEF Kinds
<1>14. BetweenPayloadAndSidecar(w) => BetweenPayloadAndSidecar(w)'
  BY <1>1, <1>8, <1>9 DEF BetweenPayloadAndSidecar, At
<1>15. outdated' \in BOOLEAN /\ (outdated => outdated') /\ q.step # "stored"
  BY <1>1, <1>2, <1>8 DEF StoreOK
<1>16. UNCHANGED <<row, rest>>
  BY <1>1
<1>17. QED
  BY <1>1, <1>2, <1>6, <1>7, <1>8, <1>10, <1>12, <1>13, <1>14, <1>15, <1>16, SavingStep
       DEF DestinationsAsBefore

\* One more piece at the end of what was written.
LEMMA OnePieceMore ==
    ASSUME NEW old \in Seq(Pieces), NEW n \in Nat, n = Len(old) + 1, NEW piece \in Pieces
    PROVE  /\ Written(old, n, piece) \in Seq(Pieces)
           /\ Len(Written(old, n, piece)) = n
           /\ Written(old, n, piece)[n] = piece
           /\ \A k \in 1 .. Len(old) : Written(old, n, piece)[k] = old[k]
<1>1. Len(old) \in Nat /\ DOMAIN old = 1 .. Len(old)
  OBVIOUS
<1>2. Written(old, n, piece) =
        [k \in 1 .. n |-> IF k = n THEN piece ELSE IF k \in DOMAIN old THEN old[k] ELSE Hole]
  BY <1>1 DEF Written
<1>3. \A k \in 1 .. n : (IF k = n THEN piece ELSE IF k \in DOMAIN old THEN old[k] ELSE Hole)
                          \in Pieces
  BY <1>1
<1>4. QED
  BY <1>1, <1>2, <1>3

LEMMA WritePieceKeeps ==
    ASSUME OneSaver, IInv, NEW w \in Workers, NEW kind \in Kinds, NEW here, NEW next,
           \/ kind = "payload" /\ here = "write" /\ next = "replace"
           \/ kind = "sidecar" /\ here = "side-write" /\ next = "side-replace",
           WritePiece(w, kind, here, next)
    PROVE  IInv' /\ DestinationsAsBefore
<1> DEFINE f == worker[w].file
           wanted == Whole(kind, worker[w].content)
           n == worker[w].offset + 1
           new == Written(data[f], n, wanted[n])
           more == [worker[w] EXCEPT !.offset = n]
           last == [worker[w] EXCEPT !.step = next, !.file = 0, !.offset = 0]
           q == IF ~Last(n, wanted) THEN more ELSE last
<1>1. /\ worker[w].step = here /\ UNCHANGED <<row, dir, rest, outdated>>
      /\ data' = [data EXCEPT ![f] = new]
      /\ Becomes(w, q)
  BY DEF WritePiece, At
<1>2. /\ worker[w].step \in Saving /\ worker[w] \in Call /\ LocalsAgree(w) /\ PayloadStays(w)
      /\ worker[w].content \in Contents /\ worker[w].answer = "" /\ StoreOK
      /\ Temp(kind) \in Paths /\ worker[w].offset \in Nat
  BY <1>1 DEF Saving, WritesSidecar, IInv, StoreOK, LocalsAgree, Temp, Paths, Call
<1>3. PartWritten(w, kind)
  BY <1>1 DEF IInv, TempAgrees, At
<1>4. /\ f \in Files /\ f = dir[Temp(kind)] /\ f # 0
      /\ worker[w].offset < Len(wanted) /\ Len(data[f]) = worker[w].offset
      /\ \A k \in 1 .. worker[w].offset : data[f][k] = wanted[k]
  BY <1>2, <1>3 DEF PartWritten, StoreOK
<1> HIDE DEF f
<1>5. wanted \in Seq(Pieces) /\ Len(wanted) \in Nat
  BY <1>2, WholeFacts
<1> HIDE DEF wanted
<1>6. n \in Nat /\ n \in 1 .. Len(wanted) /\ wanted[n] \in Pieces /\ data[f] \in Seq(Pieces)
  <2>1. n \in Nat /\ n \in 1 .. Len(wanted)
    <3>1. worker[w].offset \in Nat /\ worker[w].offset < Len(wanted) /\ Len(wanted) \in Nat
      BY <1>2, <1>4, <1>5
    <3>2. QED
      BY <3>1
  <2> HIDE DEF n
  <2>2. wanted[n] \in Pieces
    BY <1>5, <2>1
  <2>3. QED
    BY <1>2, <1>4, <2>1, <2>2 DEF StoreOK
<1>7. /\ new \in Seq(Pieces) /\ Len(new) = n
      /\ \A k \in 1 .. n : new[k] = wanted[k]
  <2>1. /\ new \in Seq(Pieces) /\ Len(new) = n /\ new[n] = wanted[n]
        /\ \A k \in 1 .. Len(data[f]) : new[k] = data[f][k]
    BY <1>4, <1>6, OnePieceMore
  <2>2. \A i \in Nat : \A k \in 1 .. i + 1 : k = i + 1 \/ k \in 1 .. i
    OBVIOUS
  <2>3. \A k \in 1 .. n : k = n \/ k \in 1 .. worker[w].offset
    BY <1>2, <2>2
  <2> HIDE DEF n, new
  <2>4. QED
    BY <1>4, <2>1, <2>3
<1>8. /\ dir' \in [Paths -> {0} \cup Files]
      /\ \A p, o \in Paths : dir'[p] = dir'[o] => p = o \/ dir'[p] = 0
      /\ data' \in [Files -> Seq(Pieces)]
      /\ data'[f] = new /\ \A g \in Files : g # f => data'[g] = data[g]
  <2> HIDE DEF new
  <2>1. QED
    BY <1>1, <1>2, <1>4, <1>7 DEF StoreOK
<1>9. \A m \in Kinds : dir'[Destination(m)] = dir[Destination(m)] /\ FileAt(m)' = FileAt(m)
  <2>1. \A m \in Kinds : dir[Destination(m)] # f
    <3>1. \A m \in Kinds : Destination(m) \in Paths /\ Destination(m) # Temp(kind)
      BY PathFacts DEF Destination, Paths
    <3>2. QED
      BY <1>2, <1>4, <3>1 DEF StoreOK
  <2>2. dir' = [dir EXCEPT ![Temp(kind)] = f]
    BY <1>1, <1>2, <1>4 DEF StoreOK
  <2>3. \A g \in Files : g # f => data'[g] = data[g]
    BY <1>8
  <2>4. f \in {0} \cup Files
    BY <1>4
  <2>5. QED
    BY <2>1, <2>2, <2>3, <2>4, DestinationsStay
<1>10. outdated' \in BOOLEAN /\ (outdated => outdated') /\ UNCHANGED <<row, rest>>
  BY <1>1, <1>2 DEF StoreOK
<1> HIDE DEF n, new
<1>11. CASE ~Last(n, wanted)
  <2>1. /\ q = more /\ more \in Call /\ more.step = here /\ more.file = f /\ more.offset = n
        /\ more.answer = "" /\ more.content = worker[w].content
    BY <1>1, <1>2, <1>6, <1>11 DEF Call, f
  <2> HIDE DEF more
  <2>2. Becomes(w, more) /\ worker'[w] = more
    BY <1>1, <2>1, OneWorkerChanges
  <2>3. n < Len(wanted)
    BY <1>5, <1>6, <1>11 DEF Last
  <2>4. LocalsAgree(w)'
    BY <1>1, <1>2, <2>1, <2>2 DEF LocalsAgree, CanSave, Writing
  <2>5. PartWritten(w, kind)'
    <3>1. dir'[Temp(kind)] = f
      BY <1>1, <1>4
    <3>2. Whole(kind, more.content) = wanted
      BY <2>1 DEF wanted
    <3>3. worker'[w].file = f /\ worker'[w].offset = n /\ worker'[w].content = more.content
      BY <2>1, <2>2
    <3>4. /\ n < Len(wanted) /\ Len(data'[f]) = n
          /\ \A k \in 1 .. n : data'[f][k] = wanted[k]
      BY <1>7, <1>8, <2>3
    <3>5. QED
      BY <1>4, <3>1, <3>2, <3>3, <3>4 DEF PartWritten
  <2>6. TempAgrees(w)'
    BY <1>1, <2>1, <2>2, <2>5 DEF TempAgrees, At
  <2>7. PayloadStays(w)'
    <3>1. CASE kind = "sidecar"
      BY <1>1, <1>2, <1>9, <2>1, <2>2, <3>1 DEF PayloadStays, WritesSidecar, Kinds
    <3>2. CASE kind = "payload"
      BY <2>1, <2>2, <3>2 DEF PayloadStays, WritesSidecar
    <3>3. QED
      BY <3>1, <3>2 DEF Kinds
  <2>8. BetweenPayloadAndSidecar(w) => BetweenPayloadAndSidecar(w)'
    BY <1>1, <2>1, <2>2 DEF BetweenPayloadAndSidecar, At
  <2>9. more.step # "stored"
    BY <2>1
  <2>10. QED
    BY <1>2, <1>8, <1>9, <1>10, <2>1, <2>2, <2>4, <2>6, <2>7, <2>8, <2>9, SavingStep
       DEF DestinationsAsBefore
<1>12. CASE Last(n, wanted)
  <2>1. /\ q = last /\ last \in Call /\ last.step = next /\ last.file = 0
        /\ last.answer = "" /\ last.content = worker[w].content
    BY <1>2, <1>12 DEF Call, Steps
  <2> HIDE DEF last
  <2>2. Becomes(w, last) /\ worker'[w] = last
    BY <1>1, <2>1, OneWorkerChanges
  <2>3. n = Len(wanted)
    BY <1>5, <1>6, <1>12 DEF Last
  <2>4. LocalsAgree(w)'
    BY <1>2, <2>1, <2>2 DEF LocalsAgree, CanSave, Writing, Saving, WritesSidecar
  <2>5. AllWritten(w, kind)'
    <3>1. dir'[Temp(kind)] = f /\ data'[f] = new
      BY <1>1, <1>4, <1>8
    <3>2. Whole(kind, last.content) = wanted
      BY <2>1 DEF wanted
    <3>3. new = wanted
      BY <1>5, <1>7, <2>3
    <3>4. QED
      BY <1>4, <2>2, <3>1, <3>2, <3>3 DEF AllWritten
  <2>6. TempAgrees(w)'
    BY <2>1, <2>2, <2>5 DEF TempAgrees, At
  <2>7. PayloadStays(w)'
    <3>1. CASE kind = "sidecar"
      BY <1>1, <1>2, <1>9, <2>1, <2>2, <3>1 DEF PayloadStays, WritesSidecar, Kinds
    <3>2. CASE kind = "payload"
      BY <2>1, <2>2, <3>2 DEF PayloadStays, WritesSidecar
    <3>3. QED
      BY <3>1, <3>2 DEF Kinds
  <2>8. BetweenPayloadAndSidecar(w) => BetweenPayloadAndSidecar(w)'
    BY <1>1, <2>1, <2>2 DEF BetweenPayloadAndSidecar, At
  <2>9. last.step # "stored"
    BY <2>1
  <2>10. QED
    BY <1>2, <1>8, <1>9, <1>10, <2>1, <2>2, <2>4, <2>6, <2>7, <2>8, <2>9, SavingStep
       DEF DestinationsAsBefore
<1>13. QED
  BY <1>11, <1>12

LEMMA BreakKeeps ==
    ASSUME OneSaver, IInv, NEW w \in Workers, Break(w)
    PROVE  IInv' /\ DestinationsAsBefore
<1> DEFINE q == [Idle EXCEPT !.answer = "failed"]
           kind == WritingKind(w)
<1>1. /\ worker[w].step \in {"open", "write", "replace"} \cup WritesSidecar
      /\ dir' = [dir EXCEPT ![Temp(kind)] = 0] /\ data' = data
      /\ outdated' = (outdated \/ kind = "sidecar")
      /\ Becomes(w, q) /\ UNCHANGED <<row, rest>>
  BY DEF Break, Answers, WritesSidecar
<1>2. worker[w].step \in Saving /\ kind \in Kinds /\ StoreOK
  BY <1>1 DEF Saving, WritesSidecar, WritingKind, Kinds, IInv
<1>3. worker[w].step \in WritesSidecar => kind = "sidecar"
  BY DEF WritesSidecar, WritingKind
<1>4. q \in Call /\ q.step = "idle" /\ q.file = 0 /\ q.answer = "failed"
  BY IdleIsCall DEF Idle, Call
<1> HIDE DEF q, kind
<1>5. worker'[w] = q
  BY <1>1, <1>4, OneWorkerChanges
<1>6. /\ dir' \in [Paths -> {0} \cup Files]
      /\ \A p, o \in Paths : dir'[p] = dir'[o] => p = o \/ dir'[p] = 0
      /\ data' \in [Files -> Seq(Pieces)]
  BY <1>1, <1>2 DEF StoreOK
<1>7. \A m \in Kinds : dir'[Destination(m)] = dir[Destination(m)] /\ FileAt(m)' = FileAt(m)
  <2>1. 0 \in {0} \cup Files /\ \A m \in Kinds : dir[Destination(m)] # 0 \/ 0 = 0
    OBVIOUS
  <2>2. \A g \in Files : g # 0 => data'[g] = data[g]
    BY <1>1
  <2>3. QED
    BY <1>1, <1>2, <2>1, <2>2, DestinationsStay
<1>8. LocalsAgree(w)' /\ TempAgrees(w)' /\ PayloadStays(w)'
  BY <1>4, <1>5 DEF LocalsAgree, TempAgrees, PayloadStays, At, Saving, WritesSidecar, Writing
<1>9. BetweenPayloadAndSidecar(w) => outdated'
  BY <1>1, <1>3 DEF BetweenPayloadAndSidecar, At, WritesSidecar
<1>10. outdated' \in BOOLEAN /\ (outdated => outdated') /\ q.step # "stored"
  BY <1>1, <1>2, <1>4 DEF StoreOK
<1>11. QED
  BY <1>1, <1>2, <1>4, <1>6, <1>7, <1>8, <1>9, <1>10, SavingStep
       DEF DestinationsAsBefore

----------------------------------------------------------------------------
(* Renaming. *)

\* A complete temporary file takes the place of the destination.
LEMMA RenameFacts ==
    ASSUME IInv, NEW w \in Workers, NEW kind \in Kinds, AllWritten(w, kind),
           dir' = RenamedTo(kind), data' = data
    PROVE  /\ dir' \in [Paths -> {0} \cup Files]
           /\ \A p, o \in Paths : dir'[p] = dir'[o] => p = o \/ dir'[p] = 0
           /\ dir'[Destination(kind)] # 0
           /\ FileAt(kind)' = Whole(kind, worker[w].content)
           /\ \A m \in Kinds : m # kind => /\ dir'[Destination(m)] = dir[Destination(m)]
                                           /\ FileAt(m)' = FileAt(m)
<1>1. /\ Destination(kind) \in Paths /\ Temp(kind) \in Paths /\ Destination(kind) # Temp(kind)
      /\ StoreOK
  BY PathFacts DEF Destination, Temp, Paths, IInv
<1>2. dir' = [dir EXCEPT ![Destination(kind)] = dir[Temp(kind)], ![Temp(kind)] = 0]
  BY DEF RenamedTo
<1>3. /\ dir' \in [Paths -> {0} \cup Files]
      /\ dir'[Destination(kind)] = dir[Temp(kind)] /\ dir'[Temp(kind)] = 0
      /\ \A p \in Paths \ {Destination(kind), Temp(kind)} : dir'[p] = dir[p]
  BY <1>1, <1>2 DEF StoreOK
<1>4. \A p, o \in Paths : dir'[p] = dir'[o] => p = o \/ dir'[p] = 0
  <2>1. SUFFICES ASSUME NEW p \in Paths, NEW o \in Paths, dir'[p] = dir'[o], p # o
                 PROVE  dir'[p] = 0
    OBVIOUS
  <2>2. \A x, y \in Paths : dir[x] = dir[y] => x = y \/ dir[x] = 0
    BY <1>1 DEF StoreOK
  <2>3. CASE p = Temp(kind) \/ o = Temp(kind)
    BY <1>3, <2>1, <2>3
  <2>4. CASE p # Temp(kind) /\ o # Temp(kind)
    BY <1>1, <1>3, <2>1, <2>2, <2>4
  <2>5. QED
    BY <2>3, <2>4
<1>5. ASSUME NEW m \in Kinds, m # kind
      PROVE  dir'[Destination(m)] = dir[Destination(m)]
  <2>1. Destination(m) \in Paths \ {Destination(kind), Temp(kind)}
    BY <1>5, PathFacts DEF Destination, Temp, Paths
  <2>2. QED
    BY <1>3, <2>1
<1>6. \A m \in Kinds : m # kind => FileAt(m)' = FileAt(m)
  BY <1>5 DEF FileAt
<1>7. dir[Temp(kind)] # 0 /\ data[dir[Temp(kind)]] = Whole(kind, worker[w].content)
  BY DEF AllWritten
<1>8. FileAt(kind)' = Whole(kind, worker[w].content)
  BY <1>3, <1>7 DEF FileAt
<1>9. QED
  BY <1>3, <1>4, <1>5, <1>6, <1>7, <1>8

LEMMA ReplacePayloadKeeps ==
    ASSUME OneSaver, IInv, NEW w \in Workers, ReplacePayload(w)
    PROVE  IInv'
<1>1. /\ worker[w].step = "replace" /\ dir' = RenamedTo("payload") /\ data' = data
      /\ outdated' = (outdated \/ (~sidecars /\ dir[Destination("sidecar")] # 0))
      /\ AfterPayload(w) /\ UNCHANGED <<row, rest>> /\ sidecars' = sidecars
  BY DEF ReplacePayload, At, rest
<1>2. /\ worker[w].step \in Saving /\ worker[w] \in Call /\ LocalsAgree(w) /\ StoreOK
      /\ worker[w].content \in Contents /\ worker[w].answer = "" /\ worker[w].file = 0
      /\ AllWritten(w, "payload") /\ ~BetweenPayloadAndSidecar(w)
  BY <1>1 DEF Saving, WritesSidecar, IInv, StoreOK, LocalsAgree, TempAgrees, At, Writing,
              BetweenPayloadAndSidecar
<1>3. /\ dir' \in [Paths -> {0} \cup Files]
      /\ \A p, o \in Paths : dir'[p] = dir'[o] => p = o \/ dir'[p] = 0
      /\ dir'[Destination("payload")] # 0
      /\ FileAt("payload")' = Whole("payload", worker[w].content)
      /\ dir'[Destination("sidecar")] = dir[Destination("sidecar")]
      /\ FileAt("sidecar")' = FileAt("sidecar")
  <2>1. "payload" \in Kinds /\ "sidecar" \in Kinds /\ "sidecar" # "payload"
    BY DEF Kinds
  <2>2. QED
    BY <1>1, <1>2, <2>1, RenameFacts
<1>4. PICK q \in Call : /\ Becomes(w, q) /\ q.file = 0
                        /\ q.answer # "" => q.step = "idle"
                        /\ \/ q.step = "side-open" /\ sidecars
                           \/ q.step \in {"stored", "idle"} /\ ~sidecars
                        /\ q.step # "idle" => q.content = worker[w].content
  <2>1. CASE sidecars
    <3> DEFINE s == [worker[w] EXCEPT !.step = "side-open"]
    <3>1. Becomes(w, s)
      BY <1>1, <2>1 DEF AfterPayload, GoesOn
    <3>2. s \in Call /\ s.step = "side-open" /\ s.file = 0 /\ s.answer = ""
          /\ s.content = worker[w].content
      BY <1>2 DEF Call, Steps
    <3> HIDE DEF s
    <3>3. QED
      BY <2>1, <3>1, <3>2
  <2>2. CASE ~sidecars /\ worker[w].op = "backupRemove"
    <3> DEFINE s == [worker[w] EXCEPT !.step = "stored"]
    <3>1. Becomes(w, s)
      BY <1>1, <2>2 DEF AfterPayload, AfterSidecar, GoesOn
    <3>2. s \in Call /\ s.step = "stored" /\ s.file = 0 /\ s.answer = ""
          /\ s.content = worker[w].content
      BY <1>2 DEF Call, Steps
    <3> HIDE DEF s
    <3>3. QED
      BY <2>2, <3>1, <3>2
  <2>3. CASE ~sidecars /\ worker[w].op # "backupRemove"
    <3> DEFINE s == [Idle EXCEPT !.answer = "exported"]
    <3>1. Becomes(w, s)
      BY <1>1, <2>3 DEF AfterPayload, AfterSidecar, Answers
    <3>2. s \in Call /\ s.step = "idle" /\ s.file = 0 /\ s.answer = "exported"
      BY IdleIsCall DEF Idle, Call
    <3> HIDE DEF s
    <3>3. QED
      BY <2>3, <3>1, <3>2
  <2>4. QED
    BY <2>1, <2>2, <2>3
<1>5. /\ worker' \in [Workers -> Call] /\ worker'[w] = q
      /\ \A v \in Workers : v # w => worker'[v] = worker[v]
  BY <1>4, OneWorkerChanges
<1>6. StoreOK'
  BY <1>1, <1>2, <1>3, <1>5 DEF StoreOK, rest
<1>7. ASSUME NEW v \in Workers
      PROVE  (LocalsAgree(v) /\ TempAgrees(v) /\ PayloadStays(v))'
  <2>1. CASE v = w
    <3>1. q.step \in {"side-open", "stored", "idle"}
      BY <1>4
    <3>2. LocalsAgree(w)'
      BY <1>2, <1>4, <1>5, <3>1 DEF LocalsAgree, Saving, WritesSidecar, Writing, CanSave
    <3>3. TempAgrees(w)'
      BY <1>5, <3>1 DEF TempAgrees, At
    <3>4. PayloadStays(w)'
      BY <1>3, <1>4, <1>5, <3>1 DEF PayloadStays, WritesSidecar
    <3>5. QED
      BY <2>1, <3>2, <3>3, <3>4
  <2>2. CASE v # w
    <3>1. worker'[v] = worker[v] /\ LocalsAgree(v) /\ worker[v].step \notin Saving
      BY <1>2, <1>5, <2>2, OthersDoNotSave DEF IInv
    <3>2. QED
      BY <3>1 DEF LocalsAgree, TempAgrees, PayloadStays, At, Saving, WritesSidecar, CanSave
  <2>3. QED
    BY <2>1, <2>2
<1>8. Complete("payload")' /\ Complete("sidecar")'
  BY <1>2, <1>3 DEF IInv, Complete
<1>9. SidecarAgrees'
  <2>1. CASE sidecars
    <3>1. BetweenPayloadAndSidecar(w)'
      BY <1>4, <1>5, <2>1 DEF BetweenPayloadAndSidecar, At
    <3>2. QED
      BY <3>1 DEF SidecarAgrees
  <2>2. CASE ~sidecars
    BY <1>1, <1>3, <2>2 DEF SidecarAgrees
  <2>3. QED
    BY <2>1, <2>2
<1>10. BackupVerified'
  <2>1. SUFFICES ASSUME NEW v \in Workers, At(v, "stored")'
                 PROVE  /\ FileAt("payload")' = Whole("payload", worker'[v].content)
                        /\ ~sidecars'
    BY DEF BackupVerified
  <2>2. CASE v = w
    BY <1>1, <1>3, <1>4, <1>5, <2>1, <2>2 DEF At
  <2>3. CASE v # w
    BY <1>2, <1>5, <2>1, <2>3, OthersDoNotSave DEF At, Saving
  <2>4. QED
    BY <2>2, <2>3
<1>12. QED
  BY <1>6, <1>7, <1>8, <1>9, <1>10 DEF IInv

LEMMA ReplaceSidecarKeeps ==
    ASSUME OneSaver, IInv, NEW w \in Workers, ReplaceSidecar(w)
    PROVE  IInv'
<1>1. /\ worker[w].step = "side-replace" /\ dir' = RenamedTo("sidecar") /\ data' = data
      /\ outdated' = FALSE /\ AfterSidecar(w) /\ UNCHANGED <<row, rest>> /\ sidecars' = sidecars
  BY DEF ReplaceSidecar, At, rest
<1>2. /\ worker[w].step \in Saving /\ worker[w] \in Call /\ LocalsAgree(w) /\ StoreOK
      /\ worker[w].content \in Contents /\ worker[w].answer = "" /\ worker[w].file = 0
      /\ AllWritten(w, "sidecar") /\ PayloadStays(w)
  BY <1>1 DEF Saving, WritesSidecar, IInv, StoreOK, LocalsAgree, TempAgrees, At, Writing
<1>3. /\ dir' \in [Paths -> {0} \cup Files]
      /\ \A p, o \in Paths : dir'[p] = dir'[o] => p = o \/ dir'[p] = 0
      /\ FileAt("sidecar")' = Whole("sidecar", worker[w].content)
      /\ dir'[Destination("payload")] = dir[Destination("payload")]
      /\ FileAt("payload")' = FileAt("payload")
  <2>1. "payload" \in Kinds /\ "sidecar" \in Kinds /\ "sidecar" # "payload"
    BY DEF Kinds
  <2>2. QED
    BY <1>1, <1>2, <2>1, RenameFacts
<1>4. dir[Destination("payload")] # 0 =>
        /\ FileAt("payload")' = Whole("payload", worker[w].content)
        /\ PayloadAccepted(FileAt("payload")', FileAt("sidecar")')
  BY <1>1, <1>2, <1>3 DEF PayloadStays, WritesSidecar, PayloadAccepted
<1>5. PICK q \in Call : /\ Becomes(w, q) /\ q.file = 0
                        /\ q.answer # "" => q.step = "idle"
                        /\ q.step \in {"stored", "idle"}
                        /\ q.step # "idle" => q.content = worker[w].content
  <2>1. CASE worker[w].op = "backupRemove"
    <3> DEFINE s == [worker[w] EXCEPT !.step = "stored"]
    <3>1. Becomes(w, s)
      BY <1>1, <2>1 DEF AfterSidecar, GoesOn
    <3>2. s \in Call /\ s.step = "stored" /\ s.file = 0 /\ s.answer = ""
          /\ s.content = worker[w].content
      BY <1>2 DEF Call, Steps
    <3> HIDE DEF s
    <3>3. QED
      BY <3>1, <3>2
  <2>2. CASE worker[w].op # "backupRemove"
    <3> DEFINE s == [Idle EXCEPT !.answer = "exported"]
    <3>1. Becomes(w, s)
      BY <1>1, <2>2 DEF AfterSidecar, Answers
    <3>2. s \in Call /\ s.step = "idle" /\ s.file = 0 /\ s.answer = "exported"
      BY IdleIsCall DEF Idle, Call
    <3> HIDE DEF s
    <3>3. QED
      BY <3>1, <3>2
  <2>3. QED
    BY <2>1, <2>2
<1>6. /\ worker' \in [Workers -> Call] /\ worker'[w] = q
      /\ \A v \in Workers : v # w => worker'[v] = worker[v]
  BY <1>5, OneWorkerChanges
<1>7. StoreOK'
  BY <1>1, <1>2, <1>3, <1>6 DEF StoreOK, rest
<1>8. ASSUME NEW v \in Workers
      PROVE  (LocalsAgree(v) /\ TempAgrees(v) /\ PayloadStays(v))'
  <2>1. CASE v = w
    <3>1. LocalsAgree(w)'
      BY <1>2, <1>5, <1>6 DEF LocalsAgree, Saving, WritesSidecar, Writing, CanSave
    <3>2. TempAgrees(w)'
      BY <1>5, <1>6 DEF TempAgrees, At
    <3>3. PayloadStays(w)'
      BY <1>3, <1>4, <1>5, <1>6 DEF PayloadStays, WritesSidecar
    <3>4. QED
      BY <2>1, <3>1, <3>2, <3>3
  <2>2. CASE v # w
    <3>1. worker'[v] = worker[v] /\ LocalsAgree(v) /\ worker[v].step \notin Saving
      BY <1>2, <1>6, <2>2, OthersDoNotSave DEF IInv
    <3>2. QED
      BY <3>1 DEF LocalsAgree, TempAgrees, PayloadStays, At, Saving, WritesSidecar, CanSave
  <2>3. QED
    BY <2>1, <2>2
<1>9. Complete("payload")' /\ Complete("sidecar")'
  BY <1>2, <1>3 DEF IInv, Complete
<1>10. SidecarAgrees'
  BY <1>3, <1>4 DEF SidecarAgrees, PayloadAccepted
<1>11. BackupVerified'
  <2>1. SUFFICES ASSUME NEW v \in Workers, At(v, "stored")'
                 PROVE  \/ dir'[Destination("payload")] = 0
                        \/ /\ FileAt("payload")' = Whole("payload", worker'[v].content)
                           /\ PayloadAccepted(FileAt("payload")', FileAt("sidecar")')
    BY DEF BackupVerified, PayloadAccepted
  <2>2. CASE v = w
    BY <1>3, <1>4, <1>5, <1>6, <2>1, <2>2 DEF At
  <2>3. CASE v # w
    BY <1>2, <1>6, <2>1, <2>3, OthersDoNotSave DEF At, Saving
  <2>4. QED
    BY <2>2, <2>3
<1>13. QED
  BY <1>7, <1>8, <1>9, <1>10, <1>11 DEF IInv

----------------------------------------------------------------------------
(* Deleting, crashes, saves in the cloud. *)

\* A destination is unlinked; nobody's temporary file is.
LEMMA UnlinkFacts ==
    ASSUME IInv, NEW kind \in Kinds,
           dir' = [dir EXCEPT ![Destination(kind)] = 0], data' = data
    PROVE  /\ dir' \in [Paths -> {0} \cup Files]
           /\ \A p, o \in Paths : dir'[p] = dir'[o] => p = o \/ dir'[p] = 0
           /\ dir'[Destination(kind)] = 0 /\ FileAt(kind)' = <<>>
           /\ \A m \in Kinds : dir'[Temp(m)] = dir[Temp(m)]
           /\ \A m \in Kinds : m # kind => /\ dir'[Destination(m)] = dir[Destination(m)]
                                           /\ FileAt(m)' = FileAt(m)
<1>1. StoreOK /\ Destination(kind) \in Paths
  BY DEF IInv, Destination, Paths
<1>2. /\ dir' \in [Paths -> {0} \cup Files]
      /\ dir'[Destination(kind)] = 0
      /\ \A p \in Paths : p # Destination(kind) => dir'[p] = dir[p]
  BY <1>1 DEF StoreOK
<1>3. \A p, o \in Paths : dir'[p] = dir'[o] => p = o \/ dir'[p] = 0
  BY <1>1, <1>2 DEF StoreOK
<1>4. \A m \in Kinds : Temp(m) \in Paths /\ Temp(m) # Destination(kind)
  BY PathFacts DEF Temp, Paths
<1>5. \A m \in Kinds : m # kind => Destination(m) \in Paths /\ Destination(m) # Destination(kind)
  BY DEF Destination, Paths
<1>6. FileAt(kind)' = <<>>
  BY <1>2 DEF FileAt
<1>7. \A m \in Kinds : m # kind => FileAt(m)' = FileAt(m)
  BY <1>2, <1>5 DEF FileAt
<1>8. QED
  BY <1>2, <1>3, <1>4, <1>5, <1>6, <1>7

\* Temporary files stay those of their workers while no temporary name changes.
LEMMA TempsStay ==
    ASSUME IInv, NEW v \in Workers, worker'[v] = worker[v], data' = data,
           \A m \in Kinds : dir'[Temp(m)] = dir[Temp(m)]
    PROVE  LocalsAgree(v)' /\ TempAgrees(v)'
<1>1. LocalsAgree(v) /\ TempAgrees(v)
  BY DEF IInv
<1>2. dir'[Temp("payload")] = dir[Temp("payload")] /\ dir'[Temp("sidecar")] = dir[Temp("sidecar")]
  BY DEF Kinds
<1>3. LocalsAgree(v)'
  BY <1>1 DEF LocalsAgree, CanSave
<1>4. TempAgrees(v)'
  BY <1>1, <1>2 DEF TempAgrees, At, PartWritten, AllWritten
<1>5. QED
  BY <1>3, <1>4

LEMMA DeletePayloadKeeps ==
    ASSUME IInv, NEW w \in Workers, DeletePayload(w)
    PROVE  IInv'
<1>1. /\ worker[w].step = "started" /\ worker[w] \in Call /\ LocalsAgree(w) /\ StoreOK
      /\ UNCHANGED <<row, data, rest, outdated>> /\ sidecars' = sidecars
      /\ ~BetweenPayloadAndSidecar(w)
      /\ row' \in Contents \cup {None} /\ outdated' \in BOOLEAN
  BY DEF DeletePayload, At, IInv, StoreOK, rest, BetweenPayloadAndSidecar
<1>2. CASE dir' = dir /\ Answers(w, "missing")
  <2>1. UNCHANGED disk /\ UNCHANGED rest /\ (outdated => outdated')
    BY <1>1, <1>2 DEF disk
  <2>2. QED
    BY <1>1, <1>2, <2>1, AnswerIsQuiet
<1>3. CASE dir' = [dir EXCEPT ![Destination("payload")] = 0] /\ GoesOn(w, "second")
  <2> DEFINE q == [worker[w] EXCEPT !.step = "second"]
  <2>1. /\ dir' \in [Paths -> {0} \cup Files]
        /\ \A p, o \in Paths : dir'[p] = dir'[o] => p = o \/ dir'[p] = 0
        /\ dir'[Destination("payload")] = 0
        /\ \A m \in Kinds : dir'[Temp(m)] = dir[Temp(m)]
        /\ dir'[Destination("sidecar")] = dir[Destination("sidecar")]
        /\ FileAt("sidecar")' = FileAt("sidecar")
    <3>1. "payload" \in Kinds /\ "sidecar" \in Kinds /\ "sidecar" # "payload"
      BY DEF Kinds
    <3>2. QED
      BY <1>1, <1>3, <3>1, UnlinkFacts
  <2>2. worker[w].answer = "" /\ worker[w].file = 0
    BY <1>1 DEF LocalsAgree, Writing
  <2>3. Becomes(w, q) /\ q \in Call /\ q.step = "second" /\ q.answer = "" /\ q.file = 0
    BY <1>1, <1>3, <2>2 DEF GoesOn, Call, Steps
  <2> HIDE DEF q
  <2>4. /\ worker' \in [Workers -> Call] /\ worker'[w] = q
        /\ \A v \in Workers : v # w => worker'[v] = worker[v]
    BY <2>3, OneWorkerChanges
  <2>5. StoreOK'
    BY <1>1, <2>1, <2>4 DEF StoreOK, rest
  <2>6. ASSUME NEW v \in Workers
        PROVE  (LocalsAgree(v) /\ TempAgrees(v) /\ PayloadStays(v))'
    <3>1. CASE v = w
      BY <2>3, <2>4, <3>1 DEF LocalsAgree, TempAgrees, PayloadStays, At, Saving, WritesSidecar,
                              Writing
    <3>2. CASE v # w
      BY <1>1, <2>1, <2>4, <3>2, TempsStay DEF PayloadStays
    <3>3. QED
      BY <3>1, <3>2
  <2>7. /\ Complete("payload")' /\ Complete("sidecar")' /\ SidecarAgrees' /\ BackupVerified'
    BY <2>1 DEF IInv, Complete, SidecarAgrees, BackupVerified
  <2>9. QED
    BY <2>5, <2>6, <2>7 DEF IInv
<1>4. QED
  BY <1>2, <1>3 DEF DeletePayload

LEMMA DeleteSidecarKeeps ==
    ASSUME IInv, NEW w \in Workers, DeleteSidecar(w)
    PROVE  IInv'
<1> DEFINE q == [Idle EXCEPT !.answer = "deleted"]
<1>1. /\ worker[w].step = "second" /\ StoreOK /\ Becomes(w, q)
      /\ dir' = [dir EXCEPT ![Destination("sidecar")] = 0]
      /\ UNCHANGED <<row, data, rest, outdated>> /\ sidecars' = sidecars
  BY DEF DeleteSidecar, At, IInv, rest, Answers
<1>2. /\ dir' \in [Paths -> {0} \cup Files]
      /\ \A p, o \in Paths : dir'[p] = dir'[o] => p = o \/ dir'[p] = 0
      /\ dir'[Destination("sidecar")] = 0 /\ FileAt("sidecar")' = <<>>
      /\ \A m \in Kinds : dir'[Temp(m)] = dir[Temp(m)]
      /\ dir'[Destination("payload")] = dir[Destination("payload")]
      /\ FileAt("payload")' = FileAt("payload")
  <2>1. "payload" \in Kinds /\ "sidecar" \in Kinds /\ "sidecar" # "payload"
    BY DEF Kinds
  <2>2. QED
    BY <1>1, <2>1, UnlinkFacts
<1>3. q \in Call /\ q.step = "idle" /\ q.answer = "deleted" /\ q.file = 0
  BY IdleIsCall DEF Idle, Call
<1> HIDE DEF q
<1>4. /\ worker' \in [Workers -> Call] /\ worker'[w] = q
      /\ \A v \in Workers : v # w => worker'[v] = worker[v]
  BY <1>1, <1>3, OneWorkerChanges
<1>5. StoreOK'
  BY <1>1, <1>2, <1>4 DEF StoreOK, rest
<1>6. ASSUME NEW v \in Workers
      PROVE  (LocalsAgree(v) /\ TempAgrees(v) /\ PayloadStays(v))'
  <2>1. CASE v = w
    BY <1>3, <1>4, <2>1 DEF LocalsAgree, TempAgrees, PayloadStays, At, Saving, WritesSidecar,
                            Writing
  <2>2. CASE v # w
    <3>1. worker'[v] = worker[v] /\ PayloadStays(v)
      BY <1>4, <2>2 DEF IInv
    <3>2. LocalsAgree(v)' /\ TempAgrees(v)'
      BY <1>1, <1>2, <3>1, TempsStay
    <3>3. PayloadStays(v)'
      BY <1>2, <3>1 DEF PayloadStays
    <3>4. QED
      BY <3>2, <3>3
  <2>3. QED
    BY <2>1, <2>2
<1>7. Complete("payload")' /\ Complete("sidecar")' /\ SidecarAgrees'
  BY <1>2 DEF IInv, Complete, SidecarAgrees
<1>8. BackupVerified'
  <2>1. SUFFICES ASSUME NEW v \in Workers, At(v, "stored")', dir'[Destination("payload")] # 0
                 PROVE  /\ FileAt("payload")' = Whole("payload", worker'[v].content)
                        /\ PayloadAccepted(FileAt("payload")', FileAt("sidecar")')
    BY DEF BackupVerified, PayloadAccepted
  <2>2. v # w
    BY <1>3, <1>4, <2>1 DEF At
  <2>3. worker'[v] = worker[v] /\ At(v, "stored") /\ worker[v].content \in Contents
    BY <1>4, <2>1, <2>2 DEF At, IInv, LocalsAgree, Saving
  <2>4. FileAt("payload") = Whole("payload", worker[v].content)
    BY <1>2, <2>1, <2>3 DEF IInv, BackupVerified
  <2>5. QED
    BY <1>2, <2>3, <2>4 DEF PayloadAccepted
<1>10. QED
  BY <1>5, <1>6, <1>7, <1>8 DEF IInv

LEMMA CloudSaveKeeps ==
    ASSUME IInv, CloudSave
    PROVE  IInv'
<1>1. /\ UNCHANGED disk /\ worker' = worker /\ sidecars' = sidecars /\ crashes' = crashes
      /\ outdated' = outdated /\ row' \in Contents /\ saves < MaxSaves /\ saves' = saves + 1
  BY DEF CloudSave
<1>2. dir' = dir /\ data' = data
  BY <1>1 DEF disk
<1>3. saves' \in 0 .. MaxSaves
  BY <1>1, DiskStoreAssumption DEF IInv, StoreOK
<1>4. StoreOK'
  BY <1>1, <1>2, <1>3 DEF IInv, StoreOK
<1>5. ASSUME NEW v \in Workers
      PROVE  (LocalsAgree(v) /\ TempAgrees(v) /\ PayloadStays(v))'
  BY <1>1, <1>2 DEF IInv, LocalsAgree, TempAgrees, PayloadStays, At, PartWritten, AllWritten, FileAt,
                    CanSave
<1>6. /\ Complete("payload")' /\ Complete("sidecar")' /\ SidecarAgrees' /\ BackupVerified'
  BY <1>1, <1>2 DEF IInv, Complete, FileAt, SidecarAgrees, BackupVerified, At,
                    PayloadAccepted, BetweenPayloadAndSidecar
<1>7. QED
  BY <1>4, <1>5, <1>6 DEF IInv

LEMMA IdleFields == Idle.step = "idle" /\ Idle.file = 0 /\ Idle.answer = ""
  BY DEF Idle

LEMMA CrashKeeps ==
    ASSUME IInv, Crash
    PROVE  IInv'
<1>1. /\ worker' = [w \in Workers |-> Idle] /\ data' = data /\ row' = row /\ saves' = saves
      /\ dir' \in {dir, [p \in Paths |-> IF p[2] = "temp" THEN 0 ELSE dir[p]]}
      /\ outdated' = (outdated \/ \E w \in Workers : BetweenPayloadAndSidecar(w))
      /\ sidecars' \in BOOLEAN /\ crashes < MaxCrashes /\ crashes' = crashes + 1 /\ StoreOK
  BY DiskStoreAssumption DEF Crash, IInv
<1>2. crashes' \in 0 .. MaxCrashes
  BY <1>1, DiskStoreAssumption DEF StoreOK
<1>3. /\ dir' \in [Paths -> {0} \cup Files]
      /\ \A p \in Paths : dir'[p] = 0 \/ dir'[p] = dir[p]
  BY <1>1 DEF StoreOK
<1>4. \A p, o \in Paths : dir'[p] = dir'[o] => p = o \/ dir'[p] = 0
  BY <1>1, <1>3 DEF StoreOK
<1>5. \A m \in Kinds : dir'[Destination(m)] = dir[Destination(m)] /\ FileAt(m)' = FileAt(m)
  <2>1. \A m \in Kinds : Destination(m) \in Paths /\ Destination(m)[2] = "destination"
    BY DEF Destination, Paths
  <2>2. \A m \in Kinds : dir'[Destination(m)] = dir[Destination(m)]
    BY <1>1, <2>1 DEF StoreOK
  <2>3. QED
    BY <1>1, <2>2 DEF FileAt
<1>6. \A w \in Workers : /\ worker'[w].step = "idle" /\ worker'[w].file = 0
                          /\ worker'[w].answer = ""
  BY <1>1, IdleFields
<1>7. StoreOK'
  BY <1>1, <1>2, <1>3, <1>4, IdleIsCall DEF StoreOK
<1>8. ASSUME NEW v \in Workers
      PROVE  (LocalsAgree(v) /\ TempAgrees(v) /\ PayloadStays(v))'
  BY <1>6 DEF LocalsAgree, TempAgrees, PayloadStays, At, Saving, WritesSidecar, Writing
<1>9. /\ dir'[Destination("payload")] = dir[Destination("payload")]
      /\ dir'[Destination("sidecar")] = dir[Destination("sidecar")]
      /\ FileAt("payload")' = FileAt("payload") /\ FileAt("sidecar")' = FileAt("sidecar")
  BY <1>5 DEF Kinds
<1>10. Complete("payload")' /\ Complete("sidecar")'
  BY <1>9 DEF IInv, Complete
<1>11. SidecarAgrees'
  BY <1>1, <1>9 DEF IInv, SidecarAgrees, PayloadAccepted
<1>12. BackupVerified'
  BY <1>6 DEF BackupVerified, At
<1>13. QED
  BY <1>7, <1>8, <1>10, <1>11, <1>12 DEF IInv

----------------------------------------------------------------------------
(* The invariant. *)

LEMMA InitEstablishes == Init => IInv
<1>1. SUFFICES ASSUME Init
               PROVE  IInv
  OBVIOUS
<1>2. /\ \A w \in Workers : worker[w] = Idle
      /\ \A p \in Paths : dir[p] = 0
      /\ sidecars \in BOOLEAN
  BY <1>1, DiskStoreAssumption DEF Init
<1>3. StoreOK
  <2>1. <<>> \in Seq(Pieces)
    OBVIOUS
  <2>2. dir \in [Paths -> {0} \cup Files] /\ data \in [Files -> Seq(Pieces)]
    BY <1>1, <2>1 DEF Init
  <2>3. worker \in [Workers -> Call]
    BY <1>1, IdleIsCall DEF Init
  <2>4. saves \in 0 .. MaxSaves /\ crashes \in 0 .. MaxCrashes
    BY <1>1, DiskStoreAssumption DEF Init
  <2>5. QED
    BY <1>1, <1>2, <2>2, <2>3, <2>4 DEF Init, StoreOK
<1>4. \A m \in Kinds : dir[Destination(m)] = 0
  BY <1>2 DEF Destination, Paths
<1>5. \A w \in Workers : worker[w].step = "idle" /\ worker[w].file = 0 /\ worker[w].answer = ""
  BY <1>2, IdleFields
<1>6. ASSUME NEW v \in Workers
      PROVE  LocalsAgree(v) /\ TempAgrees(v) /\ PayloadStays(v)
  BY <1>5 DEF LocalsAgree, TempAgrees, PayloadStays, At, Saving, WritesSidecar, Writing
<1>7. dir[Destination("payload")] = 0 /\ dir[Destination("sidecar")] = 0
  BY <1>4 DEF Kinds
<1>8. Complete("payload") /\ Complete("sidecar") /\ SidecarAgrees
  BY <1>7 DEF Complete, SidecarAgrees
<1>9. BackupVerified
  BY <1>5 DEF BackupVerified, At
<1>10. QED
  BY <1>3, <1>6, <1>8, <1>9 DEF IInv

LEMMA StepKeepsInvariant ==
    ASSUME OneSaver
    PROVE  IInv /\ [Next]_vars => IInv'
<1>1. SUFFICES ASSUME IInv, [Next]_vars
               PROVE  IInv'
  OBVIOUS
<1>2. ASSUME NEW w \in Workers,
             \/ Ask(w) \/ Check(w) \/ CheckRow(w) \/ HardDelete(w)
             \/ ReadPayload(w) \/ ReadSidecar(w) \/ DeletePayload(w) \/ DeleteSidecar(w)
             \/ AccessBreaks(w)
      PROVE  IInv'
  BY <1>1, <1>2, AskKeeps, CheckKeeps, HardDeleteKeeps, ReadPayloadKeeps, ReadSidecarKeeps,
     DeletePayloadKeeps, DeleteSidecarKeeps, AccessBreaksKeeps
<1>3. ASSUME NEW w \in Workers, ReplacePayload(w) \/ ReplaceSidecar(w) \/ Break(w)
      PROVE  IInv'
  BY <1>1, <1>3, ReplacePayloadKeeps, ReplaceSidecarKeeps, BreakKeeps
<1>4. ASSUME NEW w \in Workers,
             \/ OpenTemp(w, "payload", "open", "write")
             \/ OpenTemp(w, "sidecar", "side-open", "side-write")
      PROVE  IInv'
  BY <1>1, <1>4, OpenTempKeeps DEF Kinds
<1>5. ASSUME NEW w \in Workers,
             \/ WritePiece(w, "payload", "write", "replace")
             \/ WritePiece(w, "sidecar", "side-write", "side-replace")
      PROVE  IInv'
  BY <1>1, <1>5, WritePieceKeeps DEF Kinds
<1>6. CASE CloudSave \/ Crash
  BY <1>1, <1>6, CloudSaveKeeps, CrashKeeps
<1>7. CASE UNCHANGED vars
  <2>1. /\ row' = row /\ dir' = dir /\ data' = data /\ worker' = worker /\ outdated' = outdated
        /\ sidecars' = sidecars /\ saves' = saves /\ crashes' = crashes
    BY <1>7 DEF vars, disk, rest
  <2>2. StoreOK'
    BY <1>1, <2>1 DEF IInv, StoreOK
  <2>3. ASSUME NEW v \in Workers
        PROVE  (LocalsAgree(v) /\ TempAgrees(v) /\ PayloadStays(v))'
    BY <1>1, <2>1 DEF IInv, LocalsAgree, TempAgrees, PayloadStays, At, PartWritten, AllWritten,
                      FileAt, CanSave
  <2>4. Complete("payload")' /\ Complete("sidecar")' /\ SidecarAgrees' /\ BackupVerified'
    BY <1>1, <2>1 DEF IInv, Complete, FileAt, SidecarAgrees, BackupVerified, At,
                      PayloadAccepted, BetweenPayloadAndSidecar
  <2>5. QED
    BY <2>2, <2>3, <2>4 DEF IInv
<1>8. QED
  BY <1>1, <1>2, <1>3, <1>4, <1>5, <1>6, <1>7 DEF Next, Step

----------------------------------------------------------------------------
(* What a read has seen. *)

\* If the sidecar is accepted now, its pair with the payload that was read has been seen.
Sound(r) ==
    PayloadAccepted(worker[r].got, FileAt("sidecar")) =>
      Explained(seen[r], worker[r].got, FileAt("sidecar"))

SawDelete(r) == \E m \in seen[r] : m.deleting

ReadKnows(r) ==
    Reading(r) => /\ Moment \in seen[r]
                  /\ SawDelete(r) \/ (dir[Destination("payload")] # 0 /\ Sound(r))

RInv == TypeOK /\ \A r \in Workers : ReadKnows(r)

LEMMA MomentFacts ==
    /\ Moment.payload = FileAt("payload") /\ Moment.sidecar = FileAt("sidecar")
    /\ Moment.deleting = Deleting
BY DEF Moment

\* What a step of its call can make of a worker.
Outcome(r) ==
    \/ worker'[r].step # "second" /\ worker'[r].answer # "read"
    \/ /\ ReadPayload(r) /\ UNCHANGED disk /\ dir[Destination("payload")] # 0
       /\ worker'[r].got = FileAt("payload") /\ worker'[r].answer = ""
    \/ DeletePayload(r) /\ worker'[r].op = "delete" /\ worker'[r].answer = ""
    \/ ReadSidecar(r) /\ worker'[r].step = "idle"

LEMMA WhatBecomesOfIt ==
    ASSUME IInv, Step, NEW r \in Workers, worker'[r] # worker[r]
    PROVE  Outcome(r)
<1>1. worker \in [Workers -> Call]
  BY DEF IInv, StoreOK
<1>2. ASSUME NEW w \in Workers, NEW q, Becomes(w, q)
      PROVE  w = r /\ worker'[r] = q
  <2>1. w = r
    BY <1>1, <1>2 DEF Becomes
  <2>2. QED
    BY <1>1, <1>2, <2>1 DEF Becomes
<1>3. ASSUME NEW w \in Workers, NEW a, a # "read", Answers(w, a)
      PROVE  Outcome(r)
  <2>1. worker'[r] = [Idle EXCEPT !.answer = a]
    BY <1>2, <1>3 DEF Answers
  <2>2. worker'[r].step = "idle" /\ worker'[r].answer = a
    BY <2>1 DEF Idle
  <2>3. QED
    BY <1>3, <2>2 DEF Outcome
<1>4. ASSUME NEW w \in Workers, worker[w].step # "idle"
      PROVE  worker[w] \in Call /\ worker[w].answer = ""
  BY <1>1, <1>4 DEF IInv, LocalsAgree
<1>5. ASSUME NEW w \in Workers, worker[w].step # "idle", NEW step, GoesOn(w, step)
      PROVE  /\ w = r /\ worker'[r].step = step /\ worker'[r].answer = ""
             /\ worker'[r].op = worker[w].op
  <2>1. w = r /\ worker'[r] = [worker[w] EXCEPT !.step = step]
    BY <1>2, <1>5 DEF GoesOn
  <2>2. worker[w] \in Call /\ worker[w].answer = ""
    BY <1>4, <1>5
  <2>3. QED
    BY <2>1, <2>2 DEF Call
<1>6. ASSUME NEW w \in Workers, worker[w].step # "idle", NEW step, step # "second", GoesOn(w, step)
      PROVE  Outcome(r)
  BY <1>5, <1>6 DEF Outcome
<1>7. CASE CloudSave \/ Crash
  BY <1>1, <1>7, IdleFields DEF CloudSave, Crash, Outcome
<1>8. ASSUME NEW w \in Workers, Ask(w)
      PROVE  Outcome(r)
  <2>1. PICK o, v : LET q == [Idle EXCEPT !.op = o, !.overwrite = v]
                    IN \/ Becomes(w, [q EXCEPT !.step = "started"])
                       \/ Becomes(w, [Idle EXCEPT !.answer = "missing"])
                       \/ Becomes(w, [q EXCEPT !.step = "fetched", !.content = row])
    BY <1>8 DEF Ask
  <2> DEFINE q == [Idle EXCEPT !.op = o, !.overwrite = v]
             a == [q EXCEPT !.step = "started"]
             b == [Idle EXCEPT !.answer = "missing"]
             c == [q EXCEPT !.step = "fetched", !.content = row]
  <2>2. /\ a.step = "started" /\ a.answer = "" /\ b.step = "idle" /\ b.answer = "missing"
        /\ c.step = "fetched" /\ c.answer = ""
    BY DEF Idle
  <2>3. Becomes(w, a) \/ Becomes(w, b) \/ Becomes(w, c)
    BY <2>1
  <2> HIDE DEF a, b, c
  <2>4. worker'[r] = a \/ worker'[r] = b \/ worker'[r] = c
    BY <1>2, <2>3
  <2>5. QED
    BY <2>2, <2>4 DEF Outcome
<1>9. ASSUME NEW w \in Workers, Check(w) \/ CheckRow(w)
      PROVE  Outcome(r)
  <2>1. worker[w].step # "idle"
    BY <1>9 DEF Check, CheckRow, At
  <2>2. Answers(w, "exists") \/ Answers(w, "tooLarge") \/ GoesOn(w, "open")
    BY <1>9 DEF Check, CheckRow, Checked
  <2>3. QED
    BY <1>3, <1>6, <2>1, <2>2
<1>10. ASSUME NEW w \in Workers, NEW kind, NEW here, NEW next, OpenTemp(w, kind, here, next),
              here # "idle", next # "second"
       PROVE  Outcome(r)
  <2>1. PICK f : Becomes(w, [worker[w] EXCEPT !.step = next, !.file = f, !.offset = 0])
    BY <1>10 DEF OpenTemp
  <2>2. worker[w].step = here
    BY <1>10 DEF OpenTemp, At
  <2>3. worker[w] \in Call /\ worker[w].answer = ""
    BY <1>4, <1>10, <2>2
  <2>4. worker'[r] = [worker[w] EXCEPT !.step = next, !.file = f, !.offset = 0]
    BY <1>2, <2>1
  <2>5. worker'[r].step = next /\ worker'[r].answer = ""
    BY <2>3, <2>4 DEF Call
  <2>6. QED
    BY <1>10, <2>5 DEF Outcome
<1>11. ASSUME NEW w \in Workers, NEW kind, NEW here, NEW next, WritePiece(w, kind, here, next),
              here # "idle", here # "second", next # "second"
       PROVE  Outcome(r)
  <2>1. PICK n : \/ Becomes(w, [worker[w] EXCEPT !.offset = n])
                 \/ Becomes(w, [worker[w] EXCEPT !.step = next, !.file = 0, !.offset = 0])
    BY <1>11 DEF WritePiece
  <2>2. worker[w].step = here
    BY <1>11 DEF WritePiece, At
  <2>3. worker[w] \in Call /\ worker[w].answer = ""
    BY <1>4, <1>11, <2>2
  <2>4. CASE Becomes(w, [worker[w] EXCEPT !.offset = n])
    <3>1. worker'[r] = [worker[w] EXCEPT !.offset = n]
      BY <1>2, <2>4
    <3>2. worker'[r].step = here /\ worker'[r].answer = ""
      BY <2>2, <2>3, <3>1 DEF Call
    <3>3. QED
      BY <1>11, <3>2 DEF Outcome
  <2>5. CASE Becomes(w, [worker[w] EXCEPT !.step = next, !.file = 0, !.offset = 0])
    <3>1. worker'[r] = [worker[w] EXCEPT !.step = next, !.file = 0, !.offset = 0]
      BY <1>2, <2>5
    <3>2. worker'[r].step = next /\ worker'[r].answer = ""
      BY <2>3, <3>1 DEF Call
    <3>3. QED
      BY <1>11, <3>2 DEF Outcome
  <2>6. QED
    BY <2>1, <2>4, <2>5
<1>12. ASSUME NEW w \in Workers, ReplacePayload(w) \/ ReplaceSidecar(w)
       PROVE  Outcome(r)
  <2>1. worker[w].step # "idle"
    BY <1>12 DEF ReplacePayload, ReplaceSidecar, At
  <2>2. GoesOn(w, "side-open") \/ GoesOn(w, "stored") \/ Answers(w, "exported")
    BY <1>12 DEF ReplacePayload, ReplaceSidecar, AfterPayload, AfterSidecar
  <2>3. QED
    BY <1>3, <1>6, <2>1, <2>2
<1>13. ASSUME NEW w \in Workers, Break(w) \/ HardDelete(w) \/ DeleteSidecar(w) \/ AccessBreaks(w)
       PROVE  Outcome(r)
  <2>1. \/ Answers(w, "failed") \/ Answers(w, "removed") \/ Answers(w, "missing")
        \/ Answers(w, "deleted")
    BY <1>13 DEF Break, HardDelete, DeleteSidecar, AccessBreaks
  <2>2. QED
    BY <1>3, <2>1
<1>14. ASSUME NEW w \in Workers, ReadPayload(w)
       PROVE  Outcome(r)
  <2>1. worker[w].step # "idle" /\ UNCHANGED disk
    BY <1>14 DEF ReadPayload, At
  <2> DEFINE q == [worker[w] EXCEPT !.step = "second", !.got = FileAt("payload")]
  <2>2. CASE dir[Destination("payload")] # 0 /\ Becomes(w, q)
    <3>1. w = r /\ worker'[r] = q
      BY <1>2, <2>2
    <3>2. q.got = FileAt("payload") /\ q.answer = ""
      BY <1>4, <2>1 DEF Call
    <3>3. QED
      BY <1>14, <2>1, <2>2, <3>1, <3>2 DEF Outcome
  <2>3. CASE Answers(w, "missing") \/ Answers(w, "failed")
    BY <1>3, <2>3
  <2>4. QED
    BY <1>14, <2>2, <2>3 DEF ReadPayload
<1>15. ASSUME NEW w \in Workers, ReadSidecar(w)
       PROVE  Outcome(r)
  <2> DEFINE meta == IF FileAt("sidecar") = <<>> THEN None ELSE FileAt("sidecar")[1][1]
             q == [Idle EXCEPT !.answer = "read", !.got = worker[w].got, !.meta = meta]
  <2>1. CASE Becomes(w, q)
    <3>1. w = r /\ worker'[r] = q
      BY <1>2, <2>1
    <3>2. q.step = "idle"
      BY DEF Idle
    <3>3. QED
      BY <1>15, <3>1, <3>2 DEF Outcome
  <2>2. CASE Answers(w, "failed")
    BY <1>3, <2>2
  <2>3. QED
    BY <1>15, <2>1, <2>2 DEF ReadSidecar
<1>16. ASSUME NEW w \in Workers, DeletePayload(w)
       PROVE  Outcome(r)
  <2>1. worker[w].step # "idle" /\ worker[w].op = "delete"
    BY <1>16 DEF DeletePayload, At
  <2>2. Answers(w, "missing") \/ GoesOn(w, "second")
    BY <1>16 DEF DeletePayload
  <2>3. CASE GoesOn(w, "second")
    BY <1>5, <1>16, <2>1, <2>3 DEF Outcome
  <2>4. QED
    BY <1>3, <2>2, <2>3
<1>17. QED
  <2>1. ASSUME NEW w \in Workers,
               \/ OpenTemp(w, "payload", "open", "write")
               \/ OpenTemp(w, "sidecar", "side-open", "side-write")
        PROVE  Outcome(r)
    BY <1>10, <2>1
  <2>2. ASSUME NEW w \in Workers,
               \/ WritePiece(w, "payload", "write", "replace")
               \/ WritePiece(w, "sidecar", "side-write", "side-replace")
        PROVE  Outcome(r)
    BY <1>11, <2>2
  <2>3. QED
    BY <1>7, <1>8, <1>9, <1>12, <1>13, <1>14, <1>15, <1>16, <2>1, <2>2 DEF Step

\* Until it ends, nothing but its own next step changes what a read remembers.
LEMMA ReaderWaits ==
    ASSUME IInv, Step, NEW r \in Workers, Reading(r), Reading(r)'
    PROVE  worker'[r] = worker[r] /\ worker' # [w \in Workers |-> Idle]
<1>1. /\ worker[r].op = "read" /\ worker[r].step = "second" /\ worker'[r].step = "second"
      /\ worker'[r].op = "read"
  BY DEF Reading, At
<1>2. worker' # [w \in Workers |-> Idle]
  BY <1>1, IdleFields
<1>3. ~Outcome(r)
  BY <1>1 DEF Outcome, ReadPayload, At
<1>4. QED
  BY <1>2, <1>3, WhatBecomesOfIt

\* A sidecar comes to stand beside a payload only when both are of one version.
PairKept ==
    dir[Destination("payload")] # 0 =>
      /\ dir'[Destination("payload")] # 0
      /\ \/ FileAt("sidecar")' = FileAt("sidecar")
         \/ \E c \in Contents : /\ FileAt("sidecar")' = Whole("sidecar", c)
                                /\ FileAt("payload")' = Whole("payload", c)

LEMMA KeptIfAsBefore ==
    ASSUME DestinationsAsBefore
    PROVE  PairKept
BY DEF DestinationsAsBefore, PairKept, Kinds

LEMMA DiskKept ==
    ASSUME UNCHANGED disk
    PROVE  PairKept
BY DEF disk, PairKept, FileAt

LEMMA PairsChangeTogether ==
    ASSUME OneSaver, IInv, Step, worker' # [w \in Workers |-> Idle]
    PROVE  Deleting \/ Deleting' \/ PairKept
<1>1. CASE CloudSave \/ Crash
  BY <1>1, DiskKept DEF CloudSave, Crash
<1>2. ASSUME NEW w \in Workers,
             \/ Ask(w) \/ Check(w) \/ CheckRow(w) \/ HardDelete(w)
             \/ ReadPayload(w) \/ ReadSidecar(w) \/ AccessBreaks(w)
      PROVE  PairKept
  <2>1. UNCHANGED disk
    BY <1>2 DEF Ask, Check, CheckRow, HardDelete, ReadPayload, ReadSidecar, AccessBreaks
  <2>2. QED
    BY <2>1, DiskKept
<1>3. ASSUME NEW w \in Workers,
             \/ OpenTemp(w, "payload", "open", "write")
             \/ OpenTemp(w, "sidecar", "side-open", "side-write")
      PROVE  PairKept
  BY <1>3, OpenTempKeeps, KeptIfAsBefore DEF Kinds
<1>4. ASSUME NEW w \in Workers,
             \/ WritePiece(w, "payload", "write", "replace")
             \/ WritePiece(w, "sidecar", "side-write", "side-replace")
      PROVE  PairKept
  BY <1>4, WritePieceKeeps, KeptIfAsBefore DEF Kinds
<1>5. ASSUME NEW w \in Workers, Break(w)
      PROVE  PairKept
  BY <1>5, BreakKeeps, KeptIfAsBefore
<1>6. ASSUME NEW w \in Workers, ReplacePayload(w)
      PROVE  PairKept
  <2>1. /\ AllWritten(w, "payload") /\ dir' = RenamedTo("payload") /\ data' = data
        /\ "payload" \in Kinds /\ "sidecar" \in Kinds
    BY <1>6 DEF IInv, TempAgrees, ReplacePayload, Kinds
  <2>2. dir'[Destination("payload")] # 0 /\ FileAt("sidecar")' = FileAt("sidecar")
    BY <2>1, RenameFacts
  <2>3. QED
    BY <2>2 DEF PairKept
<1>7. ASSUME NEW w \in Workers, ReplaceSidecar(w)
      PROVE  PairKept
  <2>1. /\ AllWritten(w, "sidecar") /\ dir' = RenamedTo("sidecar") /\ data' = data
        /\ "payload" \in Kinds /\ "sidecar" \in Kinds /\ worker[w].step = "side-replace"
    BY <1>7 DEF IInv, TempAgrees, ReplaceSidecar, Kinds, At
  <2>2. /\ FileAt("sidecar")' = Whole("sidecar", worker[w].content)
        /\ dir'[Destination("payload")] = dir[Destination("payload")]
        /\ FileAt("payload")' = FileAt("payload")
    BY <2>1, RenameFacts
  <2>3. /\ worker[w].content \in Contents
        /\ \/ dir[Destination("payload")] = 0
           \/ FileAt("payload") = Whole("payload", worker[w].content)
    BY <2>1 DEF IInv, LocalsAgree, PayloadStays, Saving, WritesSidecar
  <2>4. QED
    BY <2>2, <2>3 DEF PairKept
<1>8. ASSUME NEW w \in Workers, DeletePayload(w)
      PROVE  Deleting' \/ PairKept
  <2>1. CASE dir[Destination("payload")] = 0
    BY <2>1 DEF PairKept
  <2>2. CASE dir[Destination("payload")] # 0
    <3>1. /\ worker[w].op = "delete"
          /\ worker' = [worker EXCEPT ![w] = [worker[w] EXCEPT !.step = "second"]]
      BY <1>8, <2>2 DEF DeletePayload, GoesOn, Becomes
    <3>2. worker[w] \in Call /\ worker'[w] = [worker[w] EXCEPT !.step = "second"]
      BY <3>1 DEF IInv, StoreOK
    <3>3. worker'[w].op = "delete" /\ worker'[w].step = "second"
      BY <3>1, <3>2 DEF Call
    <3>4. QED
      BY <3>3 DEF Deleting, At
  <2>3. QED
    BY <2>1, <2>2
<1>9. ASSUME NEW w \in Workers, DeleteSidecar(w)
      PROVE  Deleting
  BY <1>9 DEF DeleteSidecar, Deleting
<1>10. QED
  BY <1>1, <1>2, <1>3, <1>4, <1>5, <1>6, <1>7, <1>8, <1>9 DEF Step

\* The first moment of a read.
LEMMA ReadBegins ==
    ASSUME IInv, Step, NEW r \in Workers, ~Reading(r), Reading(r)'
    PROVE  /\ UNCHANGED disk /\ dir[Destination("payload")] # 0
           /\ worker'[r].got = FileAt("payload")
<1>1. worker'[r].op = "read" /\ worker'[r].step = "second" /\ worker'[r] # worker[r]
  BY DEF Reading, At
<1>2. Outcome(r)
  BY <1>1, WhatBecomesOfIt
<1>3. QED
  BY <1>1, <1>2 DEF Outcome

LEMMA WatchFacts ==
    ASSUME Watch, NEW r \in Workers, Reading(r)'
    PROVE  seen'[r] = seen[r] \cup {Moment'}
BY DEF Watch

\* What has been seen stays seen.
LEMMA ReaderKeepsWatching ==
    ASSUME OneSaver, IInv, Step, Watch, NEW r \in Workers, ReadKnows(r), Reading(r), Reading(r)'
    PROVE  ReadKnows(r)'
<1>1. seen'[r] = seen[r] \cup {Moment'}
  BY WatchFacts
<1>2. worker'[r] = worker[r] /\ worker' # [w \in Workers |-> Idle]
  BY ReaderWaits
<1>3. Moment \in seen[r] /\ (SawDelete(r) \/ (dir[Destination("payload")] # 0 /\ Sound(r)))
  BY DEF ReadKnows
<1>4. CASE SawDelete(r) \/ Deleting \/ Deleting'
  <2>1. Moment'.deleting = Deleting'
    BY DEF Moment
  <2>2. SawDelete(r)'
    BY <1>1, <1>3, <1>4, <2>1, MomentFacts DEF SawDelete
  <2>3. QED
    BY <1>1, <2>2 DEF ReadKnows
<1>5. CASE ~SawDelete(r) /\ ~Deleting /\ ~Deleting'
  <2>1. dir[Destination("payload")] # 0 /\ Sound(r) /\ PairKept
    BY <1>2, <1>3, <1>5, PairsChangeTogether
  <2>2. dir'[Destination("payload")] # 0
    BY <2>1 DEF PairKept
  <2>3. ASSUME PayloadAccepted(worker[r].got, FileAt("sidecar")')
        PROVE  Explained(seen'[r], worker[r].got, FileAt("sidecar")')
    <3>1. CASE FileAt("sidecar")' = FileAt("sidecar")
      <4>1. Explained(seen[r], worker[r].got, FileAt("sidecar"))
        BY <2>1, <2>3, <3>1 DEF Sound
      <4>2. QED
        BY <1>1, <3>1, <4>1 DEF Explained
    <3>2. CASE FileAt("sidecar")' # FileAt("sidecar")
      <4>1. PICK c \in Contents : /\ FileAt("sidecar")' = Whole("sidecar", c)
                                  /\ FileAt("payload")' = Whole("payload", c)
        BY <2>1, <3>2 DEF PairKept
      <4>2. PICK d \in Contents : /\ worker[r].got = Whole("payload", d)
                                  /\ FileAt("sidecar")' \in {<<>>, Whole("sidecar", d)}
        BY <2>3 DEF PayloadAccepted
      <4>3. c = d
        <5>1. Whole("sidecar", c) = <<<<c, 0>>>> /\ Whole("sidecar", d) = <<<<d, 0>>>>
          BY DEF Whole
        <5>2. QED
          BY <4>1, <4>2, <5>1
      <4>4. Moment'.payload = worker[r].got /\ Moment'.sidecar = FileAt("sidecar")'
        BY <4>1, <4>2, <4>3 DEF Moment
      <4>5. QED
        BY <1>1, <4>4 DEF Explained, Explains
    <3>3. QED
      BY <3>1, <3>2
  <2>4. Sound(r)'
    BY <1>2, <2>3 DEF Sound
  <2>5. QED
    BY <1>1, <2>2, <2>4 DEF ReadKnows
<1>6. QED
  BY <1>4, <1>5

LEMMA ReaderBegins ==
    ASSUME IInv, Step, Watch, NEW r \in Workers, ~Reading(r), Reading(r)'
    PROVE  ReadKnows(r)'
<1>1. Moment' \in seen'[r]
  BY WatchFacts
<1>2. /\ UNCHANGED disk /\ dir[Destination("payload")] # 0 /\ worker'[r].got = FileAt("payload")
  BY ReadBegins
<1>3. /\ dir'[Destination("payload")] # 0
      /\ FileAt("payload")' = FileAt("payload") /\ FileAt("sidecar")' = FileAt("sidecar")
  BY <1>2 DEF disk, FileAt
<1>4. Explained(seen'[r], worker'[r].got, FileAt("sidecar")')
  <2>1. Moment'.payload = worker'[r].got /\ Moment'.sidecar = FileAt("sidecar")'
    BY <1>2, <1>3 DEF Moment
  <2>2. QED
    BY <1>1, <2>1 DEF Explained, Explains
<1>5. QED
  BY <1>1, <1>3, <1>4 DEF ReadKnows, Sound

LEMMA ReadsInit == Init => RInv
<1>1. SUFFICES ASSUME Init
               PROVE  RInv
  OBVIOUS
<1>2. StoreOK
  BY <1>1, InitEstablishes DEF IInv
<1>3. TypeOK
  BY <1>1, <1>2 DEF TypeOK, Init
<1>4. \A r \in Workers : ~Reading(r)
  BY <1>1, IdleFields DEF Init, Reading, At
<1>5. QED
  BY <1>3, <1>4 DEF RInv, ReadKnows

LEMMA StepKeepsReads ==
    ASSUME OneSaver
    PROVE  IInv /\ RInv /\ [Next]_vars => RInv'
<1>1. SUFFICES ASSUME IInv, RInv, [Next]_vars
               PROVE  RInv'
  OBVIOUS
<1>2. StoreOK'
  BY <1>1, StepKeepsInvariant DEF IInv
<1>3. CASE Next
  <2>1. Step /\ Watch
    BY <1>3 DEF Next
  <2>2. Moment' \in Moments
    <3>1. Destination("payload") \in Paths /\ Destination("sidecar") \in Paths
      BY DEF Destination, Paths, Kinds
    <3>2. FileAt("payload")' \in Seq(Pieces) /\ FileAt("sidecar")' \in Seq(Pieces)
      BY <1>2, <3>1 DEF StoreOK, FileAt
    <3>3. Deleting' \in BOOLEAN
      BY DEF Deleting
    <3>4. QED
      BY <3>2, <3>3 DEF Moment, Moments, FileContents
  <2>3. seen' \in [Workers -> SUBSET Moments]
    BY <1>1, <2>1, <2>2 DEF RInv, TypeOK, Watch
  <2>4. ASSUME NEW r \in Workers
        PROVE  ReadKnows(r)'
    <3>1. CASE ~Reading(r)'
      BY <3>1 DEF ReadKnows
    <3>2. CASE Reading(r) /\ Reading(r)'
      BY <1>1, <2>1, <3>2, ReaderKeepsWatching DEF RInv
    <3>3. CASE ~Reading(r) /\ Reading(r)'
      BY <1>1, <2>1, <3>3, ReaderBegins
    <3>4. QED
      BY <3>1, <3>2, <3>3
  <2>5. QED
    BY <1>2, <2>3, <2>4 DEF RInv, TypeOK
<1>4. CASE UNCHANGED vars
  <2>1. /\ dir' = dir /\ data' = data /\ worker' = worker /\ seen' = seen
    BY <1>4 DEF vars, disk
  <2>2. TypeOK'
    BY <1>1, <1>2, <2>1 DEF RInv, TypeOK
  <2>3. Moment' = Moment
    BY <2>1 DEF Moment, FileAt, Deleting, At
  <2>4. ASSUME NEW r \in Workers
        PROVE  ReadKnows(r)'
    <3>1. ReadKnows(r)
      BY <1>1 DEF RInv
    <3>2. QED
      BY <2>1, <2>3, <3>1 DEF ReadKnows, Reading, At, SawDelete, Sound, FileAt
  <2>5. QED
    BY <2>2, <2>4 DEF RInv
<1>5. QED
  BY <1>1, <1>3, <1>4

\* A read that ends takes the sidecar that stands there now.
LEMMA ReadEndsKnowing ==
    ASSUME IInv, RInv, Step, NEW r \in Workers, Reading(r), worker'[r].answer = "read"
    PROVE  ReadIsAtomic(r, worker'[r])
<1>1. worker[r].answer # "read" /\ worker[r].step = "second" /\ worker[r].op = "read"
  BY DEF IInv, LocalsAgree, Reading, At
<1>2. worker'[r] # worker[r]
  BY <1>1
<1>3. ReadSidecar(r)
  <2>1. Outcome(r)
    BY <1>2, WhatBecomesOfIt
  <2>2. QED
    BY <1>1, <2>1 DEF Outcome, ReadPayload, At
<1> DEFINE sidecar == FileAt("sidecar")
           meta == IF sidecar = <<>> THEN None ELSE sidecar[1][1]
           q == [Idle EXCEPT !.answer = "read", !.got = worker[r].got, !.meta = meta]
<1>4. worker \in [Workers -> Call]
  BY DEF IInv, StoreOK
<1>5. ~Answers(r, "failed")
  <2>1. SUFFICES ASSUME Answers(r, "failed")
                 PROVE  FALSE
    OBVIOUS
  <2>2. worker'[r] = [Idle EXCEPT !.answer = "failed"]
    BY <1>4, <2>1 DEF Answers, Becomes
  <2>3. QED
    BY <2>2 DEF Idle
<1>6. PayloadAccepted(worker[r].got, sidecar) /\ Becomes(r, q)
  BY <1>3, <1>5 DEF ReadSidecar
<1>7. worker'[r] = q
  BY <1>4, <1>6 DEF Becomes
<1>8. q.got = worker[r].got /\ q.meta = meta
  BY DEF Idle
<1> HIDE DEF q
<1>9. sidecar = IF meta = None THEN <<>> ELSE Whole("sidecar", meta)
  BY <1>6, AcceptedMeta
<1> HIDE DEF meta
<1>10. SawDelete(r) \/ Sound(r)
  BY DEF RInv, ReadKnows
<1>11. Explained(seen[r], worker[r].got, sidecar)
  <2>1. CASE SawDelete(r)
    BY <2>1 DEF SawDelete, Explained, Explains
  <2>2. CASE Sound(r)
    BY <1>6, <2>2 DEF Sound
  <2>3. QED
    BY <1>10, <2>1, <2>2
<1>12. QED
  BY <1>7, <1>8, <1>9, <1>11 DEF ReadIsAtomic

----------------------------------------------------------------------------
(* The theorems. *)

\* While one worker at a time writes backups of a name, whatever else reads and deletes them
\* and wherever it fails or the process dies, every variable keeps its type; two names never
\* stand for one file (save_cloud_file, read, delete).
THEOREM DiskTypeCorrect ==
    ASSUME OneSaver
    PROVE  Spec => []TypeOK
<1>1. RInv => TypeOK
  BY DEF RInv
<1>2. QED
  BY <1>1, InitEstablishes, StepKeepsInvariant, ReadsInit, StepKeepsReads, PTL DEF Spec

\* The payload's name always stands for one complete version, of however many pieces, and
\* its sidecar for the same one except where the code allows for it (save_cloud_file).
THEOREM FilesAlwaysAgree ==
    ASSUME OneSaver
    PROVE  Spec => []FilesAgree
<1>1. IInv => FilesAgree
  BY DEF IInv, Complete, SidecarAgrees, FilesAgree
<1>2. QED
  BY <1>1, InitEstablishes, StepKeepsInvariant, PTL DEF Spec

\* A row is deleted only while its backup is on the disk, complete (request_export_to_disk).
THEOREM BackupAlwaysVerified ==
    ASSUME OneSaver
    PROVE  Spec => []BackupVerified
<1>1. IInv => BackupVerified
  BY DEF IInv
<1>2. QED
  BY <1>1, InitEstablishes, StepKeepsInvariant, PTL DEF Spec

\* While one worker at a time writes backups of a name, the payload and the metadata that
\* read returns were on the disk together while it read, unless a delete came between (read).
THEOREM ReadsAlwaysAtomic ==
    ASSUME OneSaver
    PROVE  Spec => ReadsAreAtomic
<1>1. IInv /\ RInv /\ [Next]_vars =>
        [\A w \in Workers : Reading(w) => ReadIsAtomic(w, worker'[w])]_vars
  <2>1. SUFFICES ASSUME IInv, RInv, Next, NEW w \in Workers, Reading(w)
                 PROVE  ReadIsAtomic(w, worker'[w])
    OBVIOUS
  <2>2. CASE worker'[w].answer = "read"
    BY <2>1, <2>2, ReadEndsKnowing DEF Next
  <2>3. CASE worker'[w].answer # "read"
    BY <2>3 DEF ReadIsAtomic
  <2>4. QED
    BY <2>2, <2>3
<1>2. QED
  BY <1>1, InitEstablishes, StepKeepsInvariant, ReadsInit, StepKeepsReads, PTL
     DEF Spec, ReadsAreAtomic
=============================================================================
