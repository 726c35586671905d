--------------------------- MODULE SchematicStore ---------------------------
(***************************************************************************)
(* database.py's MySQLSchematicStore as the workers of several servers use  *)
(* it (plugin.py): the rows, payload chunks and category memberships of one *)
(* name of one namespace.  Every statement or transaction is one action,    *)
(* since InnoDB's row locks serialise the writers of a name and every read  *)
(* sees committed data only; what a request does between its statements is  *)
(* interleaved with every other request, and each statement may fail or     *)
(* lose its answer.                                                         *)
(*                                                                          *)
(* A payload above the inline limit is stored as a sequence of pieces in    *)
(* the chunk table; a smaller one in the row.                               *)
(***************************************************************************)
EXTENDS Integers, Sequences, FiniteSets

CONSTANTS
    Requests,       \* the database operations the workers carry out
    Calls,          \* their inputs: [op, content, overwrite, category]
    Contents,       \* schematic contents, told apart by content_sha256
    PieceCount,     \* the number of pieces of each content, 0 if stored inline
    RetryAttempts,  \* retry_attempts
    MaxId,          \* bound: rows ever inserted under the name
    NoRow, NoPayload, NoCall

Ids == 1 .. MaxId
Piece == Contents \X Nat
Row == [id : Ids, content : Contents, archived : BOOLEAN]

CategoryNames == {c.category : c \in {d \in Calls : d.op \in {"save", "move", "createCategory"}}}

\* A move names its category; only a save may keep the one there is.
ASSUME StoreAssumption ==
    /\ PieceCount \in [Contents -> Nat]
    /\ RetryAttempts \in Nat \ {0}
    /\ MaxId \in Nat \ {0}
    /\ \A c \in Calls : /\ c.op = "save" => c.content \in Contents
                        /\ c.op = "move" => c.category # "keep"
    /\ NoRow \notin Row
    /\ NoRow \notin [payload : Seq(Piece), archived : BOOLEAN, category : CategoryNames \cup {""}]

VARIABLES
    row,         \* the row of the name: id, content (sha256 and, if inline, payload), deleted_at
    pieces,      \* the chunk table: the pieces stored under each schematic id
    member,      \* the membership table: the category of each schematic id, "" if none
    categories,  \* the category table
    nextId,      \* AUTO_INCREMENT
    disk,        \* the native backup of the name in the disk store of the exporting server
    req          \* the requests, each with the local variables of its operation

database == <<row, pieces, member, categories, nextId>>
vars == <<database, disk, req>>

PiecesOf(c) == [k \in 1 .. PieceCount[c] |-> <<c, k>>]
PayloadOf(c) == IF PieceCount[c] = 0 THEN <<<<c, 0>>>> ELSE PiecesOf(c)

NoRequest == [call |-> NoCall, step |-> "idle", attempt |-> 1, id |-> 0, content |-> NoPayload,
              expected |-> 0, got |-> <<>>, answer |-> "", changes |-> 0]

AnswerNames == {"", "saved", "exists", "failed", "missing", "fetched", "exported", "removed",
                "archived", "moved", "created"}

Request ==
    [call : Calls \cup {NoCall},
     step : {"idle", "called", "blocked", "counting", "reading", "verified", "stored", "done"},
     attempt : 1 .. RetryAttempts, id : {0} \cup Ids, content : Contents \cup {NoPayload},
     expected : Nat, got : Seq(Piece), answer : AnswerNames, changes : Nat]

TypeOK ==
    /\ row = NoRow \/ row \in Row
    /\ pieces \in [Ids -> Seq(Piece)]
    /\ member \in [Ids -> CategoryNames \cup {""}]
    /\ categories \subseteq CategoryNames
    /\ nextId \in 1 .. (MaxId + 1)
    /\ disk = NoPayload \/ disk \in Seq(Piece)
    /\ req \in [Requests -> Request]

Init ==
    /\ row = NoRow
    /\ pieces = [i \in Ids |-> <<>>] /\ member = [i \in Ids |-> ""]
    /\ categories = {} /\ nextId = 1
    /\ disk = NoPayload
    /\ req = [r \in Requests |-> NoRequest]

Live == row # NoRow /\ ~row.archived

At(r, op, step) == req[r].step = step /\ req[r].call.op = op

Answered(q, answer) == [q EXCEPT !.step = "done", !.answer = answer]
Becomes(r, q) == req' = [req EXCEPT ![r] = q]
Answers(r, answer) == Becomes(r, Answered(req[r], answer))

\* The statement was carried out; the client sees its answer, or loses the connection and
\* reports a failure.
Reports(r, answer) == Answers(r, answer) \/ Answers(r, "failed")

Call(r) ==
    /\ req[r].step = "idle"
    /\ \E c \in Calls : Becomes(r, [req[r] EXCEPT !.call = c, !.step = "called"])
    /\ UNCHANGED <<database, disk>>

----------------------------------------------------------------------------
(* Saving: _save_once, _save_file_once and the retry loop around them. *)

\* A transient error: another attempt after a pause, or the last one failed.
RetriedTooOften(q) ==                                                 \* mutant
    IF q.attempt <= RetryAttempts THEN [q EXCEPT !.attempt = @ + 1] ELSE Answered(q, "failed")
Retried(q) ==
    IF q.attempt < RetryAttempts THEN [q EXCEPT !.attempt = @ + 1] ELSE Answered(q, "failed")

RowId == IF row = NoRow THEN nextId ELSE row.id

\* _set_category, in the same transaction: None keeps the membership.
MemberAfter(c, id) == IF c.category = "keep" THEN member ELSE [member EXCEPT ![id] = c.category]

\* The transaction: the row is inserted or, by its unique key, updated and un-archived; the
\* old pieces are deleted and the new ones inserted.
StoredKeepingPieces(c) ==                                             \* mutant
    /\ row' = [id |-> RowId, content |-> c.content, archived |-> FALSE]
    /\ pieces' = IF PieceCount[c.content] = 0 THEN pieces
                 ELSE [pieces EXCEPT ![RowId] = PiecesOf(c.content)]
    /\ member' = MemberAfter(c, RowId)
    /\ nextId' = IF row = NoRow THEN nextId + 1 ELSE nextId
Stored(c) ==
    /\ row' = [id |-> RowId, content |-> c.content, archived |-> FALSE]
    /\ pieces' = [pieces EXCEPT ![RowId] = PiecesOf(c.content)]
    /\ member' = MemberAfter(c, RowId)
    /\ nextId' = IF row = NoRow THEN nextId + 1 ELSE nextId

CategoryExists(c) == c.category \in categories \cup {"", "keep"}

\* It commits, and the acknowledgement arrives or is lost, which looks transient.
SaveCommits(r) ==
    /\ At(r, "save", "called")
    /\ LET c == req[r].call
       IN /\ row = NoRow => nextId <= MaxId
          /\ row = NoRow \/ c.overwrite
          /\ CategoryExists(c)
          /\ Stored(c)
    /\ \E q \in {Answered(req[r], "saved"), Retried(req[r])} :
         Becomes(r, [q EXCEPT !.changes = @ + IF <<row, member>>' = <<row, member>> THEN 0 ELSE 1])
    /\ UNCHANGED <<categories, disk>>

\* A deadlock, a lost connection, a timeout: nothing is committed.
SaveBreaks(r) ==
    /\ At(r, "save", "called")
    /\ Becomes(r, Retried(req[r]))
    /\ UNCHANGED <<database, disk>>

\* The category does not exist, or any other error that is not transient: rolled back.
SaveFails(r) ==
    /\ At(r, "save", "called")
    /\ Answers(r, "failed")
    /\ UNCHANGED <<database, disk>>

\* Error 1062: a first attempt meets an entry; a later one may meet its own.
SaveDuplicate(r) ==
    /\ At(r, "save", "called")
    /\ ~req[r].call.overwrite /\ row # NoRow
    /\ IF req[r].attempt = 1 THEN Answers(r, "exists")
                             ELSE Becomes(r, [req[r] EXCEPT !.step = "blocked"])
    /\ UNCHANGED <<database, disk>>

\* _existing_matching_receipt, on a connection of its own.
ReceiptMatches(q) == Live /\ row.content = q.call.content

SaveReceipt(r) ==
    /\ At(r, "save", "blocked")
    /\ \/ ReceiptMatches(req[r]) /\ Answers(r, "saved")
       \/ ~ReceiptMatches(req[r]) /\ Answers(r, "exists")
    /\ UNCHANGED <<database, disk>>

\* Any error of that query counts as no receipt.
ReceiptFails(r) ==
    /\ At(r, "save", "blocked")
    /\ Answers(r, "exists")
    /\ UNCHANGED <<database, disk>>

----------------------------------------------------------------------------
(* Reading: fetch_to_file and fetch, statement by statement. *)

Reads(r) == req[r].call.op \in {"fetch", "export", "backupRemove"}

\* A verified payload: a fetch is answered, an export goes on to the disk.
Delivered(q, got) ==
    LET v == [q EXCEPT !.got = got, !.step = "verified"]
    IN IF q.call.op = "fetch" THEN Answered(v, "fetched") ELSE v

\* The row, which holds the whole of an inline payload.
ReadRow(r) ==
    /\ req[r].step = "called" /\ Reads(r)
    /\ IF ~Live THEN Answers(r, "missing")
       ELSE LET q == [req[r] EXCEPT !.id = row.id, !.content = row.content]
            IN Becomes(r, [q EXCEPT !.step = "counting"])
    /\ UNCHANGED <<database, disk>>

\* An inline payload needs no further statement.
ReadInline(r) ==
    /\ req[r].step = "counting"
    /\ PieceCount[req[r].content] = 0
    /\ Becomes(r, Delivered(req[r], PayloadOf(req[r].content)))
    /\ UNCHANGED <<database, disk>>

\* fetch_to_file counts the pieces of the id it read.
CountPieces(r) ==
    /\ req[r].step = "counting"
    /\ PieceCount[req[r].content] > 0
    /\ Becomes(r, [req[r] EXCEPT !.expected = Len(pieces[req[r].id]), !.step = "reading"])
    /\ UNCHANGED <<database, disk>>

\* One piece per statement.
ReadPiece(r) ==
    /\ req[r].step = "reading"
    /\ LET q == req[r]
           k == Len(q.got) + 1
       IN /\ k <= q.expected
          /\ IF k \in DOMAIN pieces[q.id]
               THEN Becomes(r, [q EXCEPT !.got = Append(@, pieces[q.id][k])])
               ELSE Answers(r, "failed")
    /\ UNCHANGED <<database, disk>>

\* Length and checksum of what was assembled, against the row read at the beginning.
ChecksNothing(q, got) == TRUE                                         \* mutant
ChecksumMatches(q, got) == got = PayloadOf(q.content)

Verify(r) ==
    /\ req[r].step = "reading"
    /\ LET q == req[r]
       IN /\ Len(q.got) = q.expected
          /\ IF ChecksumMatches(q, q.got) THEN Becomes(r, Delivered(q, q.got))
                                          ELSE Answers(r, "failed")
    /\ UNCHANGED <<database, disk>>

\* fetch reads all pieces with one statement (assemble_payload_chunks).
FetchWhole(r) ==
    /\ req[r].step = "counting" /\ req[r].call.op = "fetch"
    /\ PieceCount[req[r].content] > 0
    /\ LET q == req[r]
           got == pieces[q.id]
       IN IF ChecksumMatches(q, got) THEN Becomes(r, Delivered(q, got)) ELSE Answers(r, "failed")
    /\ UNCHANGED <<database, disk>>

----------------------------------------------------------------------------
(* The other operations. *)

\* request_export_to_disk: the file is replaced, or exists and may not be.
SaveToDisk(r) ==
    /\ req[r].step = "verified"
    /\ disk = NoPayload \/ req[r].call.overwrite
    /\ disk' = req[r].got
    /\ IF req[r].call.op = "backupRemove"
         THEN Becomes(r, [req[r] EXCEPT !.step = "stored"])
         ELSE Answers(r, "exported")
    /\ UNCHANGED database

Removing(r) == At(r, "remove", "called") \/ At(r, "backupRemove", "stored")

\* hard_delete, by name: the row, its pieces and its membership in one transaction.
HardDelete(r) ==
    /\ Removing(r)
    /\ row # NoRow
    /\ row' = NoRow
    /\ pieces' = [pieces EXCEPT ![row.id] = <<>>]
    /\ member' = [member EXCEPT ![row.id] = ""]
    /\ Reports(r, "removed")
    /\ UNCHANGED <<categories, nextId, disk>>

NothingToDelete(r) ==
    /\ Removing(r)
    /\ row = NoRow
    /\ Answers(r, "missing")
    /\ UNCHANGED <<database, disk>>

\* soft_delete: one UPDATE of a live row.
SoftDelete(r) ==
    /\ At(r, "archive", "called")
    /\ IF Live THEN row' = [row EXCEPT !.archived = TRUE] /\ Reports(r, "archived")
               ELSE row' = row /\ Answers(r, "missing")
    /\ UNCHANGED <<pieces, member, categories, nextId, disk>>

\* move: the row is locked, then _set_category.
Move(r) ==
    /\ At(r, "move", "called")
    /\ IF Live
         THEN /\ CategoryExists(req[r].call)
              /\ member' = MemberAfter(req[r].call, row.id)
              /\ Reports(r, "moved")
         ELSE member' = member /\ Answers(r, "missing")
    /\ UNCHANGED <<row, pieces, categories, nextId, disk>>

CreateCategory(r) ==
    /\ At(r, "createCategory", "called")
    /\ categories' = categories \cup {req[r].call.category}
    /\ Reports(r, "created")
    /\ UNCHANGED <<row, pieces, member, nextId, disk>>

\* Any other operation is not retried: an error before its statement ends it.  So do a
\* missing category and a backup that exists.
OtherFails(r) ==
    /\ req[r].step \notin {"idle", "done"} /\ req[r].call.op # "save"
    /\ Answers(r, "failed")
    /\ UNCHANGED <<database, disk>>

Next ==
    \E r \in Requests :
      \/ Call(r)
      \/ SaveCommits(r) \/ SaveBreaks(r) \/ SaveFails(r)
      \/ SaveDuplicate(r) \/ SaveReceipt(r) \/ ReceiptFails(r)
      \/ ReadRow(r) \/ ReadInline(r) \/ CountPieces(r) \/ ReadPiece(r) \/ Verify(r) \/ FetchWhole(r)
      \/ SaveToDisk(r) \/ HardDelete(r) \/ NothingToDelete(r) \/ SoftDelete(r) \/ Move(r)
      \/ CreateCategory(r) \/ OtherFails(r)

Spec == Init /\ [][Next]_vars

----------------------------------------------------------------------------
(* What the store promises. *)

\* The tables agree: a row's pieces are those of its content, all of them, and no piece or
\* membership is left behind for an id without a row, so that no fetch assembles a payload
\* of two saves and no deleted schematic keeps its megabytes (ensure_schema declares no
\* foreign key that would see to it).
TablesAgree ==
    /\ row # NoRow => /\ pieces[row.id] = PiecesOf(row.content)
                      /\ row.id < nextId
    /\ \A i \in Ids : (row = NoRow \/ i # row.id) => pieces[i] = <<>> /\ member[i] = ""

\* The library the clients see: the payload as stored, piece by piece.
StoredPayload == IF PieceCount[row.content] = 0 THEN PayloadOf(row.content) ELSE pieces[row.id]

Seen(q) ==
    CASE q.step \in {"counting", "reading", "verified"} -> PayloadOf(q.content)
      [] q.answer = "fetched" -> q.got
      [] OTHER -> NoPayload

View(q) == [call |-> q.call,
            stage |-> IF q.step \in {"counting", "reading", "verified"} THEN "seen" ELSE q.step,
            payload |-> Seen(q),
            answer |-> q.answer]

Entry == IF row = NoRow THEN NoRow
         ELSE [payload |-> StoredPayload, archived |-> row.archived, category |-> member[row.id]]
Asked == [r \in Requests |-> View(req[r])]

Lib == INSTANCE Library WITH
    entry <- Entry,
    known <- categories,
    asked <- Asked,
    Payload <- [c \in Contents |-> PayloadOf(c)],
    NoEntry <- NoRow

\* The store implements Library: to its clients, statement-wise reads, transactions,
\* retries and lost answers of all servers look like whole steps on one entry.
ImplementsLibrary == Lib!Spec

\* "Recognize a commit whose acknowledgement was lost before a retry": a save changes the
\* library at most once, so its retry never undoes what others did after it.
RetryRecognized == \A r \in Requests : req[r].changes <= 1
=============================================================================
