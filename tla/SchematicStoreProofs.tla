------------------------ MODULE SchematicStoreProofs ------------------------
(***************************************************************************)
(* Theorems about SchematicStore, for every number of requests, contents,   *)
(* pieces and attempts: the tables agree, and the store implements Library. *)
(***************************************************************************)
EXTENDS SchematicStore, SequenceTheorems, TLAPS

(* The invariant: what a request knows at each of its steps. *)

Reading == {"counting", "reading", "verified"}

RequestAgrees(q) ==
    /\ q.step # "idle" => q.call \in Calls
    /\ (q.answer = "") <=> (q.step # "done")
    /\ q.step = "blocked" => q.call.op = "save"
    /\ q.step = "stored" => q.call.op = "backupRemove"
    /\ q.step \in Reading => /\ q.id \in Ids /\ q.content \in Contents
                             /\ q.call.op \in {"fetch", "export", "backupRemove"}
    /\ q.step = "verified" => q.call.op # "fetch" /\ q.got = PayloadOf(q.content)

IInv == TypeOK /\ TablesAgree /\ \A r \in Requests : RequestAgrees(req[r])

----------------------------------------------------------------------------
(* Payloads, answers and the steps of one request. *)

LEMMA PayloadType ==
    ASSUME NEW c \in Contents
    PROVE  /\ PiecesOf(c) \in Seq(Piece) /\ PayloadOf(c) \in Seq(Piece)
           /\ PieceCount[c] = 0 => PiecesOf(c) = <<>>
           /\ PieceCount[c] > 0 => PayloadOf(c) = PiecesOf(c)
           /\ PieceCount[c] \in Nat
<1>1. PieceCount[c] \in Nat
  BY StoreAssumption
<1>2. \A k \in 1 .. PieceCount[c] : <<c, k>> \in Piece
  BY <1>1 DEF Piece
<1>3. PiecesOf(c) \in [1 .. PieceCount[c] -> Piece]
  BY <1>2 DEF PiecesOf
<1>4. PiecesOf(c) \in Seq(Piece)
  BY <1>1, <1>3, SeqDef
<1>5. <<<<c, 0>>>> \in Seq(Piece)
  BY DEF Piece
<1>6. PieceCount[c] = 0 => PiecesOf(c) = <<>>
  BY DEF PiecesOf
<1>7. QED
  BY <1>1, <1>4, <1>5, <1>6 DEF PayloadOf

LEMMA AnsweredFacts ==
    ASSUME NEW q \in Request, q.call \in Calls, NEW a \in AnswerNames \ {"", "fetched"}
    PROVE  /\ Answered(q, a) \in Request /\ RequestAgrees(Answered(q, a))
           /\ View(Answered(q, a))
                = [call |-> q.call, stage |-> "done", payload |-> NoPayload, answer |-> a]
<1>1. Answered(q, a) \in Request
  BY DEF Answered, Request
<1>2. RequestAgrees(Answered(q, a))
  BY DEF Answered, Request, RequestAgrees, Reading
<1>3. Seen(Answered(q, a)) = NoPayload
  BY DEF Answered, Request, Seen
<1>4. View(Answered(q, a))
        = [call |-> q.call, stage |-> "done", payload |-> NoPayload, answer |-> a]
  BY <1>3 DEF View, Answered, Request
<1>5. QED
  BY <1>1, <1>2, <1>4

LEMMA RequestMoves ==
    ASSUME req \in [Requests -> Request], \A s \in Requests : RequestAgrees(req[s]),
           NEW r \in Requests, NEW q \in Request, RequestAgrees(q), Becomes(r, q)
    PROVE  /\ req' \in [Requests -> Request] /\ \A s \in Requests : RequestAgrees(req[s])'
           /\ Asked' = [Asked EXCEPT ![r] = View(q)]
<1>1. req' = [req EXCEPT ![r] = q]
  BY DEF Becomes
<1>2. req' \in [Requests -> Request]
  BY <1>1
<1>3. \A s \in Requests : RequestAgrees(req'[s])
  BY <1>1
<1>4. \A s \in Requests : RequestAgrees(req[s])' = RequestAgrees(req'[s])
  BY DEF RequestAgrees
<1>5. \A s \in Requests : RequestAgrees(req[s])'
  BY <1>3, <1>4
<1>6. Asked' = [s \in Requests |-> View(req'[s])]
  BY DEF Asked, View, Seen
<1>7. Asked' = [Asked EXCEPT ![r] = View(q)]
  BY <1>1, <1>6 DEF Asked
<1>8. QED
  BY <1>2, <1>5, <1>7

LEMMA AskedIs ==
    ASSUME NEW r \in Requests
    PROVE  /\ Asked[r].call = req[r].call /\ Asked[r].answer = req[r].answer
           /\ Asked[r].stage = IF req[r].step \in Reading THEN "seen" ELSE req[r].step
           /\ Asked[r].payload = Seen(req[r])
BY DEF Asked, View, Reading

LEMMA SeenIs ==
    ASSUME NEW q \in Request, RequestAgrees(q)
    PROVE  /\ q.step \in Reading => Seen(q) = PayloadOf(q.content)
           /\ q.step \notin Reading \cup {"done"} => Seen(q) = NoPayload
BY DEF Seen, Reading, RequestAgrees, AnswerNames

\* A request that is under way is answered.
LEMMA AnswerMoves ==
    ASSUME IInv, NEW r \in Requests, req[r].step \notin {"idle", "done"},
           NEW a \in AnswerNames \ {"", "fetched"}, Answers(r, a)
    PROVE  /\ req' \in [Requests -> Request] /\ \A s \in Requests : RequestAgrees(req[s])'
           /\ Lib!Answers(r, a)
<1>1. req \in [Requests -> Request] /\ \A s \in Requests : RequestAgrees(req[s])
  BY DEF IInv, TypeOK
<1>2. PICK q : q = req[r]
  OBVIOUS
<1>3. q \in Request /\ q.call \in Calls
  BY <1>1, <1>2 DEF RequestAgrees
<1>4. Becomes(r, Answered(q, a))
  BY <1>2 DEF Answers
<1>5. /\ Answered(q, a) \in Request /\ RequestAgrees(Answered(q, a))
      /\ View(Answered(q, a))
           = [call |-> q.call, stage |-> "done", payload |-> NoPayload, answer |-> a]
  BY <1>3, AnsweredFacts
<1>6. PICK w : w = Answered(q, a)
  OBVIOUS
<1>7. /\ req' \in [Requests -> Request] /\ \A s \in Requests : RequestAgrees(req[s])'
      /\ Asked' = [Asked EXCEPT ![r] = View(w)]
  BY <1>1, <1>4, <1>5, <1>6, RequestMoves
<1>8. Lib!Answers(r, a)
  BY <1>2, <1>5, <1>6, <1>7, AskedIs DEF Lib!Answers, Lib!Becomes
<1>9. QED
  BY <1>7, <1>8

\* The tables of the database stay as they are.
LEMMA DatabaseStays ==
    ASSUME IInv, UNCHANGED database, disk' = NoPayload \/ disk' \in Seq(Piece),
           req' \in [Requests -> Request], \A s \in Requests : RequestAgrees(req[s])'
    PROVE  IInv' /\ Entry' = Entry /\ categories' = categories
BY DEF IInv, TypeOK, TablesAgree, database, Entry, StoredPayload, Row

\* What clients see of the row.
LEMMA EntryIs ==
    ASSUME IInv
    PROVE  /\ Lib!Live <=> Live
           /\ Entry = NoRow <=> row = NoRow
           /\ row # NoRow =>
                /\ row \in Row /\ member[row.id] \in CategoryNames \cup {""}
                /\ Entry = [payload |-> PayloadOf(row.content), archived |-> row.archived,
                            category |-> member[row.id]]
<1>1. CASE row = NoRow
  BY <1>1 DEF Entry, Live, Lib!Live
<1>2. CASE row # NoRow
  <2>1. row \in Row /\ member[row.id] \in CategoryNames \cup {""}
    BY <1>2 DEF IInv, TypeOK, Row
  <2>2. StoredPayload = PayloadOf(row.content)
    BY <1>2, <2>1, PayloadType DEF IInv, TablesAgree, StoredPayload, Row, PayloadOf
  <2>3. Entry = [payload |-> PayloadOf(row.content), archived |-> row.archived,
                 category |-> member[row.id]]
    BY <1>2, <2>2 DEF Entry
  <2>4. PayloadOf(row.content) \in Seq(Piece) /\ row.archived \in BOOLEAN
    BY <2>1, PayloadType DEF Row
  <2>5. Entry # NoRow
    <3>1. Entry \in [payload : Seq(Piece), archived : BOOLEAN, category : CategoryNames \cup {""}]
      BY <2>1, <2>3, <2>4
    <3>2. QED
      BY <3>1, StoreAssumption
  <2>6. Entry.archived = row.archived
    BY <2>3
  <2>7. QED
    BY <1>2, <2>1, <2>3, <2>5, <2>6 DEF Live, Lib!Live
<1>3. QED
  BY <1>1, <1>2

(* The steps: each keeps the invariant and is a step of Library, or none. *)

Simulated == Lib!Next \/ UNCHANGED Lib!vars

LEMMA CallStep ==
    ASSUME IInv, NEW r \in Requests, Call(r)
    PROVE  IInv' /\ Simulated
<1>1. req[r].step = "idle" /\ UNCHANGED <<database, disk>>
  BY DEF Call
<1>2. req \in [Requests -> Request] /\ \A s \in Requests : RequestAgrees(req[s])
  BY DEF IInv, TypeOK
<1>3. PICK c \in Calls : Becomes(r, [req[r] EXCEPT !.call = c, !.step = "called"])
  BY DEF Call
<1>4. PICK q : q = [req[r] EXCEPT !.call = c, !.step = "called"]
  OBVIOUS
<1>5. q \in Request /\ RequestAgrees(q)
  BY <1>1, <1>2, <1>4 DEF Request, RequestAgrees, Reading
<1>6. q.call = c /\ q.step = "called" /\ q.answer = ""
  BY <1>1, <1>2, <1>4 DEF Request, RequestAgrees
<1>7. View(q) = [call |-> c, stage |-> "called", payload |-> NoPayload, answer |-> ""]
  BY <1>5, <1>6, SeenIs DEF View, Reading
<1>8. /\ req' \in [Requests -> Request] /\ \A s \in Requests : RequestAgrees(req[s])'
      /\ Asked' = [Asked EXCEPT ![r] = View(q)]
  BY <1>2, <1>3, <1>4, <1>5, RequestMoves
<1>9. IInv' /\ UNCHANGED <<Entry, categories, disk>>
  BY <1>1, <1>8, DatabaseStays DEF IInv, TypeOK
<1>10. Lib!Call(r)
  BY <1>1, <1>7, <1>8, <1>9, AskedIs DEF Lib!Call, Reading
<1>11. QED
  BY <1>9, <1>10 DEF Simulated, Lib!Next

\* A request under way may always be reported as failed.
LEMMA FailStep ==
    ASSUME IInv, NEW r \in Requests, req[r].step \notin {"idle", "done"},
           Answers(r, "failed"), UNCHANGED <<database, disk>>
    PROVE  IInv' /\ Simulated
<1>1. /\ req' \in [Requests -> Request] /\ \A s \in Requests : RequestAgrees(req[s])'
      /\ Lib!Answers(r, "failed")
  BY AnswerMoves DEF AnswerNames
<1>2. IInv' /\ UNCHANGED <<Entry, categories, disk>>
  BY <1>1, DatabaseStays DEF IInv, TypeOK
<1>3. Asked[r].stage \notin {"idle", "done"}
  BY AskedIs
<1>4. Lib!Fail(r)
  BY <1>1, <1>2, <1>3 DEF Lib!Fail
<1>5. QED
  BY <1>2, <1>4 DEF Simulated, Lib!Next

\* The step of a request that no client sees.
LEMMA HiddenStep ==
    ASSUME IInv, NEW r \in Requests, NEW q \in Request, RequestAgrees(q), Becomes(r, q),
           View(q) = View(req[r]), UNCHANGED <<database, disk>>
    PROVE  IInv' /\ Simulated
<1>1. req \in [Requests -> Request] /\ \A s \in Requests : RequestAgrees(req[s])
  BY DEF IInv, TypeOK
<1>2. /\ req' \in [Requests -> Request] /\ \A s \in Requests : RequestAgrees(req[s])'
      /\ Asked' = [Asked EXCEPT ![r] = View(q)]
  BY <1>1, RequestMoves
<1>3. IInv' /\ UNCHANGED <<Entry, categories, disk>>
  BY <1>2, DatabaseStays DEF IInv, TypeOK
<1>4. Asked' = Asked
  BY <1>2 DEF Asked
<1>5. QED
  BY <1>3, <1>4 DEF Simulated, Lib!vars

\* An answer that changes nothing in the database and is one of Library.
LEMMA AnswerStep ==
    ASSUME IInv, NEW r \in Requests, req[r].step \notin {"idle", "done"},
           NEW a \in AnswerNames \ {"", "fetched"}, Answers(r, a), UNCHANGED <<database, disk>>
    PROVE  /\ IInv' /\ Lib!Answers(r, a) /\ UNCHANGED <<Entry, categories, disk>>
<1>1. /\ req' \in [Requests -> Request] /\ \A s \in Requests : RequestAgrees(req[s])'
      /\ Lib!Answers(r, a)
  BY AnswerMoves
<1>2. IInv' /\ UNCHANGED <<Entry, categories, disk>>
  BY <1>1, DatabaseStays DEF IInv, TypeOK
<1>3. QED
  BY <1>1, <1>2

LEMMA MissingStep ==
    ASSUME IInv, NEW r \in Requests, Answers(r, "missing"), UNCHANGED <<database, disk>>,
           \/ Removing(r) /\ row = NoRow
           \/ req[r].step = "called" /\ req[r].call.op # "remove" /\ ~Live
    PROVE  IInv' /\ Simulated
<1>1. req[r].step \notin {"idle", "done"}
  BY DEF Removing, At
<1>2. IInv' /\ Lib!Answers(r, "missing") /\ UNCHANGED <<Entry, categories, disk>>
  BY <1>1, AnswerStep DEF AnswerNames
<1>3. Lib!Missing(r)
  BY <1>2, AskedIs, EntryIs DEF Lib!Missing, Lib!Removing, Lib!At, Removing, At, Reading
<1>4. QED
  BY <1>2, <1>3 DEF Simulated, Lib!Next

----------------------------------------------------------------------------
(* Saving. *)

\* The next attempt of a save, or its failure.
LEMMA RetriedFacts ==
    ASSUME NEW q \in Request, RequestAgrees(q), q.step = "called", q.call.op = "save"
    PROVE  /\ Retried(q) \in Request /\ RequestAgrees(Retried(q))
           /\ \/ View(Retried(q)) = View(q)
              \/ Retried(q) = Answered(q, "failed")
<1>1. q.call \in Calls /\ RetryAttempts \in Nat
  BY StoreAssumption DEF RequestAgrees
<1>2. CASE q.attempt < RetryAttempts
  <2>1. PICK w : w = [q EXCEPT !.attempt = q.attempt + 1]
    OBVIOUS
  <2>2. w \in Request
    BY <1>1, <1>2, <2>1 DEF Request
  <2>3. RequestAgrees(w) /\ View(w) = View(q)
    BY <2>1 DEF Request, RequestAgrees, Reading, View, Seen
  <2>4. QED
    BY <1>2, <2>1, <2>2, <2>3 DEF Retried
<1>3. CASE ~(q.attempt < RetryAttempts)
  BY <1>1, <1>3, AnsweredFacts DEF Retried, AnswerNames
<1>4. QED
  BY <1>2, <1>3

LEMMA SaveBreaksStep ==
    ASSUME IInv, NEW r \in Requests, SaveBreaks(r)
    PROVE  IInv' /\ Simulated
<1>1. /\ req[r].step = "called" /\ req[r].call.op = "save"
      /\ Becomes(r, Retried(req[r])) /\ UNCHANGED <<database, disk>>
  BY DEF SaveBreaks, At
<1>2. req[r] \in Request /\ RequestAgrees(req[r])
  BY DEF IInv, TypeOK
<1>3. PICK q : q = Retried(req[r])
  OBVIOUS
<1>4. q \in Request /\ RequestAgrees(q)
      /\ (View(q) = View(req[r]) \/ q = Answered(req[r], "failed"))
  BY <1>1, <1>2, <1>3, RetriedFacts
<1>5. CASE View(q) = View(req[r])
  BY <1>1, <1>3, <1>4, <1>5, HiddenStep
<1>6. CASE q = Answered(req[r], "failed")
  BY <1>1, <1>3, <1>6, FailStep DEF Answers
<1>7. QED
  BY <1>4, <1>5, <1>6

LEMMA SaveDuplicateStep ==
    ASSUME IInv, NEW r \in Requests, SaveDuplicate(r)
    PROVE  IInv' /\ Simulated
<1>1. /\ req[r].step = "called" /\ req[r].call.op = "save"
      /\ ~req[r].call.overwrite /\ row # NoRow /\ UNCHANGED <<database, disk>>
  BY DEF SaveDuplicate, At
<1>2. Lib!At(r, "save", "called") /\ ~Asked[r].call.overwrite /\ Entry # NoRow
  BY <1>1, AskedIs, EntryIs DEF Lib!At, Reading
<1>3. CASE Answers(r, "exists")
  <2>1. IInv' /\ Lib!Answers(r, "exists") /\ UNCHANGED <<Entry, categories, disk>>
    BY <1>1, <1>3, AnswerStep DEF AnswerNames
  <2>2. Lib!Meet(r)
    BY <1>2, <2>1 DEF Lib!Meet
  <2>3. QED
    BY <2>1, <2>2 DEF Simulated, Lib!Next
<1>4. CASE Becomes(r, [req[r] EXCEPT !.step = "blocked"])
  <2>1. req \in [Requests -> Request] /\ \A s \in Requests : RequestAgrees(req[s])
    BY DEF IInv, TypeOK
  <2>2. PICK q : q = [req[r] EXCEPT !.step = "blocked"]
    OBVIOUS
  <2>3. q \in Request /\ RequestAgrees(q)
    BY <1>1, <2>1, <2>2 DEF Request, RequestAgrees, Reading
  <2>4. q.call = req[r].call /\ q.step = "blocked" /\ q.answer = ""
    BY <2>1, <2>2, <2>3 DEF Request, RequestAgrees
  <2>5. View(q) = [call |-> req[r].call, stage |-> "blocked", payload |-> NoPayload, answer |-> ""]
    BY <2>3, <2>4, SeenIs DEF View, Reading
  <2>6. /\ req' \in [Requests -> Request] /\ \A s \in Requests : RequestAgrees(req[s])'
        /\ Asked' = [Asked EXCEPT ![r] = View(q)]
    BY <1>4, <2>1, <2>2, <2>3, RequestMoves
  <2>7. IInv' /\ UNCHANGED <<Entry, categories, disk>>
    BY <1>1, <2>6, DatabaseStays DEF IInv, TypeOK
  <2>8. Lib!Becomes(r, "blocked", NoPayload, "")
    BY <2>5, <2>6, AskedIs DEF Lib!Becomes
  <2>9. Lib!Meet(r)
    BY <1>2, <2>7, <2>8 DEF Lib!Meet
  <2>10. QED
    BY <2>7, <2>9 DEF Simulated, Lib!Next
<1>5. QED
  BY <1>3, <1>4 DEF SaveDuplicate

LEMMA SaveReceiptStep ==
    ASSUME IInv, NEW r \in Requests, SaveReceipt(r) \/ ReceiptFails(r)
    PROVE  IInv' /\ Simulated
<1>1. /\ req[r].step = "blocked" /\ req[r].call.op = "save" /\ UNCHANGED <<database, disk>>
      /\ \/ ReceiptMatches(req[r]) /\ Answers(r, "saved")
         \/ Answers(r, "exists")
  BY DEF SaveReceipt, ReceiptFails, At
<1>2. Lib!At(r, "save", "blocked")
  BY <1>1, AskedIs DEF Lib!At, Reading
<1>3. PICK a \in {"saved", "exists"} : Answers(r, a) /\ (a = "saved" => ReceiptMatches(req[r]))
  BY <1>1
<1>4. IInv' /\ Lib!Answers(r, a) /\ UNCHANGED <<Entry, categories, disk>>
  BY <1>1, <1>3, AnswerStep DEF AnswerNames
<1>5. ASSUME ReceiptMatches(req[r])
      PROVE  Lib!Live /\ Entry.payload = PayloadOf(Asked[r].call.content)
                      /\ Asked[r].call.content \in Contents
  <2>1. Live /\ row.content = req[r].call.content
    BY <1>5 DEF ReceiptMatches
  <2>2. row # NoRow
    BY <2>1 DEF Live
  <2>3. /\ row \in Row
        /\ Entry = [payload |-> PayloadOf(row.content), archived |-> row.archived,
                    category |-> member[row.id]]
    BY <2>2, EntryIs
  <2>4. Entry.payload = PayloadOf(row.content) /\ row.content \in Contents
    BY <2>3 DEF Row
  <2>5. Asked[r].call = req[r].call
    BY AskedIs
  <2>6. QED
    BY <2>1, <2>4, <2>5, EntryIs
<1>6. Lib!Recognise(r)
  <2>1. CASE a = "exists"
    BY <1>2, <1>4, <2>1 DEF Lib!Recognise
  <2>2. CASE a = "saved"
    BY <1>2, <1>3, <1>4, <1>5, <2>2 DEF Lib!Recognise
  <2>3. QED
    BY <2>1, <2>2
<1>7. QED
  BY <1>4, <1>6 DEF Simulated, Lib!Next

\* The transaction of a save, whatever its client hears of it.
LEMMA StoredFacts ==
    ASSUME IInv, NEW c \in Calls, c.op = "save", (row = NoRow => nextId <= MaxId), Stored(c),
           UNCHANGED <<categories, disk>>
    PROVE  /\ row' \in Row /\ TablesAgree'
           /\ pieces' \in [Ids -> Seq(Piece)] /\ member' \in [Ids -> CategoryNames \cup {""}]
           /\ nextId' \in 1 .. (MaxId + 1)
           /\ Entry' = [payload |-> PayloadOf(c.content), archived |-> FALSE,
                        category |-> Lib!Category(c)]
<1>1. /\ TypeOK /\ TablesAgree /\ MaxId \in Nat \ {0}
      /\ c.content \in Contents /\ c.category \in CategoryNames
  BY StoreAssumption DEF IInv, CategoryNames
<1>2. PICK i : i = RowId
  OBVIOUS
<1>3. nextId \in 1 .. (MaxId + 1) /\ MaxId \in Int
  <2>1. nextId \in 1 .. (MaxId + 1)
    BY <1>1 DEF TypeOK
  <2>2. MaxId \in Int
    BY <1>1
  <2>3. QED
    BY <2>1, <2>2
<1>4. row = NoRow => nextId \in Ids
  BY <1>3 DEF Ids
<1>5. i \in Ids /\ i = IF row = NoRow THEN nextId ELSE row.id
  <2>1. CASE row = NoRow
    BY <1>2, <1>4, <2>1 DEF RowId
  <2>2. CASE row # NoRow
    BY <1>1, <1>2, <2>2 DEF RowId, TypeOK, Row
  <2>3. QED
    BY <2>1, <2>2
<1>6. /\ row' = [id |-> i, content |-> c.content, archived |-> FALSE]
      /\ pieces' = [pieces EXCEPT ![i] = PiecesOf(c.content)]
      /\ member' = IF c.category = "keep" THEN member ELSE [member EXCEPT ![i] = c.category]
      /\ nextId' = IF row = NoRow THEN nextId + 1 ELSE nextId
  BY <1>2 DEF Stored, MemberAfter
<1>7. row' \in Row /\ row' # NoRow /\ row'.id = i /\ row'.content = c.content /\ ~row'.archived
  <2>1. row' \in Row
    BY <1>1, <1>5, <1>6 DEF Row
  <2>2. QED
    BY <1>6, <2>1, StoreAssumption
<1>8. PiecesOf(c.content) \in Seq(Piece)
  BY <1>1, PayloadType
<1>9. /\ pieces' \in [Ids -> Seq(Piece)] /\ member' \in [Ids -> CategoryNames \cup {""}]
      /\ nextId' \in 1 .. (MaxId + 1)
  <2>1. pieces' \in [Ids -> Seq(Piece)]
    BY <1>1, <1>5, <1>6, <1>8 DEF TypeOK
  <2>2. member' \in [Ids -> CategoryNames \cup {""}]
    BY <1>1, <1>5, <1>6 DEF TypeOK
  <2>3. nextId' \in 1 .. (MaxId + 1)
    BY <1>6, <1>3 DEF Ids
  <2>4. QED
    BY <2>1, <2>2, <2>3
<1>10. i < nextId'
  <2>1. CASE row = NoRow
    BY <1>5, <1>6, <1>3, <2>1
  <2>2. CASE row # NoRow
    BY <1>1, <1>5, <1>6, <2>2 DEF TablesAgree
  <2>3. QED
    BY <2>1, <2>2
<1>11. \A j \in Ids \ {i} : pieces'[j] = <<>> /\ member'[j] = ""
  BY <1>1, <1>5, <1>6 DEF TypeOK, TablesAgree, Row, Ids
<1>12. pieces'[i] = PiecesOf(c.content)
  BY <1>1, <1>5, <1>6 DEF TypeOK
<1>13. TablesAgree'
  BY <1>7, <1>10, <1>11, <1>12 DEF TablesAgree, PiecesOf
<1>14. member'[i] = Lib!Category(c)
  <2>1. CASE row = NoRow
    <3>1. member[i] = "" /\ Entry = NoRow
      BY <1>1, <1>5, <2>1, EntryIs DEF TablesAgree
    <3>2. QED
      BY <1>1, <1>5, <1>6, <3>1 DEF Lib!Category, TypeOK
  <2>2. CASE row # NoRow
    <3>1. Entry # NoRow /\ Entry.category = member[i] /\ i = row.id
      <4>1. /\ Entry = [payload |-> PayloadOf(row.content), archived |-> row.archived,
                        category |-> member[row.id]]
            /\ Entry # NoRow
        BY <2>2, EntryIs
      <4>2. Entry.category = member[row.id]
        BY <4>1
      <4>3. QED
        BY <1>5, <2>2, <4>1, <4>2
    <3>2. QED
      BY <1>1, <1>5, <1>6, <3>1 DEF Lib!Category, TypeOK
  <2>3. QED
    BY <2>1, <2>2
<1>15. StoredPayload' = PayloadOf(c.content)
  BY <1>1, <1>7, <1>12, PayloadType DEF StoredPayload, PayloadOf, PiecesOf
<1>16. Entry' = [payload |-> PayloadOf(c.content), archived |-> FALSE, category |-> Lib!Category(c)]
  BY <1>7, <1>14, <1>15, <1>6 DEF Entry
<1>17. QED
  BY <1>7, <1>9, <1>13, <1>16

LEMMA SaveCommitsStep ==
    ASSUME IInv, NEW r \in Requests, SaveCommits(r)
    PROVE  IInv' /\ Simulated
<1>1. req \in [Requests -> Request] /\ \A s \in Requests : RequestAgrees(req[s])
  BY DEF IInv, TypeOK
<1>2. PICK c \in Calls : c = req[r].call
  BY <1>1 DEF SaveCommits, At, RequestAgrees
<1>3. /\ req[r].step = "called" /\ c.op = "save"
      /\ (row = NoRow => nextId <= MaxId)
      /\ (row = NoRow \/ c.overwrite) /\ CategoryExists(c) /\ Stored(c)
      /\ UNCHANGED <<categories, disk>>
  BY <1>2 DEF SaveCommits, At
<1>4. /\ row' \in Row /\ TablesAgree'
      /\ pieces' \in [Ids -> Seq(Piece)] /\ member' \in [Ids -> CategoryNames \cup {""}]
      /\ nextId' \in 1 .. (MaxId + 1)
      /\ Entry' = [payload |-> PayloadOf(c.content), archived |-> FALSE,
                   category |-> Lib!Category(c)]
  BY <1>3, StoredFacts
<1>5. PICK w \in {Answered(req[r], "saved"), Retried(req[r])}, n \in {0, 1} :
        Becomes(r, [w EXCEPT !.changes = @ + n])
  BY DEF SaveCommits
<1>6. /\ w \in Request /\ RequestAgrees(w)
      /\ \/ View(w) = View(req[r])
         \/ \E a \in {"saved", "failed"} :
              View(w) = [call |-> c, stage |-> "done", payload |-> NoPayload, answer |-> a]
  <2>1. req[r] \in Request /\ RequestAgrees(req[r]) /\ req[r].call = c
    BY <1>1, <1>2
  <2>2. CASE w = Answered(req[r], "saved")
    BY <2>1, <2>2, AnsweredFacts DEF AnswerNames
  <2>3. CASE w = Retried(req[r])
    <3>1. /\ w \in Request /\ RequestAgrees(w)
          /\ (View(w) = View(req[r]) \/ w = Answered(req[r], "failed"))
      BY <1>2, <1>3, <2>1, <2>3, RetriedFacts
    <3>2. w = Answered(req[r], "failed") =>
            View(w) = [call |-> c, stage |-> "done", payload |-> NoPayload, answer |-> "failed"]
      BY <2>1, AnsweredFacts DEF AnswerNames
    <3>3. QED
      BY <3>1, <3>2
  <2>4. QED
    BY <1>5, <2>2, <2>3
<1>7. PICK q : q = [w EXCEPT !.changes = @ + n]
  OBVIOUS
<1>8. q \in Request
  BY <1>6, <1>7 DEF Request
<1>9. RequestAgrees(q) /\ View(q) = View(w)
  BY <1>6, <1>7 DEF Request, RequestAgrees, Reading, View, Seen
<1>10. /\ req' \in [Requests -> Request] /\ \A s \in Requests : RequestAgrees(req[s])'
       /\ Asked' = [Asked EXCEPT ![r] = View(w)]
  BY <1>1, <1>5, <1>7, <1>8, <1>9, RequestMoves
<1>11. IInv'
  BY <1>3, <1>4, <1>10 DEF IInv, TypeOK
<1>12. UNCHANGED Asked \/ Lib!Reports(r, "saved")
  <2>1. CASE View(w) = View(req[r])
    BY <1>10, <2>1 DEF Asked
  <2>2. ASSUME NEW a \in {"saved", "failed"},
               View(w) = [call |-> c, stage |-> "done", payload |-> NoPayload, answer |-> a]
        PROVE  Lib!Reports(r, "saved")
    <3>1. Asked[r].call = c
      BY <1>2, AskedIs
    <3>2. Lib!Answers(r, a)
      BY <1>10, <2>2, <3>1 DEF Lib!Answers, Lib!Becomes
    <3>3. QED
      BY <3>2 DEF Lib!Reports
  <2>3. QED
    BY <1>6, <2>1, <2>2
<1>13. Lib!Save(r)
  <2>1. Lib!At(r, "save", "called") /\ Asked[r].call = c
    BY <1>2, <1>3, AskedIs DEF Lib!At, Reading
  <2>2. Entry = NoRow \/ c.overwrite
    BY <1>3, EntryIs
  <2>3. Lib!Allowed(c)
    BY <1>3 DEF Lib!Allowed, CategoryExists
  <2>4. [d \in Contents |-> PayloadOf(d)][c.content] = PayloadOf(c.content)
    BY <1>3, StoreAssumption
  <2>5. QED
    BY <1>3, <1>4, <1>12, <2>1, <2>2, <2>3, <2>4 DEF Lib!Save
<1>14. QED
  BY <1>11, <1>13 DEF Simulated, Lib!Next

----------------------------------------------------------------------------
(* Reading. *)

LEMMA ReadRowStep ==
    ASSUME IInv, NEW r \in Requests, ReadRow(r)
    PROVE  IInv' /\ Simulated
<1>1. req[r].step = "called" /\ Reads(r) /\ UNCHANGED <<database, disk>>
  BY DEF ReadRow
<1>2. CASE ~Live
  BY <1>1, <1>2, MissingStep DEF ReadRow, Reads
<1>3. CASE Live
  <2>1. req \in [Requests -> Request] /\ \A s \in Requests : RequestAgrees(req[s])
    BY DEF IInv, TypeOK
  <2>2. /\ row \in Row
        /\ Entry = [payload |-> PayloadOf(row.content), archived |-> row.archived,
                    category |-> member[row.id]]
    BY <1>3, EntryIs DEF Live
  <2>3. PICK q : q = [req[r] EXCEPT !.id = row.id, !.content = row.content, !.step = "counting"]
    OBVIOUS
  <2>4. Becomes(r, q)
    BY <1>3, <2>3 DEF ReadRow
  <2>5. /\ q \in Request /\ q.call = req[r].call /\ q.step = "counting"
        /\ q.answer = req[r].answer /\ q.content = row.content /\ q.id = row.id
    <3>1. PICK before : before = req[r] /\ before \in Request
      BY <2>1
    <3>2. q = [before EXCEPT !.id = row.id, !.content = row.content, !.step = "counting"]
      BY <2>3, <3>1
    <3>3. PICK i, c : i = row.id /\ c = row.content
      OBVIOUS
    <3>4. q = [before EXCEPT !.id = i, !.content = c, !.step = "counting"]
      BY <3>2, <3>3
    <3>5. /\ q.call = before.call /\ q.step = "counting" /\ q.answer = before.answer
          /\ q.content = c /\ q.id = i
      BY <3>1, <3>4 DEF Request
    <3>6. q \in Request
      BY <2>2, <3>1, <3>3, <3>4 DEF Request, Row
    <3>7. QED
      BY <3>1, <3>3, <3>5, <3>6
  <2>6. q.answer = "" /\ RequestAgrees(q)
    BY <1>1, <2>1, <2>2, <2>5 DEF RequestAgrees, Reading, Reads, Row
  <2>7. View(q) = [call |-> req[r].call, stage |-> "seen", payload |-> PayloadOf(row.content),
                   answer |-> ""]
    BY <2>5, <2>6, SeenIs DEF View, Reading
  <2>8. /\ req' \in [Requests -> Request] /\ \A s \in Requests : RequestAgrees(req[s])'
        /\ Asked' = [Asked EXCEPT ![r] = View(q)]
    BY <2>1, <2>4, <2>5, <2>6, RequestMoves
  <2>9. IInv' /\ UNCHANGED <<Entry, categories, disk>>
    BY <1>1, <2>8, DatabaseStays DEF IInv, TypeOK
  <2>10. Entry.payload = PayloadOf(row.content)
    BY <2>2
  <2>11. Lib!Becomes(r, "seen", Entry.payload, "")
    BY <2>7, <2>8, <2>10, AskedIs DEF Lib!Becomes
  <2>12. Asked[r].stage = "called" /\ Lib!Reads(Asked[r].call) /\ Lib!Live
    BY <1>1, <1>3, AskedIs, EntryIs DEF Reading, Reads, Lib!Reads
  <2>13. Lib!See(r)
    BY <2>9, <2>11, <2>12 DEF Lib!See
  <2>14. QED
    BY <2>9, <2>13 DEF Simulated, Lib!Next
<1>4. QED
  BY <1>2, <1>3

\* A payload that was checked against the row is delivered to the client or the disk store.
LEMMA DeliveredStep ==
    ASSUME IInv, NEW r \in Requests, req[r].step \in {"counting", "reading"},
           NEW got, got = PayloadOf(req[r].content), Becomes(r, Delivered(req[r], got)),
           UNCHANGED <<database, disk>>
    PROVE  IInv' /\ Simulated
<1>1. req \in [Requests -> Request] /\ \A s \in Requests : RequestAgrees(req[s])
  BY DEF IInv, TypeOK
<1>2. PICK o : o = req[r]
  OBVIOUS
<1>3. /\ o \in Request /\ RequestAgrees(o) /\ o.content \in Contents /\ o.call \in Calls
      /\ o.answer = "" /\ o.call.op \in {"fetch", "export", "backupRemove"}
      /\ got \in Seq(Piece)
  BY <1>1, <1>2, PayloadType DEF RequestAgrees, Reading
<1>4. CASE o.call.op = "fetch"
  <2>1. PICK q : q = [o EXCEPT !.got = got, !.step = "done", !.answer = "fetched"]
    OBVIOUS
  <2>2. Becomes(r, q)
    BY <1>2, <1>4, <2>1 DEF Delivered, Answered
  <2>3. /\ q \in Request /\ q.call = o.call /\ q.step = "done" /\ q.answer = "fetched"
        /\ q.got = got
    BY <1>3, <2>1 DEF Request, AnswerNames
  <2>4. RequestAgrees(q)
    BY <1>3, <2>3 DEF RequestAgrees, Reading
  <2>5. View(q) = [call |-> o.call, stage |-> "done", payload |-> got, answer |-> "fetched"]
    BY <2>3 DEF View, Seen
  <2>6. /\ req' \in [Requests -> Request] /\ \A s \in Requests : RequestAgrees(req[s])'
        /\ Asked' = [Asked EXCEPT ![r] = View(q)]
    BY <1>1, <2>2, <2>3, <2>4, RequestMoves
  <2>7. IInv' /\ UNCHANGED <<Entry, categories, disk>>
    BY <2>6, DatabaseStays DEF IInv, TypeOK
  <2>8. Asked[r].call = o.call /\ Asked[r].stage = "seen" /\ Asked[r].payload = got
    BY <1>2, <1>3, AskedIs, SeenIs DEF Reading
  <2>9. Lib!Becomes(r, "done", Asked[r].payload, "fetched")
    BY <2>5, <2>6, <2>8 DEF Lib!Becomes
  <2>10. Lib!Fetched(r)
    BY <1>4, <2>7, <2>8, <2>9 DEF Lib!Fetched, Lib!At
  <2>11. QED
    BY <2>7, <2>10 DEF Simulated, Lib!Next
<1>5. CASE o.call.op # "fetch"
  <2>1. PICK q : q = [o EXCEPT !.got = got, !.step = "verified"]
    OBVIOUS
  <2>2. Becomes(r, q)
    BY <1>2, <1>5, <2>1 DEF Delivered
  <2>3. /\ q \in Request /\ q.call = o.call /\ q.step = "verified" /\ q.answer = ""
        /\ q.got = got /\ q.content = o.content /\ q.id = o.id
    BY <1>3, <2>1 DEF Request
  <2>4. RequestAgrees(q)
    BY <1>2, <1>3, <1>5, <2>3 DEF RequestAgrees, Reading
  <2>5. View(q) = View(o)
    BY <1>2, <1>3, <2>3, <2>4, SeenIs DEF View, Reading
  <2>6. QED
    BY <1>2, <2>2, <2>3, <2>4, <2>5, HiddenStep
<1>6. QED
  BY <1>4, <1>5

\* The statements of a read: the whole payload at once, the count, a piece, the check.
LEMMA ReadStep ==
    ASSUME IInv, NEW r \in Requests,
           ReadInline(r) \/ CountPieces(r) \/ ReadPiece(r) \/ Verify(r) \/ FetchWhole(r)
    PROVE  IInv' /\ Simulated
<1>1. /\ req[r].step \in {"counting", "reading"} /\ UNCHANGED <<database, disk>>
  BY DEF ReadInline, CountPieces, ReadPiece, Verify, FetchWhole
<1>2. req[r] \in Request /\ RequestAgrees(req[r]) /\ pieces \in [Ids -> Seq(Piece)]
  BY DEF IInv, TypeOK
<1>3. req[r].id \in Ids
  BY <1>1, <1>2 DEF RequestAgrees, Reading
<1>4. CASE Answers(r, "failed")
  BY <1>1, <1>4, FailStep
<1>5. CASE ReadInline(r)
  BY <1>1, <1>5, DeliveredStep DEF ReadInline
<1>6. CASE Verify(r)
  BY <1>1, <1>4, <1>6, DeliveredStep DEF Verify, ChecksumMatches
<1>7. CASE FetchWhole(r)
  BY <1>1, <1>4, <1>7, DeliveredStep DEF FetchWhole, ChecksumMatches
<1>8. CASE CountPieces(r)
  <2>1. PICK q : q = [req[r] EXCEPT !.expected = Len(pieces[req[r].id]), !.step = "reading"]
    OBVIOUS
  <2>2. Len(pieces[req[r].id]) \in Nat
    BY <1>3, <1>2, LenProperties
  <2>3. /\ q \in Request /\ q.call = req[r].call /\ q.step = "reading"
        /\ q.answer = req[r].answer /\ q.content = req[r].content /\ q.id = req[r].id
    BY <1>2, <2>1, <2>2 DEF Request
  <2>4. RequestAgrees(q)
    BY <1>1, <1>2, <2>3 DEF RequestAgrees, Reading
  <2>5. View(q) = View(req[r])
    BY <1>1, <1>2, <2>3, <2>4, SeenIs DEF View, Reading
  <2>6. QED
    BY <1>1, <1>8, <2>1, <2>3, <2>4, <2>5, HiddenStep DEF CountPieces
<1>9. CASE ReadPiece(r)
  <2>1. PICK k : k = Len(req[r].got) + 1
    OBVIOUS
  <2>2. CASE k \in DOMAIN pieces[req[r].id]
    <3>1. PICK p : p = pieces[req[r].id][k]
      OBVIOUS
    <3>2. p \in Piece
      BY <1>3, <1>2, <2>2, <3>1, LenProperties, ElementOfSeq
    <3>3. PICK q : q = [req[r] EXCEPT !.got = Append(@, p)]
      OBVIOUS
    <3>4. /\ q \in Request /\ q.call = req[r].call /\ q.step = req[r].step
          /\ q.answer = req[r].answer /\ q.content = req[r].content /\ q.id = req[r].id
      <4>1. Append(req[r].got, p) \in Seq(Piece)
        BY <1>2, <3>2 DEF Request
      <4>2. QED
        BY <1>2, <3>3, <4>1 DEF Request
    <3>5. req[r].step = "reading"
      BY <1>9 DEF ReadPiece
    <3>6. RequestAgrees(q)
      BY <1>2, <3>4, <3>5 DEF RequestAgrees, Reading
    <3>7. View(q) = View(req[r])
      BY <1>2, <3>4, <3>5, <3>6, SeenIs DEF View, Reading
    <3>8. Becomes(r, q)
      BY <1>9, <2>1, <2>2, <3>1, <3>3 DEF ReadPiece
    <3>9. QED
      BY <1>1, <3>4, <3>6, <3>7, <3>8, HiddenStep
  <2>3. CASE k \notin DOMAIN pieces[req[r].id]
    BY <1>4, <1>9, <2>1, <2>3 DEF ReadPiece
  <2>4. QED
    BY <2>2, <2>3
<1>10. QED
  BY <1>5, <1>6, <1>7, <1>8, <1>9

----------------------------------------------------------------------------
(* The other operations. *)

LEMMA SaveToDiskStep ==
    ASSUME IInv, NEW r \in Requests, SaveToDisk(r)
    PROVE  IInv' /\ Simulated
<1>1. /\ req[r].step = "verified" /\ disk' = req[r].got /\ UNCHANGED database
  BY DEF SaveToDisk
<1>2. req \in [Requests -> Request] /\ \A s \in Requests : RequestAgrees(req[s])
  BY DEF IInv, TypeOK
<1>3. PICK o : o = req[r]
  OBVIOUS
<1>4. /\ o \in Request /\ RequestAgrees(o) /\ o.got = PayloadOf(o.content) /\ o.answer = ""
      /\ o.call.op \in {"export", "backupRemove"} /\ o.got \in Seq(Piece)
  BY <1>1, <1>2, <1>3 DEF Request, RequestAgrees, Reading
<1>5. /\ Asked[r].call = o.call /\ Asked[r].stage = "seen" /\ Asked[r].payload = o.got
  BY <1>1, <1>3, <1>4, AskedIs, SeenIs DEF Reading
<1>6. disk' = Asked[r].payload
  BY <1>1, <1>3, <1>5
<1>7. CASE o.call.op = "backupRemove"
  <2>1. PICK q : q = [o EXCEPT !.step = "stored"]
    OBVIOUS
  <2>2. Becomes(r, q)
    BY <1>3, <1>7, <2>1 DEF SaveToDisk
  <2>3. q \in Request /\ q.call = o.call /\ q.step = "stored" /\ q.answer = ""
    BY <1>4, <2>1 DEF Request
  <2>4. RequestAgrees(q)
    BY <1>1, <1>3, <1>4, <1>7, <2>3 DEF RequestAgrees, Reading
  <2>5. View(q) = [call |-> o.call, stage |-> "stored", payload |-> NoPayload, answer |-> ""]
    BY <2>3, <2>4, SeenIs DEF View, Reading
  <2>6. /\ req' \in [Requests -> Request] /\ \A s \in Requests : RequestAgrees(req[s])'
        /\ Asked' = [Asked EXCEPT ![r] = View(q)]
    BY <1>2, <2>2, <2>3, <2>4, RequestMoves
  <2>7. IInv' /\ UNCHANGED <<Entry, categories>>
    BY <1>1, <1>3, <1>4, <2>6, DatabaseStays
  <2>8. Lib!Becomes(r, "stored", NoPayload, "")
    BY <1>5, <2>5, <2>6 DEF Lib!Becomes
  <2>9. Lib!Store(r)
    BY <1>5, <1>6, <1>7, <2>7, <2>8 DEF Lib!Store, Lib!At
  <2>10. QED
    BY <2>7, <2>9 DEF Simulated, Lib!Next
<1>8. CASE o.call.op = "export"
  <2>1. Answers(r, "exported")
    BY <1>3, <1>8 DEF SaveToDisk
  <2>2. /\ req' \in [Requests -> Request] /\ \A s \in Requests : RequestAgrees(req[s])'
        /\ Lib!Answers(r, "exported")
    BY <1>1, <2>1, AnswerMoves DEF AnswerNames
  <2>3. IInv' /\ UNCHANGED <<Entry, categories>>
    BY <1>1, <1>3, <1>4, <2>2, DatabaseStays
  <2>4. Lib!Store(r)
    BY <1>5, <1>6, <1>8, <2>2, <2>3 DEF Lib!Store, Lib!At
  <2>5. QED
    BY <2>3, <2>4 DEF Simulated, Lib!Next
<1>9. QED
  BY <1>4, <1>7, <1>8

\* A statement that was carried out and reported, or whose answer was lost.
LEMMA ReportMoves ==
    ASSUME IInv, NEW r \in Requests, req[r].step \notin {"idle", "done"},
           NEW a \in AnswerNames \ {"", "fetched"}, Reports(r, a)
    PROVE  /\ req' \in [Requests -> Request] /\ \A s \in Requests : RequestAgrees(req[s])'
           /\ Lib!Reports(r, a)
<1>1. CASE Answers(r, a)
  BY <1>1, AnswerMoves DEF Lib!Reports
<1>2. CASE Answers(r, "failed")
  BY <1>2, AnswerMoves DEF Lib!Reports, AnswerNames
<1>3. QED
  BY <1>1, <1>2 DEF Reports

LEMMA HardDeleteStep ==
    ASSUME IInv, NEW r \in Requests, HardDelete(r)
    PROVE  IInv' /\ Simulated
<1>1. /\ Removing(r) /\ row # NoRow /\ row' = NoRow
      /\ pieces' = [pieces EXCEPT ![row.id] = <<>>]
      /\ member' = [member EXCEPT ![row.id] = ""]
      /\ Reports(r, "removed") /\ UNCHANGED <<categories, nextId, disk>>
  BY DEF HardDelete
<1>2. req[r].step \notin {"idle", "done"}
  BY <1>1 DEF Removing, At
<1>3. /\ req' \in [Requests -> Request] /\ \A s \in Requests : RequestAgrees(req[s])'
      /\ Lib!Reports(r, "removed")
  BY <1>1, <1>2, ReportMoves DEF AnswerNames
<1>4. /\ pieces' \in [Ids -> Seq(Piece)] /\ member' \in [Ids -> CategoryNames \cup {""}]
  <2>1. pieces \in [Ids -> Seq(Piece)] /\ member \in [Ids -> CategoryNames \cup {""}]
    BY DEF IInv, TypeOK
  <2>2. <<>> \in Seq(Piece)
    BY EmptySeq
  <2>3. QED
    BY <1>1, <2>1, <2>2
<1>5. \A i \in Ids : pieces'[i] = <<>> /\ member'[i] = ""
  BY <1>1 DEF IInv, TypeOK, TablesAgree
<1>6. IInv'
  BY <1>1, <1>3, <1>4, <1>5 DEF IInv, TypeOK, TablesAgree
<1>7. Lib!Removing(r) /\ Entry # NoRow /\ Entry' = NoRow
  BY <1>1, AskedIs, EntryIs DEF Lib!Removing, Lib!At, Removing, At, Reading, Entry
<1>8. Lib!Remove(r)
  BY <1>1, <1>3, <1>7 DEF Lib!Remove
<1>9. QED
  BY <1>6, <1>8 DEF Simulated, Lib!Next

LEMMA SoftDeleteStep ==
    ASSUME IInv, NEW r \in Requests, SoftDelete(r)
    PROVE  IInv' /\ Simulated
<1>1. /\ req[r].step = "called" /\ req[r].call.op = "archive"
      /\ UNCHANGED <<pieces, member, categories, nextId, disk>>
  BY DEF SoftDelete, At
<1>2. CASE ~Live
  BY <1>1, <1>2, MissingStep DEF SoftDelete, database
<1>3. CASE Live
  <2>1. row' = [row EXCEPT !.archived = TRUE] /\ Reports(r, "archived")
    BY <1>3 DEF SoftDelete
  <2>2. /\ req' \in [Requests -> Request] /\ \A s \in Requests : RequestAgrees(req[s])'
        /\ Lib!Reports(r, "archived")
    BY <1>1, <2>1, ReportMoves DEF AnswerNames
  <2>3. /\ row # NoRow /\ row \in Row
        /\ Entry = [payload |-> PayloadOf(row.content), archived |-> row.archived,
                    category |-> member[row.id]]
    BY <1>3, EntryIs DEF Live
  <2>4. row' \in Row /\ row'.id = row.id /\ row'.content = row.content /\ row'.archived = TRUE
    BY <2>1, <2>3 DEF Row
  <2>5. row' # NoRow
    BY <2>4, StoreAssumption
  <2>6. IInv'
    BY <1>1, <2>2, <2>3, <2>4, <2>5 DEF IInv, TypeOK, TablesAgree, PiecesOf
  <2>7. Entry' = [payload |-> PayloadOf(row.content), archived |-> TRUE,
                  category |-> member[row.id]]
    <3>1. /\ StoredPayload' = StoredPayload /\ Entry = [payload |-> StoredPayload,
                archived |-> row.archived, category |-> member[row.id]]
      BY <1>1, <2>3, <2>4 DEF StoredPayload, PayloadOf, PiecesOf, Entry
    <3>2. StoredPayload = PayloadOf(row.content)
      BY <2>3, <3>1
    <3>3. QED
      BY <1>1, <2>4, <2>5, <3>1, <3>2 DEF Entry
  <2>8. Entry' = [Entry EXCEPT !.archived = TRUE]
    <3>1. PICK e : e = Entry
      OBVIOUS
    <3>2. e \in [payload : {e.payload}, archived : BOOLEAN, category : {e.category}]
          /\ e.payload = PayloadOf(row.content) /\ e.category = member[row.id]
      BY <2>3, <3>1 DEF Row
    <3>3. [e EXCEPT !.archived = TRUE]
            = [payload |-> e.payload, archived |-> TRUE, category |-> e.category]
      <4>1. PICK w : w = [e EXCEPT !.archived = TRUE]
        OBVIOUS
      <4>2. /\ w \in [payload : {e.payload}, archived : BOOLEAN, category : {e.category}]
            /\ w.payload = e.payload /\ w.archived = TRUE /\ w.category = e.category
        BY <3>2, <4>1
      <4>3. w = [payload |-> w.payload, archived |-> w.archived, category |-> w.category]
        BY <4>2
      <4>4. QED
        BY <4>1, <4>2, <4>3
    <3>4. QED
      BY <2>7, <3>1, <3>2, <3>3
  <2>9. Lib!At(r, "archive", "called") /\ Lib!Live
    BY <1>1, <1>3, AskedIs, EntryIs DEF Lib!At, Reading
  <2>10. Lib!Archive(r)
    BY <1>1, <2>2, <2>8, <2>9 DEF Lib!Archive
  <2>11. QED
    BY <2>6, <2>10 DEF Simulated, Lib!Next
<1>4. QED
  BY <1>2, <1>3

LEMMA MoveStep ==
    ASSUME IInv, NEW r \in Requests, Move(r)
    PROVE  IInv' /\ Simulated
<1>1. /\ req[r].step = "called" /\ req[r].call.op = "move"
      /\ UNCHANGED <<row, pieces, categories, nextId, disk>>
  BY DEF Move, At
<1>2. CASE ~Live
  BY <1>1, <1>2, MissingStep DEF Move, database
<1>3. CASE Live
  <2>1. PICK c \in Calls : c = req[r].call
    BY <1>1 DEF IInv, RequestAgrees
  <2>2. /\ c.op = "move" /\ c.category # "keep" /\ c.category \in CategoryNames
        /\ CategoryExists(c) /\ Reports(r, "moved")
        /\ member' = [member EXCEPT ![row.id] = c.category]
    BY <1>1, <1>3, <2>1, StoreAssumption DEF Move, MemberAfter, CategoryNames
  <2>3. /\ req' \in [Requests -> Request] /\ \A s \in Requests : RequestAgrees(req[s])'
        /\ Lib!Reports(r, "moved")
    BY <1>1, <2>2, ReportMoves DEF AnswerNames
  <2>4. /\ row # NoRow /\ row \in Row /\ row.id \in Ids
        /\ Entry = [payload |-> PayloadOf(row.content), archived |-> row.archived,
                    category |-> member[row.id]]
    BY <1>3, EntryIs DEF Live, Row
  <2>5. /\ member' \in [Ids -> CategoryNames \cup {""}] /\ member'[row.id] = c.category
        /\ \A i \in Ids \ {row.id} : member'[i] = member[i]
    BY <2>2, <2>4 DEF IInv, TypeOK
  <2>6. IInv'
    BY <1>1, <2>3, <2>4, <2>5 DEF IInv, TypeOK, TablesAgree
  <2>7. Entry' = [payload |-> PayloadOf(row.content), archived |-> row.archived,
                  category |-> c.category]
    <3>1. /\ StoredPayload' = StoredPayload /\ Entry = [payload |-> StoredPayload,
                archived |-> row.archived, category |-> member[row.id]]
      BY <1>1, <2>4 DEF StoredPayload, Entry
    <3>2. StoredPayload = PayloadOf(row.content)
      BY <2>4, <3>1
    <3>3. QED
      BY <1>1, <2>4, <2>5, <3>1, <3>2 DEF Entry
  <2>8. Entry' = [Entry EXCEPT !.category = c.category]
    BY <2>4, <2>7
  <2>9. Lib!At(r, "move", "called") /\ Lib!Live /\ Asked[r].call = c
    BY <1>1, <1>3, <2>1, AskedIs, EntryIs DEF Lib!At, Reading
  <2>10. Lib!Allowed(c)
    BY <2>2 DEF Lib!Allowed, CategoryExists
  <2>11. Lib!Move(r)
    BY <1>1, <2>3, <2>8, <2>9, <2>10 DEF Lib!Move
  <2>12. QED
    BY <2>6, <2>11 DEF Simulated, Lib!Next
<1>4. QED
  BY <1>2, <1>3

LEMMA CreateCategoryStep ==
    ASSUME IInv, NEW r \in Requests, CreateCategory(r)
    PROVE  IInv' /\ Simulated
<1>1. /\ req[r].step = "called" /\ req[r].call.op = "createCategory"
      /\ categories' = categories \cup {req[r].call.category}
      /\ Reports(r, "created") /\ UNCHANGED <<row, pieces, member, nextId, disk>>
  BY DEF CreateCategory, At
<1>2. /\ req' \in [Requests -> Request] /\ \A s \in Requests : RequestAgrees(req[s])'
      /\ Lib!Reports(r, "created")
  BY <1>1, ReportMoves DEF AnswerNames
<1>3. req[r].call \in Calls
  BY <1>1 DEF IInv, RequestAgrees
<1>4. categories' \subseteq CategoryNames
  BY <1>1, <1>3 DEF IInv, TypeOK, CategoryNames
<1>5. IInv' /\ Entry' = Entry
  BY <1>1, <1>2, <1>4 DEF IInv, TypeOK, TablesAgree, Entry, StoredPayload
<1>6. Lib!CreateCategory(r)
  BY <1>1, <1>2, <1>5, AskedIs DEF Lib!CreateCategory, Lib!At, Reading
<1>7. QED
  BY <1>5, <1>6 DEF Simulated, Lib!Next

----------------------------------------------------------------------------
(* The theorems. *)

LEMMA InitEstablishes == Init => IInv /\ Lib!Init
<1> SUFFICES ASSUME Init PROVE IInv /\ Lib!Init
  OBVIOUS
<1>1. NoRequest \in Request /\ RequestAgrees(NoRequest)
  <2>1. <<>> \in Seq(Piece) /\ 1 \in 1 .. RetryAttempts
    <3>1. RetryAttempts \in Nat \ {0}
      BY StoreAssumption
    <3>2. QED
      BY <3>1, EmptySeq
  <2>2. NoRequest \in Request
    BY <2>1 DEF NoRequest, Request, AnswerNames
  <2>3. RequestAgrees(NoRequest)
    BY DEF NoRequest, RequestAgrees, Reading
  <2>4. QED
    BY <2>2, <2>3
<1>2. TypeOK
  <2>1. pieces \in [Ids -> Seq(Piece)] /\ member \in [Ids -> CategoryNames \cup {""}]
    BY EmptySeq DEF Init
  <2>2. nextId \in 1 .. (MaxId + 1)
    <3>1. MaxId \in Nat
      BY StoreAssumption
    <3>2. nextId = 1
      BY DEF Init
    <3>3. QED
      BY <3>1, <3>2
  <2>3. QED
    BY <1>1, <2>1, <2>2 DEF Init, TypeOK
<1>3. TablesAgree
  BY DEF Init, TablesAgree
<1>4. IInv
  BY <1>1, <1>2, <1>3 DEF Init, IInv
<1>5. View(NoRequest) = [call |-> NoCall, stage |-> "idle", payload |-> NoPayload, answer |-> ""]
  BY DEF View, NoRequest, Seen
<1>6. Lib!Init
  BY <1>5 DEF Init, Lib!Init, Lib!Idle, Entry, Asked
<1>7. QED
  BY <1>4, <1>6

LEMMA StepKeepsInvariant == IInv /\ [Next]_vars => IInv' /\ [Lib!Next]_Lib!vars
<1> SUFFICES ASSUME IInv, [Next]_vars PROVE IInv' /\ Simulated
  BY DEF Simulated
<1>1. ASSUME NEW r \in Requests, Call(r)
      PROVE  IInv' /\ Simulated
  BY <1>1, CallStep
<1>2. ASSUME NEW r \in Requests,
             \/ SaveCommits(r) \/ SaveBreaks(r) \/ SaveFails(r)
             \/ SaveDuplicate(r) \/ SaveReceipt(r) \/ ReceiptFails(r)
      PROVE  IInv' /\ Simulated
  BY <1>2, SaveCommitsStep, SaveBreaksStep, SaveDuplicateStep, SaveReceiptStep, FailStep
     DEF SaveFails, At
<1>3. ASSUME NEW r \in Requests,
             \/ ReadRow(r) \/ ReadInline(r) \/ CountPieces(r)
             \/ ReadPiece(r) \/ Verify(r) \/ FetchWhole(r)
      PROVE  IInv' /\ Simulated
  BY <1>3, ReadRowStep, ReadStep
<1>4. ASSUME NEW r \in Requests,
             \/ SaveToDisk(r) \/ HardDelete(r) \/ SoftDelete(r)
             \/ Move(r) \/ CreateCategory(r)
      PROVE  IInv' /\ Simulated
  BY <1>4, SaveToDiskStep, HardDeleteStep, SoftDeleteStep, MoveStep, CreateCategoryStep
<1>5. ASSUME NEW r \in Requests, NothingToDelete(r)
      PROVE  IInv' /\ Simulated
  BY <1>5, MissingStep DEF NothingToDelete
<1>6. ASSUME NEW r \in Requests, OtherFails(r)
      PROVE  IInv' /\ Simulated
  BY <1>6, FailStep DEF OtherFails
<1>7. CASE UNCHANGED vars
  <2>1. IInv'
    BY <1>7 DEF vars, database, IInv, TypeOK, TablesAgree
  <2>2. UNCHANGED Lib!vars
    BY <1>7 DEF vars, database, Lib!vars, Entry, Asked, StoredPayload
  <2>3. QED
    BY <2>1, <2>2 DEF Simulated
<1>8. QED
  BY <1>1, <1>2, <1>3, <1>4, <1>5, <1>6, <1>7 DEF Next

\* Every table and every request keeps its type: no retry is counted past the last attempt, and
\* no id is given that AUTO_INCREMENT has not reached.
THEOREM StoreTypeCorrect == Spec => []TypeOK
<1>1. IInv => TypeOK
  BY DEF IInv
<1>2. QED
  BY <1>1, InitEstablishes, StepKeepsInvariant, PTL DEF Spec

\* A row's pieces are always those of its content, and nothing is left of a deleted one
\* (_save_once, _save_file_once and hard_delete keep the tables together without foreign keys).
THEOREM TablesAlwaysAgree == Spec => []TablesAgree
<1>1. IInv => TablesAgree
  BY DEF IInv
<1>2. QED
  BY <1>1, InitEstablishes, StepKeepsInvariant, PTL DEF Spec

\* The store implements the library its clients believe in: every statement of MySQLSchematicStore
\* is a step of Library or invisible.
THEOREM StoreImplementsLibrary == Spec => ImplementsLibrary
<1>1. QED
  BY InitEstablishes, StepKeepsInvariant, PTL DEF Spec, ImplementsLibrary, Lib!Spec

=============================================================================
