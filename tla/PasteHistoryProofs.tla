------------------------- MODULE PasteHistoryProofs -------------------------
(***************************************************************************)
(* Theorems about PasteHistory, for every number of positions, blocks and   *)
(* records: what a paste captured leads back to where it started, and the   *)
(* stacks stay within their limits and lose no storage.                     *)
(***************************************************************************)
EXTENDS PasteHistory, FiniteSetTheorems, SequenceTheorems, WellFoundedInduction, TLAPS

(* The invariant. *)

\* A plan or a list of changes names each position once.
Once(list) == \A k, l \in DOMAIN list : list[k].at = list[l].at => k = l

\* Every entry has something to undo, each position once.
EntriesAgree(stack) == \A k \in DOMAIN stack : stack[k].changes # <<>> /\ Once(stack[k].changes)

Apart(stack) == \A k, l \in DOMAIN stack : stack[k].storage = stack[l].storage => k = l

\* The two stacks: no storage twice, and no more of them than the limits allow.
StacksAgree(u, r) ==
    /\ u \in Seq(Entries) /\ r \in Seq(Entries)
    /\ EntriesAgree(u) /\ EntriesAgree(r)
    /\ Apart(u) /\ Apart(r) /\ StoragesOf(u) \cap StoragesOf(r) = {}
    /\ Len(u) + Len(r) <= MaxOperations
    /\ BlockCount(u) + BlockCount(r) <= MaxTotalBlocks \/ Len(u) + Len(r) <= 1

\* A position has its change, from the world at the start to world w, or has not changed.
Tracked(j, w) ==
    \A p \in Positions :
      \/ \E k \in DOMAIN j.changes : /\ j.changes[k].at = p
                                    /\ j.changes[k].before = j.start[p]
                                    /\ j.changes[k].after = w[p]
      \/ w[p] = j.start[p] /\ \A k \in DOMAIN j.changes : j.changes[k].at # p

\* A captured change tells the block before the job and the block now.
Recorded(j, w) ==
    \A k \in DOMAIN j.changes : /\ j.changes[k].before = j.start[j.changes[k].at]
                                /\ j.changes[k].after = w[j.changes[k].at]

\* No record of the job has been at this position.
Ahead(j, p) == \A i \in 1 .. j.cursor : j.plan[i].at # p

\* What job j has done to world w.
JobAgrees(j, w) ==
    /\ j.cursor <= Len(j.plan) /\ Once(j.plan)
    /\ \A p \in Positions : Ahead(j, p) => w[p] = j.start[p]
    /\ j.capturing =>
         /\ j.op = "paste" /\ j.storage # NoStorage
         /\ Once(j.changes) /\ Recorded(j, w)
         /\ \A k \in DOMAIN j.changes : \E i \in 1 .. j.cursor : j.changes[k].at = j.plan[i].at
         /\ ~LateErrors => Tracked(j, w)
    /\ ~j.capturing => j.changes = <<>>
    /\ (~j.capturing /\ j.op = "paste") => j.storage = NoStorage

\* The records the job counts as failed or unavailable.
Short(j) == j.failed + j.missing

\* A job that took to writing a palette entry by its type has counted that.
Honest(j) == j.loose # {} => j.adapted > 0

Right(j, w) == \A k \in 1 .. j.cursor : w[j.plan[k].at] \in Matching(j.plan[k].to)

\* With verification, what the job counts accounts for the records behind it.
Truthful(j, w, verify) ==
    /\ Honest(j)
    /\ verify => /\ Cardinality(WrongTypes(j, w)) <= Short(j)
                 /\ Reported(j) = 0 => Right(j, w)

\* An undo or redo works on the entry on top of its stack, a paste on a storage of its own.
StorageAgrees(j) ==
    /\ j.op = "paste" => j.storage \notin StoragesOf(undo) \cup StoragesOf(redo)
    /\ j.op = "undo" => /\ undo # <<>> /\ j.storage = Top(undo).storage
                        /\ j.plan = BeforePlan(Top(undo))
    /\ j.op = "redo" => /\ redo # <<>> /\ j.storage = Top(redo).storage
                        /\ j.plan = AfterPlan(Top(redo))

OpenAgrees ==
    open = StoragesOf(undo) \cup StoragesOf(redo)
           \cup IF job = NoJob THEN {} ELSE {job.storage} \ {NoStorage}

JobRuns ==
    job # NoJob => /\ JobAgrees(job, world) /\ StorageAgrees(job) /\ last = NoJob
                   /\ Truthful(job, world, config.verify)

IInv ==
    /\ TypeOK /\ StacksAgree(undo, redo) /\ OpenAgrees /\ JobRuns
    /\ CompletedPlanIsInWorld
    /\ ~LateErrors => PasteIsUndoable

----------------------------------------------------------------------------
(* Numbers and sums. *)

LEMMA LeastNatural ==
    ASSUME NEW S \in SUBSET Nat, S # {}
    PROVE  \E m \in S : \A n \in S : m <= n
<1>1. PICK m \in S : \A n \in S : <<n, m>> \notin OpToRel(<, Nat)
  BY NatLessThanWellFounded, WFMin
<1>2. \A n \in S : ~(n < m)
  BY <1>1 DEF OpToRel
<1>3. QED
  BY <1>2

\* The sum of g over the first n numbers, as BlockCount computes it.
SameTo(g, h, n) == \A k \in 1 .. n : g[k] = h[k]
AddsUp(f, g, n) == f[0] = 0 /\ \A k \in 1 .. n : f[k] = f[k - 1] + g[k]
IsSum(f, g, n) == f \in [0 .. n -> Nat] /\ AddsUp(f, g, n)

LEMMA SumExists ==
    ASSUME NEW n \in Nat, NEW g \in [1 .. n -> Nat]
    PROVE  \E f : IsSum(f, g, n)
<1>1. SUFFICES ASSUME ~ \E f : IsSum(f, g, n) PROVE FALSE
  OBVIOUS
<1>2. PICK m \in 0 .. n : /\ ~ \E f : IsSum(f, g, m)
                         /\ \A k \in 0 .. n : (~ \E f : IsSum(f, g, k)) => m <= k
  <2> DEFINE S == {k \in 0 .. n : ~ \E f : IsSum(f, g, k)}
  <2>1. n \in 0 .. n
    OBVIOUS
  <2>2. S \in SUBSET Nat /\ n \in S
    BY <1>1, <2>1
  <2> HIDE DEF S
  <2>3. PICK k \in S : \A l \in S : k <= l
    BY <2>2, LeastNatural
  <2>4. QED
    BY <2>3 DEF S
<1>3. ~ \E f : IsSum(f, g, m)
  BY <1>2
<1>4. IsSum([k \in {0} |-> 0], g, 0)
  BY DEF IsSum, AddsUp
<1>5. m # 0
  BY <1>3, <1>4
<1>6. m - 1 \in 0 .. n /\ m \in 1 .. n /\ ~(m <= m - 1)
  BY <1>2, <1>5
<1>7. PICK f : IsSum(f, g, m - 1)
  BY <1>2, <1>6
<1>8. PICK h : h = [k \in 0 .. m |-> IF k = m THEN f[m - 1] + g[m] ELSE f[k]]
  OBVIOUS
<1>9. g[m] \in Nat /\ f[m - 1] \in Nat
  BY <1>3, <1>5, <1>6, <1>7 DEF IsSum, AddsUp
<1>10. IsSum(h, g, m)
  <2>1. h \in [0 .. m -> Nat]
    BY <1>6, <1>7, <1>8, <1>9 DEF IsSum, AddsUp
  <2>2. h[0] = 0
    BY <1>5, <1>6, <1>7, <1>8 DEF IsSum, AddsUp
  <2>3. ASSUME NEW k \in 1 .. m
        PROVE  h[k] = h[k - 1] + g[k]
    <3>1. CASE k = m
      BY <1>6, <1>8, <3>1
    <3>2. CASE k # m
      <4>1. k \in 1 .. m - 1 /\ k - 1 \in 0 .. m - 1 /\ k - 1 # m
        BY <1>6, <2>3, <3>2
      <4>2. QED
        BY <1>6, <1>7, <1>8, <3>2, <4>1 DEF IsSum, AddsUp
    <3>3. QED
      BY <3>1, <3>2
  <2>4. QED
    BY <2>1, <2>2, <2>3 DEF IsSum, AddsUp
<1>11. QED
  BY <1>3, <1>10

LEMMA SumUnique ==
    ASSUME NEW n \in Nat, NEW g, NEW h, SameTo(g, h, n),
           NEW e, NEW f, AddsUp(e, g, n), AddsUp(f, h, n)
    PROVE  \A k \in 0 .. n : e[k] = f[k]
<1>1. SUFFICES ASSUME NEW o \in 0 .. n, e[o] # f[o] PROVE FALSE
  OBVIOUS
<1>2. PICK m \in 0 .. n : e[m] # f[m] /\ \A k \in 0 .. n : e[k] # f[k] => m <= k
  <2> DEFINE S == {k \in 0 .. n : e[k] # f[k]}
  <2>1. S \in SUBSET Nat /\ o \in S
    BY <1>1
  <2> HIDE DEF S
  <2>2. PICK k \in S : \A l \in S : k <= l
    BY <2>1, LeastNatural
  <2>3. QED
    BY <2>2 DEF S
<1>3. m # 0
  BY <1>2 DEF AddsUp, SameTo
<1>4. m \in 1 .. n /\ m - 1 \in 0 .. n /\ e[m - 1] = f[m - 1]
  BY <1>2, <1>3
<1>5. QED
  BY <1>2, <1>4 DEF AddsUp, SameTo

LEMMA BlockCountIs ==
    ASSUME NEW stack \in Seq(Entries)
    PROVE  \E f : /\ IsSum(f, [k \in 1 .. Len(stack) |-> Len(stack[k].changes)], Len(stack))
                  /\ BlockCount(stack) = f[Len(stack)]
<1>1. PICK g : g = [k \in 1 .. Len(stack) |-> Len(stack[k].changes)]
  OBVIOUS
<1>2. Len(stack) \in Nat
  OBVIOUS
<1>3. g \in [1 .. Len(stack) -> Nat]
  <2>1. ASSUME NEW k \in 1 .. Len(stack)
        PROVE  Len(stack[k].changes) \in Nat
    BY DEF Entries
  <2>2. QED
    BY <1>1, <2>1
<1>4. PICK f : IsSum(f, g, Len(stack))
  BY <1>2, <1>3, SumExists
<1>5. f = [k \in 0 .. Len(stack) |-> IF k = 0 THEN 0 ELSE f[k - 1] + Len(stack[k].changes)]
  BY <1>1, <1>2, <1>4 DEF IsSum, AddsUp
<1>6. PICK s : /\ s = [k \in 0 .. Len(stack) |->
                          IF k = 0 THEN 0 ELSE s[k - 1] + Len(stack[k].changes)]
               /\ BlockCount(stack) = s[Len(stack)]
  BY <1>5 DEF BlockCount
<1>7. s[0] = 0 /\ \A k \in 1 .. Len(stack) : s[k] = s[k - 1] + g[k]
  BY <1>1, <1>2, <1>6
<1>8. \A k \in 0 .. Len(stack) : f[k] = s[k]
  <2>1. PICK n \in Nat : n = Len(stack)
    BY <1>2
  <2>2. PICK h : h = g
    OBVIOUS
  <2>3. /\ SameTo(g, h, n)
        /\ AddsUp(f, g, n) /\ AddsUp(s, h, n)
    BY <1>4, <1>7, <2>1, <2>2 DEF IsSum, AddsUp, SameTo
  <2>4. \A k \in 0 .. n : f[k] = s[k]
    BY <2>1, <2>3, SumUnique
  <2>5. QED
    BY <2>1, <2>4
<1>9. IsSum(f, g, Len(stack)) /\ BlockCount(stack) = f[Len(stack)]
  BY <1>2, <1>4, <1>6, <1>8
<1>10. QED
  BY <1>1, <1>9

LEMMA Appended ==
    ASSUME NEW stack \in Seq(Entries), NEW e \in Entries
    PROVE  /\ Append(stack, e) \in Seq(Entries)
           /\ Len(Append(stack, e)) = Len(stack) + 1
           /\ Append(stack, e)[Len(stack) + 1] = e
           /\ \A k \in 1 .. Len(stack) : Append(stack, e)[k] = stack[k]
BY AppendProperties

LEMMA CountAppended ==
    ASSUME NEW stack \in Seq(Entries), NEW e \in Entries
    PROVE  /\ BlockCount(stack) \in Nat /\ Len(e.changes) \in Nat
           /\ BlockCount(Append(stack, e)) = BlockCount(stack) + Len(e.changes)
<1>1. PICK longer \in Seq(Entries) : longer = Append(stack, e)
  BY Appended
<1>2. PICK n \in Nat : n = Len(stack)
  OBVIOUS
<1>3. /\ Len(longer) = n + 1 /\ longer[n + 1] = e
      /\ \A k \in 1 .. n : longer[k] = stack[k]
  BY <1>1, <1>2, Appended
<1>4. PICK g : g = [k \in 1 .. n |-> Len(stack[k].changes)]
  OBVIOUS
<1>5. PICK h : h = [k \in 1 .. n + 1 |-> Len(longer[k].changes)]
  OBVIOUS
<1>6. PICK f : IsSum(f, g, n) /\ BlockCount(stack) = f[n]
  BY <1>2, <1>4, BlockCountIs
<1>7. PICK l : IsSum(l, h, n + 1) /\ BlockCount(longer) = l[n + 1]
  BY <1>3, <1>5, BlockCountIs
<1>8. SameTo(g, h, n)
  BY <1>2, <1>3, <1>4, <1>5 DEF SameTo
<1>9. AddsUp(f, g, n) /\ AddsUp(l, h, n)
  BY <1>6, <1>7 DEF IsSum, AddsUp
<1>10. \A k \in 0 .. n : f[k] = l[k]
  BY <1>2, <1>8, <1>9, SumUnique
<1>11. l[n + 1] = l[n] + h[n + 1] /\ h[n + 1] = Len(e.changes)
  BY <1>3, <1>5, <1>7 DEF IsSum, AddsUp
<1>12. f[n] = l[n] /\ f[n] \in Nat
  BY <1>6, <1>10 DEF IsSum, AddsUp
<1>13. Len(e.changes) \in Nat
  BY DEF Entries
<1>14. QED
  BY <1>1, <1>6, <1>7, <1>11, <1>12, <1>13

LEMMA Poppable ==
    ASSUME NEW stack \in Seq(Entries), stack # <<>>
    PROVE  /\ Popped(stack) \in Seq(Entries) /\ Top(stack) \in Entries
           /\ stack = Append(Popped(stack), Top(stack))
           /\ Len(stack) \in Nat \ {0} /\ Len(Popped(stack)) = Len(stack) - 1
           /\ \A k \in 1 .. Len(stack) - 1 : Popped(stack)[k] = stack[k]
<1>1. Len(stack) \in Nat \ {0}
  BY EmptySeq
<1>2. Top(stack) \in Entries
  BY <1>1 DEF Top
<1>3. /\ Popped(stack) \in Seq(Entries) /\ Len(Popped(stack)) = Len(stack) - 1
      /\ \A k \in 1 .. Len(stack) - 1 : Popped(stack)[k] = stack[k]
  <2>1. PICK n \in Nat : n = Len(stack) - 1
    BY <1>1
  <2>2. \A k \in 1 .. n : stack[k] \in Entries
    BY <1>1, <2>1
  <2>3. SubSeq(stack, 1, n) \in Seq(Entries) /\ Len(SubSeq(stack, 1, n)) = n
        /\ \A k \in 1 .. n : SubSeq(stack, 1, n)[k] = stack[k]
    BY <2>2, SubSeqProperties
  <2>4. QED
    BY <2>1, <2>3 DEF Popped
<1>4. stack = Append(Popped(stack), Top(stack))
  <2>1. PICK p \in Seq(Entries) : p = Popped(stack)
    BY <1>3
  <2>2. PICK e \in Entries : e = Top(stack)
    BY <1>2
  <2>3. PICK s \in Seq(Entries) : s = Append(p, e)
    BY Appended
  <2>4. /\ Len(s) = Len(stack)
        /\ \A k \in 1 .. Len(stack) : s[k] = stack[k]
    BY <1>1, <1>3, <2>1, <2>2, <2>3, Appended DEF Top
  <2>5. QED
    BY <2>1, <2>2, <2>3, <2>4, SeqEqual
<1>5. QED
  BY <1>1, <1>2, <1>3, <1>4

LEMMA CountPopped ==
    ASSUME NEW stack \in Seq(Entries), stack # <<>>
    PROVE  /\ BlockCount(stack) = BlockCount(Popped(stack)) + Len(Top(stack).changes)
           /\ BlockCount(Popped(stack)) \in Nat /\ Len(Top(stack).changes) \in Nat
BY Poppable, CountAppended

\* A stack of one entry is never too large, so that some part of a stack always fits; the
\* longest one is taken, and all of it if it fits.
LEMMA NewestFittingIs ==
    ASSUME NEW stack \in Seq(Entries), stack # <<>>
    PROVE  /\ ~Overfull(NewestFitting(stack))
           /\ \E k \in 1 .. Len(stack) : NewestFitting(stack) = SubSeq(stack, k, Len(stack))
           /\ ~Overfull(stack) => NewestFitting(stack) = stack
<1>1. PICK n \in Nat \ {0} : n = Len(stack)
  BY Poppable
<1>2. PICK suffixes : suffixes = {SubSeq(stack, k, Len(stack)) : k \in 1 .. Len(stack)}
  OBVIOUS
<1>3. \A k \in 1 .. n : SubSeq(stack, k, n) \in Seq(Entries) /\ Len(SubSeq(stack, k, n)) = n - k + 1
  BY <1>1
<1>4. ~Overfull(SubSeq(stack, n, n))
  <2>1. Len(SubSeq(stack, n, n)) = 1
    BY <1>3
  <2>2. MaxOperations \in Nat \ {0}
    BY HistoryAssumption
  <2>3. QED
    BY <2>1, <2>2 DEF Overfull
<1>5. PICK k \in 1 .. n : /\ ~Overfull(SubSeq(stack, k, n))
                         /\ \A l \in 1 .. n : ~Overfull(SubSeq(stack, l, n)) => k <= l
  <2> DEFINE S == {k \in 1 .. n : ~Overfull(SubSeq(stack, k, n))}
  <2>1. S \in SUBSET Nat /\ n \in S
    BY <1>4
  <2> HIDE DEF S
  <2>2. PICK k \in S : \A l \in S : k <= l
    BY <2>1, LeastNatural
  <2>3. QED
    BY <2>2 DEF S
<1>6. \E s \in suffixes : ~Overfull(s) /\ \A t \in suffixes : Len(t) > Len(s) => Overfull(t)
  <2>1. SubSeq(stack, k, n) \in suffixes
    BY <1>1, <1>2
  <2>2. ASSUME NEW t \in suffixes, Len(t) > Len(SubSeq(stack, k, n))
        PROVE  Overfull(t)
    <3>1. PICK l \in 1 .. n : t = SubSeq(stack, l, n)
      BY <1>1, <1>2
    <3>2. l < k
      BY <1>3, <2>2, <3>1
    <3>3. QED
      BY <1>5, <3>1, <3>2
  <2>3. QED
    BY <1>5, <2>1, <2>2
<1>7. PICK s \in suffixes : /\ s = NewestFitting(stack) /\ ~Overfull(s)
                           /\ \A t \in suffixes : Len(t) > Len(s) => Overfull(t)
  BY <1>2, <1>6 DEF NewestFitting
<1>8. SubSeq(stack, 1, n) = stack
  BY <1>1, SubSeqFull
<1>9. ASSUME ~Overfull(stack) PROVE s = stack
  <2>1. PICK l \in 1 .. n : s = SubSeq(stack, l, n)
    BY <1>1, <1>2, <1>7
  <2>2. stack \in suffixes
    <3>1. 1 \in 1 .. Len(stack) /\ stack = SubSeq(stack, 1, Len(stack))
      BY <1>1, <1>8
    <3>2. QED
      BY <1>2, <3>1
  <2>3. ~(Len(stack) > Len(s))
    BY <1>7, <1>9, <2>2
  <2>4. l = 1
    BY <1>1, <1>3, <2>1, <2>3
  <2>5. QED
    BY <1>8, <2>1, <2>4
<1>10. QED
  BY <1>1, <1>2, <1>7, <1>9

\* Storages apart: as many as there are entries.
LEMMA CountStorages ==
    ASSUME NEW u \in Seq(Entries), NEW r \in Seq(Entries),
           Apart(u), Apart(r), StoragesOf(u) \cap StoragesOf(r) = {}
    PROVE  Cardinality(StoragesOf(u) \cup StoragesOf(r)) = Len(u) + Len(r)
<1>1. PICK n \in Nat, m \in Nat : n = Len(u) /\ m = Len(r)
  OBVIOUS
<1>2. PICK T : T = StoragesOf(u) \cup StoragesOf(r)
  OBVIOUS
<1>3. PICK f : f = [i \in 1 .. n + m |-> IF i <= n THEN u[i].storage ELSE r[i - n].storage]
  OBVIOUS
<1>4. /\ \A i \in 1 .. n : i \in 1 .. n + m /\ f[i] = u[i].storage /\ f[i] \in StoragesOf(u)
      /\ \A i \in 1 .. m : i + n \in 1 .. n + m /\ f[i + n] = r[i].storage /\ f[i + n] \in StoragesOf(r)
      /\ DOMAIN u = 1 .. n /\ DOMAIN r = 1 .. m
  <2>1. DOMAIN u = 1 .. n /\ DOMAIN r = 1 .. m
    BY <1>1
  <2>2. ASSUME NEW i \in 1 .. n
        PROVE  i \in 1 .. n + m /\ f[i] = u[i].storage /\ f[i] \in StoragesOf(u)
    BY <1>3, <2>1 DEF StoragesOf
  <2>3. ASSUME NEW i \in 1 .. m
        PROVE  i + n \in 1 .. n + m /\ f[i + n] = r[i].storage /\ f[i + n] \in StoragesOf(r)
    <3>1. i + n \in 1 .. n + m /\ ~(i + n <= n) /\ i + n - n = i
      OBVIOUS
    <3>2. f[i + n] = r[i].storage
      BY <1>3, <3>1
    <3>3. QED
      BY <3>1, <3>2, <2>1 DEF StoragesOf
  <2>4. QED
    BY <2>1, <2>2, <2>3
<1>5. \A i \in 1 .. n + m : i \in 1 .. n \/ \E l \in 1 .. m : i = l + n
  <2>1. ASSUME NEW i \in 1 .. n + m, i \notin 1 .. n
        PROVE  i - n \in 1 .. m /\ i = (i - n) + n
    BY <2>1
  <2>2. QED
    BY <2>1
<1>6. f \in [1 .. n + m -> T]
  BY <1>2, <1>3, <1>4, <1>5
<1>7. \A i, k \in 1 .. n + m : f[i] = f[k] => i = k
  <2>1. SUFFICES ASSUME NEW i \in 1 .. n + m, NEW k \in 1 .. n + m, f[i] = f[k]
                 PROVE  i = k
    OBVIOUS
  <2>2. CASE i \in 1 .. n /\ k \in 1 .. n
    <3>1. f[i] = u[i].storage /\ f[k] = u[k].storage /\ i \in DOMAIN u /\ k \in DOMAIN u
      BY <1>4, <2>2
    <3>2. QED
      BY <2>1, <3>1 DEF Apart
  <2>3. CASE (\E l \in 1 .. m : i = l + n) /\ \E l \in 1 .. m : k = l + n
    <3>1. PICK l \in 1 .. m : i = l + n
      BY <2>3
    <3>2. PICK o \in 1 .. m : k = o + n
      BY <2>3
    <3>3. f[i] = r[l].storage /\ l \in DOMAIN r
      BY <1>4, <3>1
    <3>4. f[k] = r[o].storage /\ o \in DOMAIN r
      BY <1>4, <3>2
    <3>5. l = o
      BY <2>1, <3>3, <3>4 DEF Apart
    <3>6. QED
      BY <3>1, <3>2, <3>5
  <2>4. CASE i \in 1 .. n /\ \E l \in 1 .. m : k = l + n
    <3>1. f[i] \in StoragesOf(u) /\ f[k] \in StoragesOf(r)
      BY <1>4, <2>4
    <3>2. QED
      BY <2>1, <3>1
  <2>5. CASE k \in 1 .. n /\ \E l \in 1 .. m : i = l + n
    <3>1. f[k] \in StoragesOf(u) /\ f[i] \in StoragesOf(r)
      BY <1>4, <2>5
    <3>2. QED
      BY <2>1, <3>1
  <2>6. QED
    BY <1>5, <2>2, <2>3, <2>4, <2>5
<1>8. \A t \in T : \E i \in 1 .. n + m : f[i] = t
  <2>1. ASSUME NEW t \in StoragesOf(u) PROVE \E i \in 1 .. n + m : f[i] = t
    <3>1. PICK i \in 1 .. n : t = u[i].storage
      BY <1>4, <2>1 DEF StoragesOf
    <3>2. QED
      BY <1>4, <3>1
  <2>2. ASSUME NEW t \in StoragesOf(r) PROVE \E i \in 1 .. n + m : f[i] = t
    <3>1. PICK i \in 1 .. m : t = r[i].storage
      BY <1>4, <2>2 DEF StoragesOf
    <3>2. QED
      BY <1>4, <3>1
  <2>3. QED
    BY <1>2, <2>1, <2>2
<1>9. f \in Surjection(1 .. n + m, T) /\ f \in Injection(1 .. n + m, T)
  BY <1>6, <1>7, <1>8 DEF Surjection, Injection, IsInjective
<1>10. IsFiniteSet(1 .. n + m) /\ Cardinality(1 .. n + m) = n + m
  <2>1. 1 \in Int /\ n + m \in Int
    OBVIOUS
  <2>2. Cardinality(1 .. n + m) = IF 1 > n + m THEN 0 ELSE (n + m) - 1 + 1
    BY <2>1, FS_Interval
  <2>3. IsFiniteSet(1 .. n + m)
    BY <2>1, FS_Interval
  <2>4. QED
    BY <2>2, <2>3
<1>11. Cardinality(T) = n + m
  BY <1>9, <1>10, FS_Surjection
<1>12. QED
  BY <1>1, <1>2, <1>11

\* What the eviction leaves: the newest entries, within the limits.
LEMMA FitKeeps ==
    ASSUME NEW p \in Seq(Entries), p # <<>>
    PROVE  LET s == NewestFitting(p) IN
             /\ s \in Seq(Entries) /\ s # <<>> /\ Top(s) = Top(p)
             /\ StoragesOf(s) \subseteq StoragesOf(p)
             /\ EntriesAgree(p) => EntriesAgree(s)
             /\ Apart(p) => Apart(s)
             /\ Len(s) <= MaxOperations
             /\ BlockCount(s) <= MaxTotalBlocks \/ Len(s) <= 1
             /\ BlockCount(s) \in Nat
<1>1. PICK n \in Nat \ {0} : n = Len(p)
  BY Poppable
<1>2. PICK k \in 1 .. n : NewestFitting(p) = SubSeq(p, k, n)
  BY <1>1, NewestFittingIs
<1>3. PICK s : s = NewestFitting(p)
  OBVIOUS
<1>4. /\ s \in Seq(Entries) /\ Len(s) = n - k + 1
      /\ \A i \in 1 .. n - k + 1 : s[i] = p[k + i - 1]
  <2>1. \A i \in k .. n : p[i] \in Entries
    BY <1>1
  <2>2. k \in Int /\ n \in Int /\ k <= n
    BY <1>2
  <2>3. /\ SubSeq(p, k, n) \in Seq(Entries)
        /\ Len(SubSeq(p, k, n)) = IF k <= n THEN n - k + 1 ELSE 0
        /\ \A i \in 1 .. n - k + 1 : SubSeq(p, k, n)[i] = p[k + i - 1]
    BY <2>1, <2>2, SubSeqProperties
  <2>4. QED
    BY <1>2, <1>3, <2>2, <2>3
<1>5. n - k + 1 \in 1 .. n /\ k + (n - k + 1) - 1 = n
  BY <1>1, <1>2
<1>6. s # <<>> /\ Top(s) = Top(p)
  <2>1. s[n - k + 1] = p[n]
    BY <1>4, <1>5
  <2>2. Len(s) = n - k + 1 /\ Len(s) \in Nat \ {0}
    BY <1>4, <1>5
  <2>3. Top(s) = p[n] /\ Top(p) = p[n]
    BY <1>1, <2>1, <2>2 DEF Top
  <2>4. s # <<>>
    BY <2>2
  <2>5. QED
    BY <2>3, <2>4
<1>7. \A i \in DOMAIN s : /\ k + i - 1 \in DOMAIN p /\ s[i] = p[k + i - 1]
                         /\ i \in Nat
  <2>1. SUFFICES ASSUME NEW i \in DOMAIN s
                 PROVE  k + i - 1 \in DOMAIN p /\ s[i] = p[k + i - 1] /\ i \in Nat
    OBVIOUS
  <2>2. i \in 1 .. n - k + 1 /\ DOMAIN p = 1 .. n
    BY <1>1, <1>4, <1>5, <2>1
  <2>3. QED
    BY <1>4, <2>2
<1>8. StoragesOf(s) \subseteq StoragesOf(p)
  BY <1>7 DEF StoragesOf
<1>9. EntriesAgree(p) => EntriesAgree(s)
  BY <1>7 DEF EntriesAgree
<1>10. Apart(p) => Apart(s)
  <2>1. SUFFICES ASSUME Apart(p), NEW i \in DOMAIN s, NEW l \in DOMAIN s, s[i].storage = s[l].storage
                 PROVE  i = l
    BY DEF Apart
  <2>2. k + i - 1 = k + l - 1
    BY <1>7, <2>1 DEF Apart
  <2>3. QED
    BY <1>2, <1>7, <2>2
<1>11. Len(s) <= MaxOperations /\ (BlockCount(s) <= MaxTotalBlocks \/ Len(s) <= 1)
  <2>1. ~Overfull(s)
    BY <1>3, NewestFittingIs
  <2>2. BlockCount(s) \in Nat
    <3>1. PICK e : e \in Entries
      BY <1>6, <1>4, Poppable
    <3>2. QED
      BY <1>4, <3>1, CountAppended
  <2>3. Len(s) \in Nat /\ MaxOperations \in Nat /\ MaxTotalBlocks \in Nat
    BY <1>4, HistoryAssumption
  <2>4. QED
    BY <2>1, <2>2, <2>3 DEF Overfull
<1>12. BlockCount(s) \in Nat
  BY <1>4, <1>6, CountPopped, Poppable, CountAppended
<1>13. QED
  BY <1>3, <1>4, <1>6, <1>8, <1>9, <1>10, <1>11, <1>12

----------------------------------------------------------------------------
(* Moving entries between the stacks. *)

LEMMA AppendKeeps ==
    ASSUME NEW stack \in Seq(Entries), NEW e \in Entries,
           EntriesAgree(stack), Apart(stack),
           e.storage \notin StoragesOf(stack), e.changes # <<>>, Once(e.changes)
    PROVE  /\ EntriesAgree(Append(stack, e)) /\ Apart(Append(stack, e))
           /\ StoragesOf(Append(stack, e)) = StoragesOf(stack) \cup {e.storage}
<1>1. PICK n \in Nat : n = Len(stack)
  OBVIOUS
<1>2. PICK s \in Seq(Entries) : s = Append(stack, e)
  BY Appended
<1>3. /\ DOMAIN s = 1 .. n + 1 /\ DOMAIN stack = 1 .. n
      /\ s[n + 1] = e /\ \A k \in 1 .. n : s[k] = stack[k]
  BY <1>1, <1>2, Appended
<1>4. \A k \in 1 .. n + 1 : k = n + 1 \/ k \in 1 .. n
  BY <1>1
<1>5. EntriesAgree(s)
  BY <1>3, <1>4 DEF EntriesAgree
<1>6. Apart(s)
  <2>1. \A k \in 1 .. n : s[k].storage # s[n + 1].storage
    BY <1>3 DEF StoragesOf
  <2>2. QED
    BY <1>3, <1>4, <2>1 DEF Apart
<1>7. StoragesOf(s) = StoragesOf(stack) \cup {e.storage}
  <2>1. n + 1 \in 1 .. n + 1 /\ \A k \in 1 .. n : k \in 1 .. n + 1
    BY <1>1
  <2>2. QED
    BY <1>3, <1>4, <2>1 DEF StoragesOf
<1>8. QED
  BY <1>2, <1>5, <1>6, <1>7

LEMMA PopKeeps ==
    ASSUME NEW stack \in Seq(Entries), stack # <<>>, EntriesAgree(stack), Apart(stack)
    PROVE  /\ EntriesAgree(Popped(stack)) /\ Apart(Popped(stack))
           /\ StoragesOf(stack) = StoragesOf(Popped(stack)) \cup {Top(stack).storage}
           /\ Top(stack).storage \notin StoragesOf(Popped(stack))
           /\ Top(stack).changes # <<>> /\ Once(Top(stack).changes)
<1>1. PICK n \in Nat : n = Len(stack) - 1
  BY Poppable
<1>2. PICK s \in Seq(Entries) : s = Popped(stack)
  BY Poppable
<1>3. PICK e \in Entries : e = Top(stack)
  BY Poppable
<1>4. /\ DOMAIN stack = 1 .. n + 1 /\ DOMAIN s = 1 .. n
      /\ stack[n + 1] = e /\ \A k \in 1 .. n : s[k] = stack[k] /\ k \in 1 .. n + 1 /\ k # n + 1
      /\ n + 1 \in 1 .. n + 1
  BY <1>1, <1>2, <1>3, Poppable DEF Top
<1>5. \A k \in 1 .. n + 1 : k = n + 1 \/ k \in 1 .. n
  BY <1>1
<1>6. EntriesAgree(s) /\ Apart(s)
  BY <1>4 DEF EntriesAgree, Apart
<1>7. e.storage \notin StoragesOf(s)
  BY <1>4 DEF Apart, StoragesOf
<1>8. StoragesOf(stack) = StoragesOf(s) \cup {e.storage}
  BY <1>4, <1>5 DEF StoragesOf
<1>9. e.changes # <<>> /\ Once(e.changes)
  BY <1>4 DEF EntriesAgree
<1>10. QED
  BY <1>2, <1>3, <1>6, <1>7, <1>8, <1>9

LEMMA CountIsNat ==
    ASSUME NEW stack \in Seq(Entries)
    PROVE  BlockCount(stack) \in Nat /\ Len(stack) \in Nat
<1>1. PICK n \in Nat : n = Len(stack)
  OBVIOUS
<1>2. PICK g : g = [k \in 1 .. n |-> Len(stack[k].changes)]
  OBVIOUS
<1>3. PICK f : IsSum(f, g, n) /\ BlockCount(stack) = f[n]
  BY <1>1, <1>2, BlockCountIs
<1>4. QED
  BY <1>1, <1>3 DEF IsSum

LEMMA MoveKeeps ==
    ASSUME NEW u, NEW r, StacksAgree(u, r), u # <<>>
    PROVE  /\ StacksAgree(Popped(u), Append(r, Top(u)))
           /\ StoragesOf(Popped(u)) \cup StoragesOf(Append(r, Top(u)))
                = StoragesOf(u) \cup StoragesOf(r)
<1>1. u \in Seq(Entries) /\ r \in Seq(Entries)
  BY DEF StacksAgree
<1>2. PICK p \in Seq(Entries) : p = Popped(u)
  BY <1>1, Poppable
<1>3. PICK e \in Entries : e = Top(u)
  BY <1>1, Poppable
<1>4. /\ EntriesAgree(p) /\ Apart(p) /\ StoragesOf(u) = StoragesOf(p) \cup {e.storage}
      /\ e.storage \notin StoragesOf(p) /\ e.changes # <<>> /\ Once(e.changes)
  BY <1>1, <1>2, <1>3, PopKeeps DEF StacksAgree
<1>5. PICK a \in Seq(Entries) : a = Append(r, e)
  BY <1>1, Appended
<1>6. e.storage \notin StoragesOf(r)
  BY <1>4 DEF StacksAgree
<1>7. /\ EntriesAgree(a) /\ Apart(a) /\ StoragesOf(a) = StoragesOf(r) \cup {e.storage}
  BY <1>1, <1>4, <1>5, <1>6, AppendKeeps DEF StacksAgree
<1>8. StoragesOf(p) \cap StoragesOf(a) = {}
  BY <1>4, <1>7 DEF StacksAgree
<1>9. Len(p) + Len(a) = Len(u) + Len(r) /\ Len(u) \in Nat /\ Len(r) \in Nat
  <2>1. Len(p) = Len(u) - 1
    BY <1>1, <1>2, Poppable
  <2>2. Len(a) = Len(r) + 1
    BY <1>1, <1>5, Appended
  <2>3. QED
    BY <1>1, <2>1, <2>2
<1>10. BlockCount(p) + BlockCount(a) = BlockCount(u) + BlockCount(r)
  <2>1. BlockCount(u) = BlockCount(p) + Len(e.changes)
    BY <1>1, <1>2, <1>3, CountPopped
  <2>2. BlockCount(a) = BlockCount(r) + Len(e.changes)
    BY <1>1, <1>5, CountAppended
  <2>3. BlockCount(p) \in Nat /\ BlockCount(r) \in Nat /\ Len(e.changes) \in Nat
    BY <1>1, <1>2, <1>3, CountIsNat, CountAppended
  <2>4. QED
    BY <2>1, <2>2, <2>3
<1>11. StacksAgree(p, a)
  BY <1>4, <1>7, <1>8, <1>9, <1>10 DEF StacksAgree
<1>12. StoragesOf(p) \cup StoragesOf(a) = StoragesOf(u) \cup StoragesOf(r)
  BY <1>4, <1>7
<1>13. QED
  BY <1>2, <1>3, <1>5, <1>11, <1>12

LEMMA StacksSwap ==
    ASSUME NEW u, NEW r, StacksAgree(u, r)
    PROVE  StacksAgree(r, u)
<1>1. u \in Seq(Entries) /\ r \in Seq(Entries)
  BY DEF StacksAgree
<1>2. /\ BlockCount(u) \in Nat /\ BlockCount(r) \in Nat
      /\ Len(u) \in Nat /\ Len(r) \in Nat
  BY <1>1, CountIsNat
<1>3. Len(u) + Len(r) = Len(r) + Len(u) /\ BlockCount(u) + BlockCount(r) = BlockCount(r) + BlockCount(u)
  BY <1>2
<1>4. QED
  BY <1>3 DEF StacksAgree

\* A redo evicts nothing: the entry it moves was counted already.
LEMMA WithinFits ==
    ASSUME NEW u, NEW r, StacksAgree(u, r)
    PROVE  ~Overfull(u)
<1>1. u \in Seq(Entries) /\ r \in Seq(Entries)
  BY DEF StacksAgree
<1>2. /\ BlockCount(u) \in Nat /\ BlockCount(r) \in Nat
      /\ Len(u) \in Nat /\ Len(r) \in Nat
  BY <1>1, CountIsNat
<1>3. MaxOperations \in Nat /\ MaxTotalBlocks \in Nat
  BY HistoryAssumption
<1>4. /\ Len(u) + Len(r) <= MaxOperations
      /\ BlockCount(u) + BlockCount(r) <= MaxTotalBlocks \/ Len(u) + Len(r) <= 1
  BY DEF StacksAgree
<1>5. QED
  BY <1>2, <1>3, <1>4 DEF Overfull

LEMMA EmptyStack ==
    /\ <<>> \in Seq(Entries) /\ Len(<<>>) = 0 /\ BlockCount(<<>>) = 0
    /\ EntriesAgree(<<>>) /\ Apart(<<>>) /\ StoragesOf(<<>>) = {}
<1>1. <<>> \in Seq(Entries) /\ Len(<<>>) = 0
  BY EmptySeq
<1>2. PICK g : g = [k \in 1 .. 0 |-> Len(<<>>[k].changes)]
  OBVIOUS
<1>3. \E f : IsSum(f, g, 0) /\ BlockCount(<<>>) = f[0]
  BY <1>1, <1>2, BlockCountIs
<1>4. BlockCount(<<>>) = 0
  BY <1>3 DEF IsSum, AddsUp
<1>5. QED
  BY <1>1, <1>4 DEF EntriesAgree, Apart, StoragesOf

\* A new entry is pushed, old ones are evicted, and nothing is left to redo.
LEMMA PushKeeps ==
    ASSUME NEW u \in Seq(Entries), NEW e \in Entries, EntriesAgree(u), Apart(u),
           e.storage \notin StoragesOf(u), e.changes # <<>>, Once(e.changes)
    PROVE  LET s == NewestFitting(Append(u, e)) IN
             /\ StacksAgree(s, <<>>) /\ s # <<>> /\ Top(s) = e
             /\ StoragesOf(s) \subseteq StoragesOf(u) \cup {e.storage}
             /\ StoragesOf(Append(u, e)) = StoragesOf(u) \cup {e.storage}
<1>1. PICK p \in Seq(Entries) : p = Append(u, e)
  BY Appended
<1>2. Len(p) = Len(u) + 1 /\ p[Len(u) + 1] = e /\ Len(u) \in Nat
  BY <1>1, Appended
<1>3. p # <<>> /\ Top(p) = e
  BY <1>2, EmptyStack DEF Top
<1>4. EntriesAgree(p) /\ Apart(p) /\ StoragesOf(p) = StoragesOf(u) \cup {e.storage}
  BY <1>1, AppendKeeps
<1>5. PICK s : s = NewestFitting(p)
  OBVIOUS
<1>6. /\ s \in Seq(Entries) /\ s # <<>> /\ Top(s) = e
      /\ StoragesOf(s) \subseteq StoragesOf(p)
      /\ EntriesAgree(s) /\ Apart(s)
      /\ Len(s) <= MaxOperations
      /\ BlockCount(s) <= MaxTotalBlocks \/ Len(s) <= 1
      /\ BlockCount(s) \in Nat
  BY <1>1, <1>3, <1>4, <1>5, FitKeeps
<1>7. Len(s) + Len(<<>>) = Len(s) /\ BlockCount(s) + BlockCount(<<>>) = BlockCount(s)
  <2>1. Len(s) \in Nat
    BY <1>6
  <2>2. QED
    BY <2>1, <1>6, EmptyStack
<1>8. StacksAgree(s, <<>>)
  BY <1>6, <1>7, EmptyStack DEF StacksAgree
<1>9. QED
  BY <1>1, <1>4, <1>5, <1>6, <1>8

----------------------------------------------------------------------------
(* One record of a job. *)

Worlds == [Positions -> Blocks]

\* Taking the captured changes back, and applying them again.
LEMMA RewoundIs ==
    ASSUME NEW j \in Jobs, NEW w \in Worlds, NEW e, e.changes = j.changes,
           Tracked(j, w), Once(j.changes)
    PROVE  Rewound(w, e) = j.start /\ Reapplied(j.start, e) = w
<1>1. j.start \in Worlds
  BY DEF Jobs, Worlds
<1>2. ASSUME NEW p \in Positions
      PROVE  Rewound(w, e)[p] = j.start[p] /\ Reapplied(j.start, e)[p] = w[p]
  <2>1. CASE \E k \in DOMAIN j.changes : j.changes[k].at = p
    <3>1. PICK k \in DOMAIN j.changes : /\ j.changes[k].at = p
                                        /\ j.changes[k].before = j.start[p]
                                        /\ j.changes[k].after = w[p]
      BY <2>1 DEF Tracked
    <3>2. \A l \in DOMAIN j.changes : j.changes[l].at = p => l = k
      BY <3>1 DEF Once
    <3>3. (CHOOSE l \in DOMAIN j.changes : j.changes[l].at = p) = k
      BY <3>1, <3>2
    <3>4. QED
      BY <2>1, <3>1, <3>3 DEF Rewound, Reapplied
  <2>2. CASE ~ \E k \in DOMAIN j.changes : j.changes[k].at = p
    <3>1. w[p] = j.start[p]
      BY <2>2 DEF Tracked
    <3>2. QED
      BY <2>2, <3>1 DEF Rewound, Reapplied
  <2>3. QED
    BY <2>1, <2>2
<1>3. Rewound(w, e) = [p \in Positions |-> Rewound(w, e)[p]]
  BY DEF Rewound
<1>4. Reapplied(j.start, e) = [p \in Positions |-> Reapplied(j.start, e)[p]]
  BY DEF Reapplied
<1>5. j.start = [p \in Positions |-> j.start[p]] /\ w = [p \in Positions |-> w[p]]
  BY <1>1 DEF Worlds
<1>6. QED
  BY <1>2, <1>3, <1>4, <1>5

\* Job k comes of job j by a record that left world w.
Follows(j, k, w) ==
    /\ k \in Jobs /\ w \in Worlds
    /\ k.op = j.op /\ k.plan = j.plan /\ k.start = j.start /\ k.cursor = j.cursor + 1
    /\ k.storage = j.storage \/ (k.storage = NoStorage /\ j.capturing)
    /\ JobAgrees(k, w)

LEMMA JobFields ==
    ASSUME NEW j \in Jobs
    PROVE  /\ j.op \in Operations /\ j.plan \in Seq(Records) /\ j.cursor \in Nat /\ j.failed \in Nat
           /\ j.capturing \in BOOLEAN /\ j.changes \in Seq(Changes)
           /\ j.storage \in Storages \cup {NoStorage} /\ j.start \in Worlds
BY DEF Jobs, Worlds

LEMMA DropFields ==
    ASSUME NEW j \in Jobs, NEW k, k = WithoutHistory(j)
    PROVE  /\ k \in Jobs /\ k.changes = <<>>
           /\ k.capturing = FALSE /\ k.storage = NoStorage
           /\ k.op = j.op /\ k.plan = j.plan /\ k.start = j.start
           /\ k.cursor = j.cursor /\ k.failed = j.failed /\ k.missing = j.missing
           /\ k.adapted = j.adapted /\ k.loose = j.loose
BY EmptySeq DEF WithoutHistory, Jobs

\* Job c has one record more behind it than job j, and is otherwise, but for what it
\* counts, the same.
Moves(j, c) ==
    /\ c \in Jobs /\ c.cursor = j.cursor + 1
    /\ c.op = j.op /\ c.plan = j.plan /\ c.start = j.start /\ c.capturing = j.capturing
    /\ c.changes = j.changes /\ c.storage = j.storage

\* The record of cursor + 1 leaves block b at its position, and job c.
Puts(j, w0, at, b, w, c) ==
    /\ j \in Jobs /\ w0 \in Worlds /\ JobAgrees(j, w0) /\ j.cursor < Len(j.plan)
    /\ at = j.plan[j.cursor + 1].at /\ b \in Blocks /\ w = [w0 EXCEPT ![at] = b]
    /\ Moves(j, c)

\* What holds however the record went.
Lands(j, w0, at, b, w, c) ==
    /\ at \in Positions /\ w \in Worlds
    /\ w[at] = b /\ \A p \in Positions : p # at => w[p] = w0[p]
    /\ c.cursor <= Len(c.plan) /\ Once(c.plan)
    /\ \A p \in Positions : Ahead(c, p) => w[p] = c.start[p]
    /\ w0[at] = j.start[at]
    /\ j.capturing =>
         \A k \in DOMAIN j.changes :
           /\ \E i \in 1 .. c.cursor : j.changes[k].at = c.plan[i].at
           /\ j.changes[k].at # at /\ w[j.changes[k].at] = w0[j.changes[k].at]

LEMMA RecordFacts ==
    ASSUME NEW j, NEW w0, NEW at, NEW b, NEW w, NEW c, Puts(j, w0, at, b, w, c)
    PROVE  Lands(j, w0, at, b, w, c)
<1>0. /\ j \in Jobs /\ w0 \in Worlds /\ JobAgrees(j, w0) /\ j.cursor < Len(j.plan)
      /\ at = j.plan[j.cursor + 1].at /\ b \in Blocks /\ w = [w0 EXCEPT ![at] = b]
      /\ Moves(j, c)
  BY DEF Puts
<1>1. PICK n \in Nat : n = j.cursor
  BY <1>0, JobFields
<1>2. PICK plan \in Seq(Records) : plan = j.plan
  BY <1>0, JobFields
<1>3. /\ n + 1 \in 1 .. Len(plan) /\ DOMAIN plan = 1 .. Len(plan) /\ Len(plan) \in Nat
      /\ \A i \in 1 .. n : i \in DOMAIN plan /\ i # n + 1 /\ i \in 1 .. n + 1
  BY <1>0, <1>1, <1>2
<1>4. \A i \in DOMAIN plan : plan[i] \in Records
  BY <1>2, <1>3
<1>5. plan[n + 1] \in Records /\ at = plan[n + 1].at
  BY <1>0, <1>1, <1>2, <1>3, <1>4
<1>6. at \in Positions
  BY <1>5 DEF Records
<1>7. w \in Worlds /\ w[at] = b /\ \A p \in Positions : p # at => w[p] = w0[p]
  BY <1>0, <1>6 DEF Worlds
<1>8. Once(plan) /\ \A i \in 1 .. n : plan[i].at # at /\ plan[i].at \in Positions
  <2>1. Once(plan)
    BY <1>0, <1>2 DEF JobAgrees
  <2>2. ASSUME NEW i \in 1 .. n PROVE plan[i].at # at /\ plan[i].at \in Positions
    <3>1. i \in DOMAIN plan /\ i # n + 1 /\ n + 1 \in DOMAIN plan
      BY <1>3
    <3>2. plan[i] \in Records
      BY <1>4, <3>1
    <3>3. QED
      BY <2>1, <1>5, <3>1, <3>2 DEF Once, Records
  <2>3. QED
    BY <2>1, <2>2
<1>9. c.cursor = n + 1 /\ c.plan = plan
  BY <1>0, <1>1, <1>2 DEF Moves
<1>11. ASSUME j.capturing, NEW k \in DOMAIN j.changes
       PROVE  /\ \E i \in 1 .. n + 1 : j.changes[k].at = plan[i].at
              /\ j.changes[k].at # at
  <2>1. PICK i \in 1 .. n : j.changes[k].at = plan[i].at
    BY <1>0, <1>1, <1>2, <1>11 DEF JobAgrees
  <2>2. QED
    BY <1>3, <1>8, <2>1
<1>12. n + 1 <= Len(plan)
  BY <1>3
<1>13. ASSUME NEW p \in Positions, \A i \in 1 .. n : plan[i].at # p
       PROVE  w0[p] = j.start[p]
  BY <1>0, <1>1, <1>2, <1>13 DEF JobAgrees, Ahead
<1>14. ASSUME NEW p \in Positions, Ahead(c, p)
       PROVE  w[p] = c.start[p]
  <2>1. \A i \in 1 .. n : plan[i].at # p
    BY <1>3, <1>9, <1>14 DEF Ahead
  <2>2. p # at
    BY <1>1, <1>5, <1>9, <1>14 DEF Ahead
  <2>3. c.start = j.start
    BY <1>0 DEF Moves
  <2>4. QED
    BY <1>7, <1>13, <2>1, <2>2, <2>3
<1>15. w0[at] = j.start[at]
  BY <1>6, <1>8, <1>13
<1>16. ASSUME j.capturing, NEW k \in DOMAIN j.changes
       PROVE  w[j.changes[k].at] = w0[j.changes[k].at]
  <2>1. PICK i \in 1 .. n : j.changes[k].at = plan[i].at
    BY <1>0, <1>1, <1>2, <1>16 DEF JobAgrees
  <2>2. QED
    BY <1>7, <1>8, <2>1
<1>17. c.cursor <= Len(c.plan) /\ Once(c.plan)
  BY <1>8, <1>9, <1>12
<1>19. j.capturing =>
         \A k \in DOMAIN j.changes :
           /\ \E i \in 1 .. c.cursor : j.changes[k].at = c.plan[i].at
           /\ j.changes[k].at # at /\ w[j.changes[k].at] = w0[j.changes[k].at]
  BY <1>9, <1>11, <1>16
<1>20. QED
  BY <1>6, <1>7, <1>14, <1>15, <1>17, <1>19 DEF Lands

LEMMA TrackedSame ==
    ASSUME NEW j, NEW c, NEW w0, NEW w, c.changes = j.changes, c.start = j.start,
           \A p \in Positions : w[p] = w0[p], Tracked(j, w0)
    PROVE  Tracked(c, w)
BY DEF Tracked

\* The change need not be captured: there is none, or the job captures no longer, or an
\* error came late.
LEMMA UncapturedFollows ==
    ASSUME NEW j, NEW w0, NEW at, NEW b, NEW w, NEW c, Puts(j, w0, at, b, w, c),
           ~j.capturing \/ b = w0[at] \/ LateErrors
    PROVE  Follows(j, c, w)
<1>0. /\ j \in Jobs /\ w0 \in Worlds /\ JobAgrees(j, w0) /\ j.cursor < Len(j.plan)
      /\ at = j.plan[j.cursor + 1].at /\ b \in Blocks /\ w = [w0 EXCEPT ![at] = b]
      /\ Moves(j, c)
  BY DEF Puts
<1>1. /\ c \in Jobs /\ c.cursor = j.cursor + 1
      /\ c.op = j.op /\ c.plan = j.plan /\ c.start = j.start /\ c.capturing = j.capturing
      /\ c.changes = j.changes /\ c.storage = j.storage
  BY <1>0 DEF Moves
<1>l. Lands(j, w0, at, b, w, c)
  BY RecordFacts
<1>2. /\ at \in Positions /\ w \in Worlds
      /\ w[at] = b /\ \A p \in Positions : p # at => w[p] = w0[p]
      /\ c.cursor <= Len(c.plan) /\ Once(c.plan)
        /\ \A p \in Positions : Ahead(c, p) => w[p] = c.start[p]
      /\ j.capturing =>
           \A k \in DOMAIN j.changes :
             /\ \E i \in 1 .. c.cursor : j.changes[k].at = c.plan[i].at
             /\ j.changes[k].at # at /\ w[j.changes[k].at] = w0[j.changes[k].at]
  BY <1>l DEF Lands
<1>3. ASSUME c.capturing, ~LateErrors PROVE Tracked(c, w)
  <2>1. Tracked(j, w0) /\ b = w0[at]
    BY <1>0, <1>1, <1>3 DEF JobAgrees
  <2>2. \A p \in Positions : w[p] = w0[p]
    BY <1>2, <2>1
  <2>3. c.changes = j.changes /\ c.start = j.start
    BY <1>1
  <2>4. QED
    BY <2>1, <2>2, <2>3, TrackedSame
<1>4. JobAgrees(c, w)
  <2>1. c.capturing =>
         /\ c.op = "paste" /\ c.storage # NoStorage
         /\ Once(c.changes) /\ Recorded(c, w)
         /\ \A k \in DOMAIN c.changes : \E i \in 1 .. c.cursor : c.changes[k].at = c.plan[i].at
    <3>1. j.capturing => j.op = "paste" /\ j.storage # NoStorage /\ Once(j.changes)
      BY <1>0 DEF JobAgrees
    <3>2. c.capturing =>
            \A k \in DOMAIN c.changes : \E i \in 1 .. c.cursor : c.changes[k].at = c.plan[i].at
      BY <1>1, <1>2
    <3>3. c.capturing => Recorded(c, w)
      <4>1. j.capturing => Recorded(j, w0)
        BY <1>0 DEF JobAgrees
      <4>2. QED
        BY <1>1, <1>2, <4>1 DEF Recorded
    <3>4. QED
      BY <1>1, <3>1, <3>2, <3>3
  <2>2. /\ ~c.capturing => c.changes = <<>>
        /\ (~c.capturing /\ c.op = "paste") => c.storage = NoStorage
    BY <1>0, <1>1 DEF JobAgrees
  <2>3. QED
    BY <1>2, <1>3, <2>1, <2>2 DEF JobAgrees
<1>5. QED
  BY <1>1, <1>2, <1>4 DEF Follows

\* One change more, at a position that had none.
LEMMA OnceGrows ==
    ASSUME NEW n \in Nat, NEW old, NEW list, NEW at,
           DOMAIN old = 1 .. n, DOMAIN list = 1 .. n + 1,
           \A k \in 1 .. n : list[k] = old[k] /\ old[k].at # at,
           list[n + 1].at = at, Once(old)
    PROVE  Once(list)
<1>1. SUFFICES ASSUME NEW k \in 1 .. n + 1, NEW l \in 1 .. n + 1, list[k].at = list[l].at
               PROVE  k = l
  BY DEF Once
<1>2. CASE k \in 1 .. n /\ l \in 1 .. n
  <2>1. list[k] = old[k] /\ list[l] = old[l]
    BY <1>2
  <2>2. QED
    BY <1>1, <1>2, <2>1 DEF Once
<1>3. CASE k = n + 1 \/ l = n + 1
  <2>1. k \notin 1 .. n => k = n + 1
    OBVIOUS
  <2>2. l \notin 1 .. n => l = n + 1
    OBVIOUS
  <2>3. k \in 1 .. n => list[k].at # at
    OBVIOUS
  <2>4. l \in 1 .. n => list[l].at # at
    OBVIOUS
  <2>5. QED
    BY <1>1, <1>3, <2>1, <2>2, <2>3, <2>4
<1>4. QED
  BY <1>2, <1>3

\* The change is captured.
LEMMA CapturedFollows ==
    ASSUME NEW j, NEW w0, NEW at, NEW b, NEW w, NEW c, Puts(j, w0, at, b, w, c),
           j.capturing
    PROVE  Follows(j, [c EXCEPT !.changes = Append(@, [at |-> at, before |-> w0[at], after |-> b])], w)
<1>0. /\ j \in Jobs /\ w0 \in Worlds /\ JobAgrees(j, w0) /\ j.cursor < Len(j.plan)
      /\ at = j.plan[j.cursor + 1].at /\ b \in Blocks /\ w = [w0 EXCEPT ![at] = b]
      /\ Moves(j, c)
  BY DEF Puts
<1>1. /\ c \in Jobs /\ c.cursor = j.cursor + 1
      /\ c.op = j.op /\ c.plan = j.plan /\ c.start = j.start /\ c.capturing = j.capturing
      /\ c.changes = j.changes /\ c.storage = j.storage
  BY <1>0 DEF Moves
<1>l. Lands(j, w0, at, b, w, c)
  BY RecordFacts
<1>2. /\ at \in Positions /\ w \in Worlds
      /\ w[at] = b /\ \A p \in Positions : p # at => w[p] = w0[p]
      /\ c.cursor <= Len(c.plan) /\ Once(c.plan)
        /\ \A p \in Positions : Ahead(c, p) => w[p] = c.start[p]
      /\ w0[at] = j.start[at]
      /\ \A k \in DOMAIN j.changes :
             /\ \E i \in 1 .. c.cursor : j.changes[k].at = c.plan[i].at
             /\ j.changes[k].at # at /\ w[j.changes[k].at] = w0[j.changes[k].at]
  BY <1>l DEF Lands
<1>3. PICK change \in Changes : change = [at |-> at, before |-> w0[at], after |-> b]
  BY <1>0, <1>2 DEF Changes, Worlds
<1>4. PICK n \in Nat : n = Len(j.changes)
  BY JobFields
<1>5. PICK list \in Seq(Changes) : list = Append(j.changes, change)
  BY <1>0, JobFields, AppendProperties
<1>6. /\ DOMAIN list = 1 .. n + 1 /\ DOMAIN j.changes = 1 .. n
      /\ list[n + 1] = change /\ \A k \in 1 .. n : list[k] = j.changes[k]
      /\ change.at = at /\ change.before = w0[at] /\ change.after = b
      /\ n + 1 \in 1 .. n + 1
  <2>1. j.changes \in Seq(Changes)
    BY <1>0, JobFields
  <2>2. /\ Len(list) = n + 1 /\ list[n + 1] = change
        /\ \A k \in 1 .. n : list[k] = j.changes[k]
    BY <2>1, <1>4, <1>5, AppendProperties
  <2>3. DOMAIN list = 1 .. n + 1 /\ DOMAIN j.changes = 1 .. n
    BY <2>1, <2>2, <1>4, <1>5
  <2>4. QED
    BY <1>3, <1>4, <2>2, <2>3
<1>7. \A k \in 1 .. n + 1 : k = n + 1 \/ k \in 1 .. n
  BY <1>4
<1>8. \A k \in 1 .. n : k \in 1 .. n + 1 /\ k # n + 1
  BY <1>4
<1>9. PICK k : k = [c EXCEPT !.changes = list]
  OBVIOUS
<1>10. /\ k \in Jobs /\ k.changes = list /\ k.capturing = j.capturing /\ k.storage = j.storage
       /\ k.op = j.op /\ k.plan = j.plan /\ k.start = j.start
       /\ k.cursor = c.cursor
  BY <1>1, <1>9 DEF Jobs
<1>11. Once(list)
  <2>1. Once(j.changes)
    BY <1>0 DEF JobAgrees
  <2>2. /\ \A i \in 1 .. n : list[i] = j.changes[i] /\ j.changes[i].at # at
        /\ list[n + 1].at = at
    BY <1>2, <1>6
  <2>3. QED
    BY <1>6, <2>1, <2>2, OnceGrows
<1>12. \A i \in DOMAIN list : \E l \in 1 .. c.cursor : list[i].at = c.plan[l].at
  <2>1. j.cursor + 1 \in 1 .. c.cursor
    BY <1>0, <1>1, JobFields
  <2>2. list[n + 1].at = c.plan[j.cursor + 1].at
    BY <1>0, <1>1, <1>6
  <2>3. QED
    BY <1>2, <1>6, <1>7, <2>1, <2>2
<1>13. ASSUME ~LateErrors PROVE Tracked(k, w)
  <2>1. Tracked(j, w0)
    BY <1>0, <1>13 DEF JobAgrees
  <2>2. w0[at] = j.start[at]
    BY <1>2
  <2>3. ASSUME NEW p \in Positions
        PROVE  \/ \E i \in DOMAIN list : /\ list[i].at = p
                                         /\ list[i].before = j.start[p]
                                         /\ list[i].after = w[p]
               \/ w[p] = j.start[p] /\ \A i \in DOMAIN list : list[i].at # p
    <3>1. /\ \A i \in 1 .. n : list[i] = j.changes[i] /\ j.changes[i].at # at
          /\ list[n + 1].at = at /\ list[n + 1].before = j.start[at]
          /\ list[n + 1].after = w[at]
      BY <1>2, <1>6, <2>2
    <3>2. p # at => w[p] = w0[p]
      BY <1>2
    <3>3. \/ \E i \in DOMAIN j.changes : /\ j.changes[i].at = p
                                         /\ j.changes[i].before = j.start[p]
                                         /\ j.changes[i].after = w0[p]
          \/ w0[p] = j.start[p] /\ \A i \in DOMAIN j.changes : j.changes[i].at # p
      BY <2>1 DEF Tracked
    <3>4. CASE p = at
      <4>1. n + 1 \in DOMAIN list
        BY <1>6
      <4>2. QED
        BY <3>1, <3>4, <4>1
    <3>5. CASE p # at /\ \E i \in DOMAIN j.changes : /\ j.changes[i].at = p
                                                     /\ j.changes[i].before = j.start[p]
                                                     /\ j.changes[i].after = w0[p]
      <4>1. PICK i \in 1 .. n : /\ j.changes[i].at = p
                                /\ j.changes[i].before = j.start[p]
                                /\ j.changes[i].after = w0[p]
        BY <1>6, <3>5
      <4>2. i \in DOMAIN list /\ list[i] = j.changes[i]
        BY <1>6, <1>8, <3>1
      <4>3. QED
        BY <3>2, <3>5, <4>1, <4>2
    <3>6. CASE p # at /\ w0[p] = j.start[p] /\ \A i \in DOMAIN j.changes : j.changes[i].at # p
      <4>1. \A i \in 1 .. n : list[i].at # p
        BY <1>6, <3>1, <3>6
      <4>2. \A i \in DOMAIN list : list[i].at # p
        BY <1>6, <1>7, <3>1, <3>6, <4>1
      <4>3. QED
        BY <3>2, <3>6, <4>2
    <3>7. QED
      BY <3>3, <3>4, <3>5, <3>6
  <2>4. QED
    BY <1>10, <2>3 DEF Tracked
<1>14. JobAgrees(k, w)
  <2>1. k.op = "paste" /\ k.storage # NoStorage /\ k.capturing
    BY <1>0, <1>10 DEF JobAgrees
  <2>2. Once(k.changes) /\ \A i \in DOMAIN k.changes : \E l \in 1 .. k.cursor : k.changes[i].at = k.plan[l].at
    BY <1>1, <1>10, <1>11, <1>12
  <2>3. k.cursor <= Len(k.plan) /\ Once(k.plan)
    BY <1>1, <1>2, <1>10
  <2>4. \A p \in Positions : Ahead(k, p) => w[p] = k.start[p]
    BY <1>1, <1>2, <1>10 DEF Ahead
  <2>5. Recorded(k, w)
    <3>1. Recorded(j, w0)
      BY <1>0 DEF JobAgrees
    <3>2. \A i \in 1 .. n : /\ list[i].before = j.start[list[i].at]
                            /\ list[i].after = w[list[i].at]
      BY <1>2, <1>6, <3>1 DEF Recorded
    <3>3. /\ list[n + 1].before = j.start[list[n + 1].at]
          /\ list[n + 1].after = w[list[n + 1].at]
      BY <1>2, <1>6
    <3>4. QED
      BY <1>6, <1>7, <1>10, <3>2, <3>3 DEF Recorded
  <2>6. QED
    BY <1>13, <2>1, <2>2, <2>3, <2>4, <2>5 DEF JobAgrees
<1>15. Follows(j, k, w)
  BY <1>1, <1>2, <1>10, <1>14 DEF Follows
<1>16. k = [c EXCEPT !.changes = Append(@, [at |-> at, before |-> w0[at], after |-> b])]
  BY <1>1, <1>3, <1>5, <1>9
<1>17. QED
  BY <1>15, <1>16

\* Capturing stops: the record buffers of the job overflowed.
LEMMA DroppedFollows ==
    ASSUME NEW j, NEW w0, NEW at, NEW b, NEW w, NEW c, Puts(j, w0, at, b, w, c),
           j.capturing
    PROVE  Follows(j, WithoutHistory(c), w)
<1>0. /\ j \in Jobs /\ w0 \in Worlds /\ JobAgrees(j, w0) /\ j.cursor < Len(j.plan)
      /\ at = j.plan[j.cursor + 1].at /\ b \in Blocks /\ w = [w0 EXCEPT ![at] = b]
      /\ Moves(j, c)
  BY DEF Puts
<1>1. /\ c \in Jobs /\ c.cursor = j.cursor + 1
      /\ c.op = j.op /\ c.plan = j.plan /\ c.start = j.start
      /\ c.changes = j.changes
  BY <1>0 DEF Moves
<1>2. PICK k : k = WithoutHistory(c)
  OBVIOUS
<1>3. /\ k \in Jobs /\ k.changes = <<>> /\ k.capturing = FALSE /\ k.storage = NoStorage
      /\ k.op = j.op /\ k.plan = j.plan /\ k.start = j.start
      /\ k.cursor = c.cursor
  BY <1>1, <1>2, DropFields
<1>l. Lands(j, w0, at, b, w, c)
  BY RecordFacts
<1>4. /\ w \in Worlds
      /\ c.cursor <= Len(c.plan) /\ Once(c.plan)
        /\ \A p \in Positions : Ahead(c, p) => w[p] = c.start[p]
  BY <1>l DEF Lands
<1>5. JobAgrees(k, w)
  BY <1>1, <1>3, <1>4 DEF JobAgrees, Ahead
<1>6. QED
  BY <1>1, <1>2, <1>3, <1>4, <1>5 DEF Follows

----------------------------------------------------------------------------
(* What a job counts. *)

\* Job m is job j with more records counted as missing or adapted.
Marks(j, m) ==
    /\ m \in Jobs /\ m.op = j.op /\ m.plan = j.plan /\ m.cursor = j.cursor /\ m.failed = j.failed
    /\ m.missing >= j.missing /\ m.adapted >= j.adapted /\ Honest(m)
    /\ m.capturing = j.capturing /\ m.changes = j.changes /\ m.storage = j.storage
    /\ m.start = j.start

\* The record that left block b where "to" was wanted is counted by job n after job j.
Counts(j, n, to, b, verify) ==
    /\ Short(j) <= Short(n) /\ Reported(j) <= Reported(n) /\ Honest(n)
    /\ verify => /\ b \in Matching(TypeOnly(to)) \/ Short(j) < Short(n)
                 /\ b \in Matching(to) \/ Reported(n) > 0

LEMMA CountFields ==
    ASSUME NEW j \in Jobs
    PROVE  /\ j.failed \in Nat /\ j.missing \in Nat /\ j.adapted \in Nat /\ j.loose \subseteq Types
           /\ Short(j) \in Nat /\ Reported(j) \in Nat
<1>1. j.failed \in Nat /\ j.missing \in Nat /\ j.adapted \in Nat /\ j.loose \subseteq Types
  BY DEF Jobs
<1>2. QED
  BY <1>1 DEF Short, Reported

LEMMA MarkedSame ==
    ASSUME NEW j \in Jobs, Honest(j)
    PROVE  Marks(j, j)
<1>1. j.missing \in Nat /\ j.adapted \in Nat
  BY CountFields
<1>2. j.missing >= j.missing /\ j.adapted >= j.adapted
  BY <1>1
<1>3. QED
  BY <1>2 DEF Marks

LEMMA MarkedMissing ==
    ASSUME NEW j \in Jobs, Honest(j)
    PROVE  Marks(j, Missed(j)) /\ Missed(j).missing > j.missing
<1>1. j.missing \in Nat /\ j.adapted \in Nat
  BY CountFields
<1>2. PICK m : m = Missed(j)
  OBVIOUS
<1>3. /\ j.missing + 1 \in Nat /\ j.missing + 1 > j.missing /\ j.missing + 1 >= j.missing
      /\ j.adapted >= j.adapted
  BY <1>1
<1>4. /\ m \in Jobs /\ m.op = j.op /\ m.plan = j.plan /\ m.cursor = j.cursor
      /\ m.failed = j.failed /\ m.missing = j.missing + 1 /\ m.adapted = j.adapted
      /\ m.loose = j.loose /\ m.capturing = j.capturing /\ m.changes = j.changes
      /\ m.storage = j.storage /\ m.start = j.start
  BY <1>2, <1>3 DEF Missed, Jobs
<1>5. Honest(m)
  BY <1>4 DEF Honest
<1>6. QED
  BY <1>2, <1>3, <1>4, <1>5 DEF Marks

LEMMA MarkedAdapted ==
    ASSUME NEW j \in Jobs
    PROVE  Marks(j, Adapted(j)) /\ Adapted(j).adapted > 0
<1>1. j.missing \in Nat /\ j.adapted \in Nat
  BY CountFields
<1>2. PICK m : m = Adapted(j)
  OBVIOUS
<1>3. /\ j.adapted + 1 \in Nat /\ j.adapted + 1 > 0 /\ j.adapted + 1 >= j.adapted
      /\ j.missing >= j.missing
  BY <1>1
<1>4. /\ m \in Jobs /\ m.op = j.op /\ m.plan = j.plan /\ m.cursor = j.cursor
      /\ m.failed = j.failed /\ m.missing = j.missing /\ m.adapted = j.adapted + 1
      /\ m.capturing = j.capturing /\ m.changes = j.changes
      /\ m.storage = j.storage /\ m.start = j.start
  BY <1>2, <1>3 DEF Adapted, Jobs
<1>5. Honest(m)
  BY <1>3, <1>4 DEF Honest
<1>6. QED
  BY <1>2, <1>3, <1>4, <1>5 DEF Marks

LEMMA MarkedLoosened ==
    ASSUME NEW j \in Jobs, NEW type \in Types
    PROVE  Marks(j, Loosened(j, type)) /\ Loosened(j, type).adapted > 0
<1>1. PICK a : a = Adapted(j)
  OBVIOUS
<1>2. PICK m : m = Loosened(j, type)
  OBVIOUS
<1>3. Marks(j, a) /\ a.adapted > 0 /\ a \in Jobs
  BY <1>1, MarkedAdapted DEF Marks
<1>4. a.loose \cup {type} \in SUBSET Types
  BY <1>3, CountFields
<1>5. m = [a EXCEPT !.loose = a.loose \cup {type}]
  BY <1>1, <1>2 DEF Loosened
<1>6. /\ m \in Jobs /\ m.op = a.op /\ m.plan = a.plan /\ m.cursor = a.cursor
      /\ m.failed = a.failed /\ m.missing = a.missing /\ m.adapted = a.adapted
      /\ m.capturing = a.capturing /\ m.changes = a.changes
      /\ m.storage = a.storage /\ m.start = a.start
  BY <1>3, <1>4, <1>5 DEF Jobs
<1>7. Honest(m)
  BY <1>3, <1>6 DEF Honest
<1>8. QED
  BY <1>2, <1>3, <1>6, <1>7 DEF Marks

\* What is owed for a record that is, or is not, found as it should be.
Owed(j, m, verified, to, b) ==
    /\ Marks(j, m)
    /\ verified => b \in Matching(TypeOnly(to)) \/ m.missing > j.missing
    /\ verified => b \in Matching(to) \/ m.missing > j.missing \/ m.adapted > 0

LEMMA EndCounts ==
    ASSUME NEW j \in Jobs, NEW m, NEW verified, NEW to, NEW b,
           Owed(j, m, verified, to, b), NEW n \in Ends(m, verified)
    PROVE  Moves(j, n) /\ Counts(j, n, to, b, config.verify)
<1>1. Marks(j, m) /\ m \in Jobs
  BY DEF Owed, Marks
<1>2. /\ j.failed \in Nat /\ j.missing \in Nat /\ j.adapted \in Nat /\ j.cursor \in Nat
      /\ m.failed \in Nat /\ m.missing \in Nat /\ m.adapted \in Nat
  BY <1>1, CountFields, JobFields
<1>3. CASE n = Failed(m)
  <2>1. m.cursor + 1 \in Nat /\ m.failed + 1 \in Nat
    BY <1>1, <1>2, JobFields
  <2>2. /\ n \in Jobs /\ n.op = m.op /\ n.plan = m.plan /\ n.cursor = m.cursor + 1
        /\ n.failed = m.failed + 1 /\ n.missing = m.missing /\ n.adapted = m.adapted
        /\ n.loose = m.loose /\ n.capturing = m.capturing /\ n.changes = m.changes
        /\ n.storage = m.storage /\ n.start = m.start
    BY <1>1, <1>3, <2>1 DEF Failed, Jobs
  <2>3. Moves(j, n)
    BY <1>1, <2>2 DEF Moves, Marks
  <2>4. Honest(n)
    BY <1>1, <2>2 DEF Honest, Marks
  <2>5. n.failed = j.failed + 1 /\ n.missing >= j.missing /\ n.adapted >= j.adapted
    BY <1>1, <2>2 DEF Marks
  <2>6. Short(j) < Short(n) /\ Short(j) <= Short(n) /\ Reported(j) <= Reported(n) /\ Reported(n) > 0
    BY <1>2, <2>2, <2>5 DEF Short, Reported
  <2>7. QED
    BY <2>3, <2>4, <2>6 DEF Counts
<1>4. CASE n = Written(m) /\ (verified \/ ~config.verify)
  <2>1. m.cursor + 1 \in Nat
    BY <1>1, JobFields
  <2>2. /\ n \in Jobs /\ n.op = m.op /\ n.plan = m.plan /\ n.cursor = m.cursor + 1
        /\ n.failed = m.failed /\ n.missing = m.missing /\ n.adapted = m.adapted
        /\ n.loose = m.loose /\ n.capturing = m.capturing /\ n.changes = m.changes
        /\ n.storage = m.storage /\ n.start = m.start
    BY <1>1, <1>4, <2>1 DEF Written, Jobs
  <2>3. Moves(j, n)
    BY <1>1, <2>2 DEF Moves, Marks
  <2>4. Honest(n)
    BY <1>1, <2>2 DEF Honest, Marks
  <2>5. n.failed = j.failed /\ n.missing >= j.missing /\ n.adapted >= j.adapted
    BY <1>1, <2>2 DEF Marks
  <2>6. Short(j) <= Short(n) /\ Reported(j) <= Reported(n)
    BY <1>2, <2>2, <2>5 DEF Short, Reported
  <2>7. m.missing > j.missing => Short(j) < Short(n) /\ Reported(n) > 0
    BY <1>2, <2>2, <2>5 DEF Short, Reported
  <2>8. m.adapted > 0 => Reported(n) > 0
    BY <1>2, <2>2, <2>5 DEF Reported
  <2>9. ASSUME config.verify
        PROVE  /\ b \in Matching(TypeOnly(to)) \/ Short(j) < Short(n)
               /\ b \in Matching(to) \/ Reported(n) > 0
    BY <1>4, <2>7, <2>8, <2>9 DEF Owed
  <2>10. QED
    BY <2>3, <2>4, <2>6, <2>9 DEF Counts
<1>5. QED
  BY <1>3, <1>4 DEF Ends

\* What a record that wants "to" is taken to want.
Target(j, to, w) ==
    /\ w \in Wanted /\ TypeOnly(w) = TypeOnly(to) /\ TypeOnly(to) \in Types
    /\ w = to \/ j.adapted > 0

LEMMA TargetsAre ==
    ASSUME NEW j \in Jobs, Honest(j), NEW to \in Wanted, NEW w \in Targets(j, to)
    PROVE  Target(j, to, w)
<1>1. PICK type : type = TypeOnly(to)
  OBVIOUS
<1>2. type \in Types
  BY <1>1, HistoryAssumption DEF TypeOnly, Wanted
<1>3. TypeOnly(type) = type /\ type \in Wanted
  BY <1>2 DEF TypeOnly, Wanted
<1>4. w = to \/ (w = type /\ type \in j.loose)
  BY <1>1 DEF Targets
<1>5. type \in j.loose => j.adapted > 0
  BY DEF Honest
<1>6. QED
  BY <1>1, <1>2, <1>3, <1>4, <1>5 DEF Target

LEMMA TypeMatches ==
    ASSUME NEW w \in Wanted, NEW b \in Blocks
    PROVE  /\ b \in Matching(w) => b \in Matching(TypeOnly(w))
           /\ w \in Blocks /\ ShapeOf[b] = ShapeOf[w] => b \in Matching(TypeOnly(w))
<1>1. /\ w \in Types => TypeOnly(w) = w
      /\ w \in Blocks \cup Shapes => TypeOnly(w) = TypeOf[w]
  BY HistoryAssumption DEF TypeOnly
<1>2. ShapeOf[b] \in Shapes /\ TypeOf[b] \in Types /\ TypeOf[ShapeOf[b]] = TypeOf[b]
  BY HistoryAssumption
<1>3. w \in Blocks => ShapeOf[w] \in Shapes /\ TypeOf[ShapeOf[w]] = TypeOf[w]
  BY HistoryAssumption
<1>4. b \in Matching(TypeOf[b])
  BY DEF Matching
<1>5. ASSUME b \in Matching(w) PROVE TypeOnly(w) = TypeOf[b]
  <2>1. w = b \/ w = ShapeOf[b] \/ w = TypeOf[b]
    BY <1>5 DEF Matching
  <2>2. QED
    BY <1>1, <1>2, <2>1
<1>6. ASSUME w \in Blocks, ShapeOf[b] = ShapeOf[w] PROVE TypeOnly(w) = TypeOf[b]
  BY <1>1, <1>2, <1>3, <1>6
<1>7. QED
  BY <1>4, <1>5, <1>6

LEMMA CountedIs ==
    ASSUME NEW j \in Jobs, Honest(j), NEW w
    PROVE  /\ Marks(j, Counted(j, w))
           /\ Matching(w) = {} => Counted(j, w).missing > j.missing
           /\ Matching(w) # {} /\ w \in Types => Counted(j, w).adapted > 0
<1>1. CASE Matching(w) = {}
  BY <1>1, MarkedMissing DEF Counted
<1>2. CASE Matching(w) # {} /\ w \in Types
  BY <1>2, MarkedAdapted DEF Counted
<1>3. CASE Matching(w) # {} /\ w \notin Types
  BY <1>3, MarkedSame DEF Counted
<1>4. QED
  BY <1>1, <1>2, <1>3

LEMMA WriteCounts ==
    ASSUME NEW j \in Jobs, Honest(j), NEW to, NEW w, Target(j, to, w),
           NEW b \in Blocks, NEW n \in AfterWrite(j, w, b)
    PROVE  Moves(j, n) /\ Counts(j, n, to, b, config.verify)
<1>1. /\ w \in Wanted /\ TypeOnly(w) = TypeOnly(to) /\ TypeOnly(w) \in Types
      /\ w = to \/ j.adapted > 0
  BY DEF Target
<1>2. /\ b \in Matching(w) => b \in Matching(TypeOnly(to))
      /\ w \in Blocks /\ ShapeOf[b] = ShapeOf[w] => b \in Matching(TypeOnly(to))
  BY <1>1, TypeMatches
<1>3. CASE Matching(w) = {}
  <2>1. PICK m, verified : m = Counted(j, w) /\ n \in Ends(m, verified)
    BY <1>3 DEF AfterWrite
  <2>2. Owed(j, m, verified, to, b)
    BY <1>3, <2>1, CountedIs DEF Owed
  <2>3. QED
    BY <2>1, <2>2, EndCounts
<1>4. CASE Matching(w) # {} /\ w \in Types
  <2>1. PICK m, verified : /\ m = Counted(j, w) /\ verified = (b \in Matching(w))
                           /\ n \in Ends(m, verified)
    BY <1>4 DEF AfterWrite
  <2>2. verified => b \in Matching(TypeOnly(to))
    BY <1>2, <2>1
  <2>3. Marks(j, m) /\ m.adapted > 0
    BY <1>4, <2>1, CountedIs
  <2>4. Owed(j, m, verified, to, b)
    BY <2>2, <2>3 DEF Owed
  <2>5. QED
    BY <2>1, <2>4, EndCounts
<1>5. CASE Matching(w) # {} /\ w \notin Types
  <2>1. w \in Blocks \cup Shapes /\ TypeOf[w] = TypeOnly(to) /\ TypeOf[w] \in Types
    BY <1>1, <1>5 DEF Wanted, TypeOnly
  <2>2. \/ n \in Ends(j, b \in Matching(w))
        \/ n \in Ends(Loosened(j, TypeOf[w]), b \in Matching(TypeOf[w]))
        \/ n = Written(Adapted(j)) /\ w \in Blocks /\ ShapeOf[b] = ShapeOf[w]
    BY <1>5 DEF AfterWrite
  <2>3. CASE n \in Ends(j, b \in Matching(w))
    <3>1. PICK verified : verified = (b \in Matching(w)) /\ n \in Ends(j, verified)
      BY <2>3
    <3>2. verified => b \in Matching(TypeOnly(to)) /\ (b \in Matching(to) \/ j.adapted > 0)
      BY <1>1, <1>2, <3>1
    <3>3. Owed(j, j, verified, to, b)
      BY <3>2, MarkedSame DEF Owed
    <3>4. QED
      BY <3>1, <3>3, EndCounts
  <2>4. CASE n \in Ends(Loosened(j, TypeOf[w]), b \in Matching(TypeOf[w]))
    <3>1. PICK m, verified : /\ m = Loosened(j, TypeOf[w]) /\ verified = (b \in Matching(TypeOf[w]))
                             /\ n \in Ends(m, verified)
      BY <2>4
    <3>2. verified => b \in Matching(TypeOnly(to))
      BY <2>1, <3>1
    <3>3. Marks(j, m) /\ m.adapted > 0
      BY <2>1, <3>1, MarkedLoosened
    <3>4. Owed(j, m, verified, to, b)
      BY <3>2, <3>3 DEF Owed
    <3>5. QED
      BY <3>1, <3>4, EndCounts
  <2>5. CASE n = Written(Adapted(j)) /\ w \in Blocks /\ ShapeOf[b] = ShapeOf[w]
    <3>1. PICK m, verified : m = Adapted(j) /\ verified = TRUE
      OBVIOUS
    <3>2. n \in Ends(m, verified)
      BY <2>5, <3>1 DEF Ends
    <3>3. Marks(j, m) /\ m.adapted > 0
      BY <3>1, MarkedAdapted
    <3>4. Owed(j, m, verified, to, b)
      BY <1>2, <2>5, <3>3 DEF Owed
    <3>5. QED
      BY <3>2, <3>4, EndCounts
  <2>6. QED
    BY <2>2, <2>3, <2>4, <2>5
<1>6. QED
  BY <1>3, <1>4, <1>5

\* A record of job j leaves block b, counted by job n, and result r.
Outcome(j, at, b, n, r) ==
    \/ b = world[at] /\ r = Result(n, world)
    \/ /\ r.world = [world EXCEPT ![at] = b]
       /\ r.job \in Capture(n, at, world[at], b)
    \/ LateErrors /\ r = Result(n, [world EXCEPT ![at] = b])

CountedAs(j, at, to, r) ==
    \E b \in Blocks, n \in Jobs :
      Moves(j, n) /\ Counts(j, n, to, b, config.verify) /\ Outcome(j, at, b, n, r)

LEMMA WriteOutcome ==
    ASSUME NEW j \in Jobs, Honest(j), NEW to, NEW w, Target(j, to, w),
           NEW at, NEW r \in WriteResults(j, at, w)
    PROVE  CountedAs(j, at, to, r)
<1>1. CASE \E b \in Blocks : \E n \in AfterWrite(j, w, b) :
             \E k \in Capture(n, at, world[at], b) : r = Result(k, [world EXCEPT ![at] = b])
  <2>1. PICK b \in Blocks : \E n \in AfterWrite(j, w, b) :
               \E k \in Capture(n, at, world[at], b) : r = Result(k, [world EXCEPT ![at] = b])
    BY <1>1
  <2>2. PICK n \in AfterWrite(j, w, b) :
               \E k \in Capture(n, at, world[at], b) : r = Result(k, [world EXCEPT ![at] = b])
    BY <2>1
  <2>3. Moves(j, n) /\ Counts(j, n, to, b, config.verify)
    BY WriteCounts
  <2>4. Outcome(j, at, b, n, r)
    BY <2>2 DEF Outcome, Result
  <2>5. QED
    BY <2>3, <2>4 DEF CountedAs, Moves
<1>2. CASE LateErrors /\ \E b \in Blocks : r = Result(Failed(Counted(j, w)), [world EXCEPT ![at] = b])
  <2>1. PICK b \in Blocks : r = Result(Failed(Counted(j, w)), [world EXCEPT ![at] = b])
    BY <1>2
  <2>2. PICK m, n, verified : m = Counted(j, w) /\ n = Failed(m) /\ verified = FALSE
    OBVIOUS
  <2>3. n \in Ends(m, verified)
    BY <2>2 DEF Ends
  <2>4. Owed(j, m, verified, to, b)
    BY <2>2, CountedIs DEF Owed
  <2>5. Moves(j, n) /\ Counts(j, n, to, b, config.verify)
    BY <2>3, <2>4, EndCounts
  <2>6. Outcome(j, at, b, n, r)
    BY <1>2, <2>1, <2>2 DEF Outcome
  <2>7. QED
    BY <2>5, <2>6 DEF CountedAs, Moves
<1>3. QED
  <2>1. PICK late : late = IF LateErrors
                             THEN {Result(Failed(Counted(j, w)), [world EXCEPT ![at] = b]) : b \in Blocks}
                             ELSE {}
    OBVIOUS
  <2>2. PICK sets : sets = {UNION {{Result(k, [world EXCEPT ![at] = b]) :
                                      k \in Capture(n, at, world[at], b)} : n \in AfterWrite(j, w, b)} :
                            b \in Blocks}
    OBVIOUS
  <2>3. WriteResults(j, at, w) = (UNION sets) \cup late
    BY <2>1, <2>2 DEF WriteResults
  <2>4. (\E results \in sets : r \in results) \/ r \in late
    BY <2>3
  <2>5. CASE \E results \in sets : r \in results
    <3>1. PICK b \in Blocks : r \in UNION {{Result(k, [world EXCEPT ![at] = b]) :
                                      k \in Capture(n, at, world[at], b)} : n \in AfterWrite(j, w, b)}
      BY <2>2, <2>5
    <3>2. PICK n \in AfterWrite(j, w, b) :
                 r \in {Result(k, [world EXCEPT ![at] = b]) : k \in Capture(n, at, world[at], b)}
      BY <3>1
    <3>3. QED
      BY <1>1, <3>2
  <2>6. CASE r \in late
    BY <1>2, <2>1, <2>6
  <2>7. QED
    BY <2>4, <2>5, <2>6

LEMMA TargetOutcome ==
    ASSUME NEW j \in Jobs, Honest(j), NEW to, NEW w, Target(j, to, w),
           NEW at \in Positions, world \in Worlds, NEW r \in TargetResults(j, at, w)
    PROVE  CountedAs(j, at, to, r)
<1>1. PICK b \in Blocks : b = world[at]
  BY DEF Worlds
<1>2. PICK passed : passed = Written(IF Matching(w) = {} THEN Missed(j) ELSE j)
  OBVIOUS
<1>3. \/ r \in WriteResults(j, at, w)
      \/ Matching(w) = {} /\ r = Result(Failed(Missed(j)), world)
      \/ r = Result(passed, world) /\ (Matching(w) = {} \/ b \in Matching(w))
  BY <1>1, <1>2 DEF TargetResults
<1>4. ASSUME NEW m, NEW verified, NEW n \in Ends(m, verified), Owed(j, m, verified, to, b),
             r = Result(n, world)
      PROVE  CountedAs(j, at, to, r)
  <2>1. Moves(j, n) /\ Counts(j, n, to, b, config.verify)
    BY <1>4, EndCounts
  <2>2. QED
    BY <1>1, <1>4, <2>1 DEF CountedAs, Moves, Outcome
<1>5. CASE r \in WriteResults(j, at, w)
  BY <1>5, WriteOutcome
<1>6. CASE Matching(w) = {} /\ r = Result(Failed(Missed(j)), world)
  <2>1. PICK m, n, verified : m = Missed(j) /\ n = Failed(m) /\ verified = FALSE
    OBVIOUS
  <2>2. n \in Ends(m, verified) /\ Owed(j, m, verified, to, b)
    BY <2>1, MarkedMissing DEF Ends, Owed
  <2>3. QED
    BY <1>4, <1>6, <2>1, <2>2
<1>7. CASE Matching(w) = {} /\ r = Result(passed, world)
  <2>1. PICK m, verified : m = Missed(j) /\ verified = TRUE
    OBVIOUS
  <2>2. passed \in Ends(m, verified) /\ Owed(j, m, verified, to, b)
    BY <1>2, <1>7, <2>1, MarkedMissing DEF Ends, Owed
  <2>3. QED
    BY <1>4, <1>7, <2>2
<1>8. CASE Matching(w) # {} /\ b \in Matching(w) /\ r = Result(passed, world)
  <2>1. PICK verified : verified = TRUE
    OBVIOUS
  <2>2. passed \in Ends(j, verified)
    BY <1>2, <1>8, <2>1 DEF Ends
  <2>3. b \in Matching(TypeOnly(to)) /\ (b \in Matching(to) \/ j.adapted > 0)
    BY <1>8, TypeMatches DEF Target
  <2>4. Owed(j, j, verified, to, b)
    BY <2>3, MarkedSame DEF Owed
  <2>5. QED
    BY <1>4, <1>8, <2>2, <2>4
<1>9. QED
  BY <1>3, <1>5, <1>6, <1>7, <1>8

LEMMA RecordOutcome ==
    ASSUME NEW j \in Jobs, Honest(j), world \in Worlds, j.cursor < Len(j.plan),
           NEW r \in RecordResults(j), NEW record \in Records, record = j.plan[j.cursor + 1]
    PROVE  CountedAs(j, record.at, record.to, r)
<1>1. record.at \in Positions /\ record.to \in Wanted
  BY DEF Records
<1>2. CASE r = Result(Failed(j), world)
  <2>1. PICK n, verified : n = Failed(j) /\ verified = FALSE
    OBVIOUS
  <2>2. PICK b \in Blocks : b = world[record.at]
    BY <1>1 DEF Worlds
  <2>3. n \in Ends(j, verified) /\ Owed(j, j, verified, record.to, b)
    BY <2>1, MarkedSame DEF Ends, Owed
  <2>4. Moves(j, n) /\ Counts(j, n, record.to, b, config.verify)
    BY <2>3, EndCounts
  <2>5. QED
    BY <1>2, <2>1, <2>2, <2>4 DEF CountedAs, Moves, Outcome
<1>3. CASE \E w \in Targets(j, record.to) : r \in TargetResults(j, record.at, w)
  <2>1. PICK w \in Targets(j, record.to) : r \in TargetResults(j, record.at, w)
    BY <1>3
  <2>2. Target(j, record.to, w)
    BY <1>1, TargetsAre
  <2>3. QED
    BY <1>1, <2>1, <2>2, TargetOutcome
<1>4. QED
  <2>1. PICK sets : sets = {TargetResults(j, record.at, w) : w \in Targets(j, record.to)}
    OBVIOUS
  <2>2. RecordResults(j) = (UNION sets) \cup {Result(Failed(j), world)}
    BY <2>1 DEF RecordResults
  <2>3. (\E results \in sets : r \in results) \/ r = Result(Failed(j), world)
    BY <2>2
  <2>4. QED
    BY <1>2, <1>3, <2>1, <2>3

LEMMA TruthKept ==
    ASSUME NEW j, NEW w0, NEW at, NEW b, NEW w, NEW c, Puts(j, w0, at, b, w, c),
           NEW to, to = j.plan[j.cursor + 1].to, NEW verify,
           Truthful(j, w0, verify), Counts(j, c, to, b, verify)
    PROVE  Truthful(c, w, verify)
<1>1. /\ j \in Jobs /\ c \in Jobs /\ w0 \in Worlds /\ j.cursor < Len(j.plan) /\ Once(j.plan)
      /\ at = j.plan[j.cursor + 1].at /\ w = [w0 EXCEPT ![at] = b]
      /\ c.cursor = j.cursor + 1 /\ c.plan = j.plan
  BY DEF Puts, Moves, JobAgrees
<1>2. PICK n \in Nat : n = j.cursor
  BY <1>1, JobFields
<1>3. PICK plan \in Seq(Records) : plan = j.plan
  BY <1>1, JobFields
<1>4. /\ n + 1 \in DOMAIN plan
      /\ \A i \in 1 .. n : i \in DOMAIN plan /\ i # n + 1 /\ i \in 1 .. n + 1
      /\ \A i \in 1 .. n + 1 : i = n + 1 \/ i \in 1 .. n
  BY <1>1, <1>2, <1>3
<1>5. at \in Positions /\ at = plan[n + 1].at /\ to = plan[n + 1].to
  <2>1. plan[n + 1] \in Records
    BY <1>4
  <2>2. QED
    BY <1>1, <1>2, <1>3, <2>1 DEF Records
<1>6. w[at] = b /\ \A p \in Positions : p # at => w[p] = w0[p]
  BY <1>1, <1>5 DEF Worlds
<1>7. ASSUME NEW i \in 1 .. n PROVE w[plan[i].at] = w0[plan[i].at]
  <2>1. plan[i] \in Records /\ i \in DOMAIN plan
    BY <1>4
  <2>2. plan[i].at \in Positions
    BY <2>1 DEF Records
  <2>3. plan[i].at # at
    BY <1>1, <1>3, <1>4, <1>5, <2>1 DEF Once
  <2>4. QED
    BY <1>6, <2>2, <2>3
<1>8. ASSUME verify PROVE Cardinality(WrongTypes(c, w)) <= Short(c)
  <2>1. PICK old : old = WrongTypes(j, w0)
    OBVIOUS
  <2>2. PICK new : new = WrongTypes(c, w)
    OBVIOUS
  <2>3. old \subseteq 1 .. n /\ IsFiniteSet(1 .. n)
    <3>1. old \subseteq 1 .. n
      BY <1>2, <2>1 DEF WrongTypes
    <3>2. PICK one \in Int, top \in Int : one = 1 /\ top = n
      OBVIOUS
    <3>3. IsFiniteSet(one .. top)
      BY FS_Interval
    <3>4. QED
      BY <3>1, <3>2, <3>3
  <2>4. IsFiniteSet(old) /\ Cardinality(old) \in Nat
    BY <2>3, FS_Subset, FS_CardinalityType
  <2>5. ASSUME NEW i \in new, i # n + 1 PROVE i \in old
    <3>1. i \in 1 .. n + 1 /\ w[plan[i].at] \notin Matching(TypeOnly(plan[i].to))
      BY <1>1, <1>2, <1>3, <2>2 DEF WrongTypes
    <3>2. i \in 1 .. n
      BY <1>4, <2>5, <3>1
    <3>3. w0[plan[i].at] \notin Matching(TypeOnly(plan[i].to))
      BY <1>7, <3>1, <3>2
    <3>4. QED
      BY <1>2, <1>3, <2>1, <3>2, <3>3 DEF WrongTypes
  <2>6. Cardinality(old) <= Short(j) /\ Short(j) \in Nat /\ Short(c) \in Nat /\ Short(j) <= Short(c)
    BY <1>1, <1>8, <2>1, CountFields DEF Truthful, Counts
  <2>7. CASE b \in Matching(TypeOnly(to))
    <3>1. n + 1 \notin new
      BY <1>1, <1>3, <1>5, <1>6, <2>2, <2>7 DEF WrongTypes
    <3>2. new \subseteq old
      BY <2>5, <3>1
    <3>3. Cardinality(new) <= Cardinality(old) /\ Cardinality(new) \in Nat
      BY <2>4, <3>2, FS_Subset, FS_CardinalityType
    <3>4. QED
      BY <2>2, <2>4, <2>6, <3>3
  <2>8. CASE Short(j) < Short(c)
    <3>1. PICK more : more = old \cup {n + 1}
      OBVIOUS
    <3>2. IsFiniteSet(more) /\ Cardinality(more) <= Cardinality(old) + 1
      <4>1. PICK x : x = n + 1
        OBVIOUS
      <4>2. /\ IsFiniteSet(old \cup {x})
            /\ Cardinality(old \cup {x}) \in {Cardinality(old), Cardinality(old) + 1}
        BY <2>4, FS_AddElement
      <4>3. more = old \cup {x}
        BY <3>1, <4>1
      <4>4. PICK size \in Nat : size = Cardinality(old)
        BY <2>4
      <4>5. IsFiniteSet(more) /\ Cardinality(more) \in {size, size + 1}
        BY <4>2, <4>3, <4>4
      <4>6. QED
        BY <4>4, <4>5
    <3>3. new \subseteq more
      BY <2>5, <3>1
    <3>4. Cardinality(new) <= Cardinality(more) /\ Cardinality(new) \in Nat /\ Cardinality(more) \in Nat
      BY <3>2, <3>3, FS_Subset, FS_CardinalityType
    <3>5. QED
      BY <2>2, <2>4, <2>6, <2>8, <3>2, <3>4
  <2>9. QED
    BY <1>8, <2>7, <2>8 DEF Counts
<1>9. ASSUME verify, Reported(c) = 0 PROVE Right(c, w)
  <2>1. Reported(j) \in Nat /\ Reported(c) \in Nat /\ Reported(j) <= Reported(c)
    BY <1>1, CountFields DEF Counts
  <2>2. Reported(j) = 0 /\ ~(Reported(c) > 0)
    BY <1>9, <2>1
  <2>3. b \in Matching(to)
    BY <1>9, <2>2 DEF Counts
  <2>4. \A i \in 1 .. n : w0[plan[i].at] \in Matching(plan[i].to)
    BY <1>2, <1>3, <1>9, <2>2 DEF Truthful, Right
  <2>5. ASSUME NEW i \in 1 .. n + 1 PROVE w[plan[i].at] \in Matching(plan[i].to)
    <3>1. CASE i = n + 1
      BY <1>5, <1>6, <2>3, <3>1
    <3>2. CASE i \in 1 .. n
      BY <1>7, <2>4, <3>2
    <3>3. QED
      BY <1>4, <3>1, <3>2
  <2>6. QED
    BY <1>1, <1>2, <1>3, <2>5 DEF Right
<1>10. QED
  BY <1>8, <1>9 DEF Truthful, Counts

LEMMA CaptureKeepsTruth ==
    ASSUME NEW n \in Jobs, NEW at, NEW before, NEW after, NEW k \in Capture(n, at, before, after),
           NEW w, NEW verify, Truthful(n, w, verify)
    PROVE  Truthful(k, w, verify)
<1>1. /\ k.plan = n.plan /\ k.cursor = n.cursor /\ k.failed = n.failed
      /\ k.missing = n.missing /\ k.adapted = n.adapted /\ k.loose = n.loose
  <2>1. CASE k = n
    BY <2>1
  <2>2. CASE k = [n EXCEPT !.changes = Append(@, [at |-> at, before |-> before, after |-> after])]
    BY <2>2 DEF Jobs
  <2>3. CASE k = WithoutHistory(n)
    BY <2>3, DropFields
  <2>4. QED
    BY <2>1, <2>2, <2>3 DEF Capture
<1>2. Honest(k)
  BY <1>1 DEF Truthful, Honest
<1>3. Short(k) = Short(n) /\ Reported(k) = Reported(n) /\ WrongTypes(k, w) = WrongTypes(n, w)
  BY <1>1 DEF Short, Reported, WrongTypes
<1>4. Right(n, w) => Right(k, w)
  BY <1>1 DEF Right
<1>5. QED
  BY <1>2, <1>3, <1>4 DEF Truthful

LEMMA RecordFollows ==
    ASSUME NEW j \in Jobs, world \in Worlds, JobAgrees(j, world), j.cursor < Len(j.plan),
           Truthful(j, world, config.verify), NEW r \in RecordResults(j)
    PROVE  Follows(j, r.job, r.world) /\ Truthful(r.job, r.world, config.verify)
<1>1. PICK record \in Records : record = j.plan[j.cursor + 1]
  BY JobFields
<1>2. PICK at \in Positions : at = record.at
  BY DEF Records
<1>3. PICK to : to = record.to /\ to = j.plan[j.cursor + 1].to
  BY <1>1
<1>4. CountedAs(j, at, to, r)
  BY <1>1, <1>2, <1>3, RecordOutcome DEF Truthful
<1>5. PICK b \in Blocks, n \in Jobs :
         Moves(j, n) /\ Counts(j, n, to, b, config.verify) /\ Outcome(j, at, b, n, r)
  BY <1>4 DEF CountedAs
<1>6. PICK w : w = [world EXCEPT ![at] = b]
  OBVIOUS
<1>7. Puts(j, world, at, b, w, n)
  BY <1>1, <1>2, <1>5, <1>6 DEF Puts
<1>8. Truthful(n, w, config.verify)
  BY <1>3, <1>5, <1>7, TruthKept
<1>9. n.capturing = j.capturing
  BY <1>5 DEF Moves
<1>10. CASE b = world[at] /\ r = Result(n, world)
  <2>1. w = world
    BY <1>6, <1>10 DEF Worlds
  <2>2. Follows(j, n, w)
    BY <1>7, <1>10, UncapturedFollows
  <2>3. QED
    BY <1>8, <1>10, <2>1, <2>2 DEF Result
<1>11. CASE r.world = w /\ r.job \in Capture(n, at, world[at], b)
  <2>1. PICK before, k : before = world[at] /\ k = r.job
    OBVIOUS
  <2>2. Truthful(k, w, config.verify)
    BY <1>8, <1>11, <2>1, CaptureKeepsTruth
  <2>3. CASE ~j.capturing \/ before = b
    <3>1. k = n
      BY <1>9, <1>11, <2>1, <2>3 DEF Capture
    <3>2. Follows(j, n, w)
      BY <1>7, <2>1, <2>3, UncapturedFollows
    <3>3. QED
      BY <1>11, <2>1, <2>2, <3>1, <3>2
  <2>4. CASE j.capturing /\ before # b
    <3>1. \/ k = [n EXCEPT !.changes = Append(@, [at |-> at, before |-> before, after |-> b])]
          \/ k = WithoutHistory(n)
      BY <1>9, <1>11, <2>1, <2>4 DEF Capture
    <3>2. Follows(j, [n EXCEPT !.changes = Append(@, [at |-> at, before |-> before, after |-> b])], w)
      BY <1>7, <2>1, <2>4, CapturedFollows
    <3>3. Follows(j, WithoutHistory(n), w)
      BY <1>7, <2>4, DroppedFollows
    <3>4. QED
      BY <1>11, <2>1, <2>2, <3>1, <3>2, <3>3
  <2>5. QED
    BY <2>3, <2>4
<1>12. CASE LateErrors /\ r = Result(n, w)
  <2>1. Follows(j, n, w)
    BY <1>7, <1>12, UncapturedFollows
  <2>2. QED
    BY <1>8, <1>12, <2>1 DEF Result
<1>13. QED
  BY <1>5, <1>6, <1>10, <1>11, <1>12 DEF Outcome

----------------------------------------------------------------------------
(* The end of a job. *)

\* The job ends as j, and the stacks and the storages are settled.
Settles(j) ==
    /\ StacksAgree(undo', redo')
    /\ open' = StoragesOf(undo') \cup StoragesOf(redo')
    /\ j.op = "paste" /\ HasHistory(j) => undo' # <<>> /\ Top(undo').changes = j.changes

\* The job as it was, or after one more record.
Continues(j, w) ==
    /\ j \in Jobs /\ w \in Worlds /\ JobAgrees(j, w) /\ j.op = job.op
    /\ j.storage = job.storage \/ (j.storage = NoStorage /\ job.capturing)

LEMMA StoragesTyped ==
    ASSUME NEW stack \in Seq(Entries)
    PROVE  StoragesOf(stack) \subseteq Storages /\ NoStorage \notin StoragesOf(stack)
<1>1. \A k \in DOMAIN stack : stack[k] \in Entries
  OBVIOUS
<1>2. StoragesOf(stack) \subseteq Storages
  BY <1>1 DEF StoragesOf, Entries
<1>3. NoStorage \notin Storages
  BY DEF NoStorage, Storages
<1>4. QED
  BY <1>2, <1>3

LEMMA KeepHistorySettles ==
    ASSUME IInv, job # NoJob, job.op = "paste", NEW j, NEW w, Continues(j, w), KeepHistory(j)
    PROVE  Settles(j)
<1>1. /\ StacksAgree(undo, redo) /\ JobAgrees(job, world)
      /\ job.storage \notin StoragesOf(undo) \cup StoragesOf(redo)
      /\ open = StoragesOf(undo) \cup StoragesOf(redo) \cup ({job.storage} \ {NoStorage})
  BY DEF IInv, OpenAgrees, JobRuns, StorageAgrees
<1>2. undo \in Seq(Entries) /\ redo \in Seq(Entries)
  BY <1>1 DEF StacksAgree
<1>3. NoStorage \notin StoragesOf(undo) \cup StoragesOf(redo)
  BY <1>2, StoragesTyped
<1>4. CASE HasHistory(j)
  <2>1. /\ j \in Jobs /\ j.op = "paste" /\ j.storage # NoStorage /\ j.storage = job.storage
        /\ Once(j.changes) /\ j.changes # <<>>
    BY <1>4 DEF Continues, JobAgrees, HasHistory
  <2>2. PICK e \in Entries : e = [storage |-> j.storage, changes |-> j.changes]
    BY <2>1, JobFields DEF Entries
  <2>3. e.storage = j.storage /\ e.changes = j.changes
    BY <2>2
  <2>4. PICK pushed : pushed = Append(undo, e)
    OBVIOUS
  <2>5. /\ undo' = NewestFitting(pushed) /\ redo' = <<>>
        /\ open' = open \ ((StoragesOf(pushed) \ StoragesOf(undo')) \cup StoragesOf(redo))
    BY <1>4, <2>2, <2>4 DEF KeepHistory
  <2>6. EntriesAgree(undo) /\ Apart(undo) /\ StoragesOf(undo) \cap StoragesOf(redo) = {}
    BY <1>1 DEF StacksAgree
  <2>7. e.storage \notin StoragesOf(undo) /\ e.changes # <<>> /\ Once(e.changes)
    BY <1>1, <2>1, <2>3
  <2>8. PICK s : s = NewestFitting(pushed)
    OBVIOUS
  <2>9. /\ StacksAgree(s, <<>>) /\ s # <<>> /\ Top(s) = e
        /\ StoragesOf(s) \subseteq StoragesOf(undo) \cup {e.storage}
        /\ StoragesOf(pushed) = StoragesOf(undo) \cup {e.storage}
    BY <1>2, <2>4, <2>6, <2>7, <2>8, PushKeeps
  <2>10. open' = StoragesOf(s)
    BY <1>1, <2>1, <2>3, <2>5, <2>6, <2>8, <2>9
  <2>11. QED
    BY <2>3, <2>5, <2>8, <2>9, <2>10, EmptyStack DEF Settles
<1>5. CASE ~HasHistory(j)
  <2>1. open' = open \ {job.storage} /\ undo' = undo /\ redo' = redo
    BY <1>5 DEF KeepHistory
  <2>2. open' = StoragesOf(undo) \cup StoragesOf(redo)
    BY <1>1, <1>3, <2>1
  <2>3. QED
    BY <1>1, <1>5, <2>1, <2>2 DEF Settles
<1>6. QED
  BY <1>4, <1>5

\* A running undo or redo owns no storage: the one it reads is an entry's.
LEMMA HistoryJobOpens ==
    ASSUME IInv, job # NoJob, job.op # "paste"
    PROVE  /\ StacksAgree(undo, redo)
           /\ open = StoragesOf(undo) \cup StoragesOf(redo)
           /\ job.op = "undo" \/ job.op = "redo"
           /\ job.op = "undo" => undo # <<>>
           /\ job.op = "redo" => redo # <<>>
<1>1. /\ StacksAgree(undo, redo) /\ StorageAgrees(job) /\ job \in Jobs
      /\ open = StoragesOf(undo) \cup StoragesOf(redo) \cup ({job.storage} \ {NoStorage})
  BY DEF IInv, TypeOK, OpenAgrees, JobRuns
<1>2. job.op = "undo" \/ job.op = "redo"
  BY <1>1, JobFields DEF Operations
<1>3. ASSUME NEW stack \in Seq(Entries), stack # <<>>
      PROVE  Top(stack).storage \in StoragesOf(stack)
  <2>1. Len(stack) \in DOMAIN stack
    BY <1>3, Poppable
  <2>2. QED
    BY <2>1 DEF Top, StoragesOf
<1>4. undo \in Seq(Entries) /\ redo \in Seq(Entries)
  BY <1>1 DEF StacksAgree
<1>5. job.storage \in StoragesOf(undo) \cup StoragesOf(redo)
  BY <1>1, <1>2, <1>3, <1>4 DEF StorageAgrees
<1>6. QED
  BY <1>1, <1>2, <1>5 DEF StorageAgrees

LEMMA StopSettles ==
    ASSUME IInv, job # NoJob, NEW j, NEW w, Continues(j, w), Stop(j)
    PROVE  Settles(j)
<1>1. j.op = job.op
  BY DEF Continues
<1>2. CASE job.op = "paste"
  BY <1>1, <1>2, KeepHistorySettles DEF Stop
<1>3. CASE job.op # "paste"
  BY <1>1, <1>3, HistoryJobOpens DEF Stop, Settles
<1>4. QED
  BY <1>2, <1>3

LEMMA CompleteSettles ==
    ASSUME IInv, job # NoJob, NEW j, NEW w, Continues(j, w),
           CompletePaste(j) \/ CompleteUndo(j) \/ CompleteRedo(j)
    PROVE  Settles(j)
<1>1. j.op = job.op
  BY DEF Continues
<1>2. CASE CompletePaste(j)
  BY <1>1, <1>2, KeepHistorySettles DEF CompletePaste
<1>3. CASE CompleteUndo(j)
  <2>1. /\ StacksAgree(undo, redo) /\ undo # <<>> /\ j.op # "paste"
        /\ open = StoragesOf(undo) \cup StoragesOf(redo)
    BY <1>1, <1>3, HistoryJobOpens DEF CompleteUndo
  <2>2. undo' = Popped(undo) /\ redo' = Append(redo, Top(undo)) /\ open' = open
    BY <1>3 DEF CompleteUndo
  <2>3. QED
    BY <2>1, <2>2, MoveKeeps DEF Settles
<1>4. CASE CompleteRedo(j)
  <2>1. /\ StacksAgree(redo, undo) /\ redo # <<>> /\ j.op # "paste"
        /\ open = StoragesOf(undo) \cup StoragesOf(redo)
    BY <1>1, <1>4, HistoryJobOpens, StacksSwap DEF CompleteRedo
  <2>2. PICK pushed : pushed = Append(undo, Top(redo))
    OBVIOUS
  <2>3. /\ redo' = Popped(redo) /\ undo' = NewestFitting(pushed)
        /\ open' = open \ (StoragesOf(pushed) \ StoragesOf(undo'))
    BY <1>4, <2>2 DEF CompleteRedo
  <2>4. /\ StacksAgree(redo', pushed)
        /\ StoragesOf(redo') \cup StoragesOf(pushed) = StoragesOf(redo) \cup StoragesOf(undo)
    BY <2>1, <2>2, <2>3, MoveKeeps
  <2>5. StacksAgree(pushed, redo')
    BY <2>4, StacksSwap
  <2>6. pushed \in Seq(Entries) /\ pushed # <<>>
    <3>1. undo \in Seq(Entries) /\ Top(redo) \in Entries
      BY <2>1, Poppable DEF StacksAgree
    <3>2. QED
      BY <2>2, <3>1, AppendProperties
  <2>7. undo' = pushed
    BY <2>3, <2>5, <2>6, WithinFits, NewestFittingIs
  <2>8. open' = StoragesOf(undo') \cup StoragesOf(redo')
    BY <2>1, <2>3, <2>4, <2>7
  <2>9. QED
    BY <2>1, <2>5, <2>7, <2>8 DEF Settles
<1>5. QED
  BY <1>2, <1>3, <1>4

LEMMA EndKeepsInvariant ==
    ASSUME IInv, NEW j, NEW w, w = world', Continues(j, w), Settles(j),
           NEW how \in {"completed", "failed"}, Ended(j, how), config' = config,
           Truthful(j, w, config.verify), how = "completed" => Done(j)
    PROVE  IInv'
<1>1. /\ j \in Jobs /\ world' \in Worlds /\ JobAgrees(j, world')
      /\ StacksAgree(undo', redo') /\ open' = StoragesOf(undo') \cup StoragesOf(redo')
      /\ job' = NoJob /\ last' = [job |-> j, how |-> how]
  BY DEF Continues, Settles, Ended
<1>2. last'.job = j /\ last'.how = how
  BY <1>1
<1>3. TypeOK'
  <2>1. undo' \in Seq(Entries) /\ redo' \in Seq(Entries)
    BY <1>1 DEF StacksAgree
  <2>2. open' \subseteq Storages
    BY <1>1, <2>1, StoragesTyped
  <2>3. last' \in [job : Jobs, how : {"completed", "failed"}]
    BY <1>1
  <2>4. config' \in Configs
    BY DEF IInv, TypeOK
  <2>5. intact' \in BOOLEAN
    <3>1. PICK tells : tells = TellsAll(j, how, world')
      OBVIOUS
    <3>2. intact' = (intact /\ tells)
      BY <3>1 DEF Ended
    <3>3. QED
      BY <3>2
  <2>6. QED
    BY <1>1, <2>1, <2>2, <2>3, <2>4, <2>5 DEF TypeOK, Worlds
<1>4. OpenAgrees'
  BY <1>1 DEF OpenAgrees
<1>5. JobRuns'
  BY <1>1 DEF JobRuns
<1>6. CompletedPlanIsInWorld'
  <2>1. SUFFICES ASSUME how = "completed", config.verify
                 PROVE  /\ Cardinality(WrongTypes(j, w)) <= j.failed + j.missing
                        /\ Reported(j) = 0 =>
                             \A k \in DOMAIN j.plan : w[j.plan[k].at] \in Matching(j.plan[k].to)
    BY <1>2 DEF CompletedPlanIsInWorld
  <2>2. Cardinality(WrongTypes(j, w)) <= j.failed + j.missing /\ (Reported(j) = 0 => Right(j, w))
    BY <2>1 DEF Truthful, Short
  <2>3. \A k \in DOMAIN j.plan : k \in 1 .. j.cursor
    BY <1>1, <2>1, JobFields DEF Done
  <2>4. QED
    BY <2>2, <2>3 DEF Right
<1>7. ASSUME ~LateErrors PROVE PasteIsUndoable'
  <2>1. SUFFICES ASSUME j.op = "paste", j.capturing, world' # j.start
                 PROVE  /\ undo' # <<>>
                        /\ Rewound(world', Top(undo')) = j.start
                        /\ Reapplied(j.start, Top(undo')) = world'
    BY <1>2 DEF PasteIsUndoable
  <2>2. Tracked(j, w) /\ Once(j.changes)
    BY <1>1, <1>7, <2>1 DEF JobAgrees
  <2>3. j.changes # <<>>
    <3>1. SUFFICES ASSUME j.changes = <<>> PROVE FALSE
      OBVIOUS
    <3>2. DOMAIN j.changes = {}
      BY <3>1
    <3>3. \A p \in Positions : world'[p] = j.start[p]
      BY <2>2, <3>2 DEF Tracked
    <3>4. j.start \in Worlds
      BY <1>1, JobFields
    <3>5. QED
      BY <1>1, <2>1, <3>3, <3>4 DEF Worlds
  <2>4. undo' # <<>> /\ Top(undo').changes = j.changes
    BY <2>1, <2>3 DEF HasHistory, Settles
  <2>5. PICK e : e = Top(undo')
    OBVIOUS
  <2>6. Rewound(w, e) = j.start /\ Reapplied(j.start, e) = w
    BY <1>1, <2>2, <2>4, <2>5, RewoundIs
  <2>7. QED
    BY <2>4, <2>5, <2>6
<1>8. StacksAgree(undo, redo)'
  BY <1>1
<1>9. QED
  BY <1>3, <1>4, <1>5, <1>6, <1>7, <1>8 DEF IInv

(* The steps. *)

LEMMA VisitKeepsInvariant ==
    ASSUME IInv, Visit
    PROVE  IInv'
<1>1. /\ job # NoJob /\ job \in Jobs /\ world \in Worlds /\ config' = config
      /\ JobAgrees(job, world) /\ job.cursor < Len(job.plan)
      /\ Truthful(job, world, config.verify)
  BY DEF Visit, IInv, TypeOK, JobRuns, Worlds
<1>2. PICK r \in RecordResults(job), lost \in BOOLEAN :
         LET j == r.job
             fails == lost \/ j.failed > config.maxFailures
         IN /\ world' = r.world
            /\ \/ fails /\ Stop(j) /\ Ended(j, "failed")
               \/ /\ ~fails /\ Done(j)
                  /\ CompletePaste(j) \/ CompleteUndo(j) \/ CompleteRedo(j)
                  /\ Ended(j, "completed")
               \/ /\ ~fails /\ ~Done(j)
                  /\ job' = j
                  /\ open' = open \ ({job.storage} \ {j.storage})
                  /\ UNCHANGED <<undo, redo, last, intact>>
  BY DEF Visit
<1>3. PICK j : j = r.job
  OBVIOUS
<1>4. PICK w : w = world'
  OBVIOUS
<1>5. Follows(job, j, w) /\ Truthful(j, w, config.verify)
  BY <1>1, <1>2, <1>3, <1>4, RecordFollows
<1>6. Continues(j, w)
  BY <1>5 DEF Follows, Continues
<1>7. CASE Stop(j) /\ Ended(j, "failed")
  BY <1>1, <1>4, <1>5, <1>6, <1>7, StopSettles, EndKeepsInvariant
<1>8. CASE /\ Done(j)
           /\ CompletePaste(j) \/ CompleteUndo(j) \/ CompleteRedo(j)
           /\ Ended(j, "completed")
  <2>1. Settles(j)
    BY <1>1, <1>6, <1>8, CompleteSettles
  <2>2. QED
    BY <1>1, <1>4, <1>5, <1>6, <1>8, <2>1, EndKeepsInvariant
<1>9. CASE /\ ~Done(j) /\ job' = j
           /\ open' = open \ ({job.storage} \ {j.storage})
           /\ UNCHANGED <<undo, redo, last, intact>>
  <2>1. /\ StacksAgree(undo, redo) /\ TypeOK /\ last = NoJob /\ StorageAgrees(job)
        /\ open = StoragesOf(undo) \cup StoragesOf(redo) \cup ({job.storage} \ {NoStorage})
    BY <1>1 DEF IInv, OpenAgrees, JobRuns
  <2>2. /\ j \in Jobs /\ j # NoJob /\ world' \in Worlds /\ JobAgrees(j, world')
        /\ j.op = job.op /\ j.plan = job.plan
        /\ j.storage = job.storage \/ (j.storage = NoStorage /\ job.capturing)
        /\ Truthful(j, world', config.verify)
    BY <1>4, <1>5, HistoryAssumption DEF Follows
  <2>3. j.cursor < Len(j.plan)
    BY <1>9, <2>2, JobFields DEF Done
  <2>4. TypeOK'
    <3>1. open' \subseteq Storages
      BY <1>9, <2>1 DEF TypeOK
    <3>2. QED
      BY <1>1, <1>9, <2>1, <2>2, <2>3, <3>1 DEF TypeOK, Worlds
  <2>5. NoStorage \notin StoragesOf(undo) \cup StoragesOf(redo)
    BY <2>1, StoragesTyped DEF StacksAgree
  <2>6. job.capturing => job.op = "paste"
    BY <1>1 DEF JobAgrees
  <2>7. StorageAgrees(j)
    <3>1. CASE j.storage = job.storage
      BY <2>1, <2>2, <3>1 DEF StorageAgrees
    <3>2. CASE j.storage = NoStorage /\ job.capturing
      BY <2>2, <2>5, <2>6, <3>2 DEF StorageAgrees
    <3>3. QED
      BY <2>2, <3>1, <3>2
  <2>8. OpenAgrees'
    <3>1. open' = StoragesOf(undo) \cup StoragesOf(redo) \cup ({j.storage} \ {NoStorage})
      <4>1. CASE j.storage = job.storage
        BY <1>9, <2>1, <4>1
      <4>2. CASE j.storage = NoStorage /\ job.capturing
        BY <1>9, <2>1, <2>2, <2>6, <4>2 DEF StorageAgrees
      <4>3. QED
        BY <2>2, <4>1, <4>2
    <3>2. QED
      BY <1>9, <2>2, <3>1 DEF OpenAgrees
  <2>9. JobRuns'
    BY <1>1, <1>9, <2>1, <2>2, <2>7 DEF JobRuns, StorageAgrees
  <2>10. CompletedPlanIsInWorld' /\ PasteIsUndoable'
    BY <1>9, <2>1 DEF CompletedPlanIsInWorld, PasteIsUndoable
  <2>11. StacksAgree(undo, redo)'
    BY <1>9, <2>1
  <2>12. QED
    BY <2>4, <2>8, <2>9, <2>10, <2>11 DEF IInv
<1>10. QED
  BY <1>2, <1>3, <1>7, <1>8, <1>9

LEMMA StopKeepsInvariant ==
    ASSUME IInv, job # NoJob, NEW how \in {"failed"}, Stop(job), Ended(job, how),
           world' = world, config' = config
    PROVE  IInv'
<1>1. /\ job \in Jobs /\ world' \in Worlds /\ JobAgrees(job, world')
      /\ Truthful(job, world', config.verify)
  BY DEF IInv, TypeOK, JobRuns, Worlds
<1>2. PICK j : j = job
  OBVIOUS
<1>3. PICK w : w = world'
  OBVIOUS
<1>4. Continues(j, w)
  BY <1>1, <1>2, <1>3 DEF Continues
<1>5. Stop(j) /\ Ended(j, how)
  BY <1>2
<1>6. Settles(j)
  BY <1>4, <1>5, StopSettles
<1>7. QED
  BY <1>1, <1>2, <1>3, <1>4, <1>5, <1>6, EndKeepsInvariant

\* A job begins with the world as it is.
Begun == job' # NoJob /\ job'.start = world /\ UNCHANGED <<undo, redo, intact>>

\* A job begins: nothing is written yet, and the stacks are as they were.
LEMMA BeginKeepsInvariant ==
    ASSUME IInv, NEW j \in Jobs, job' = j, j.cursor = 0, Len(j.plan) > 0, Once(j.plan),
           j.start = world, j.changes = <<>>, j.loose = {}, Short(j) = 0,
           j.capturing => j.op = "paste" /\ j.storage # NoStorage,
           (~j.capturing /\ j.op = "paste") => j.storage = NoStorage,
           StorageAgrees(j), last' = NoJob,
           open' = StoragesOf(undo) \cup StoragesOf(redo) \cup ({j.storage} \ {NoStorage}),
           UNCHANGED <<world, config, undo, redo, intact>>
    PROVE  IInv' /\ Begun
<1>1. TypeOK /\ StacksAgree(undo, redo) /\ undo \in Seq(Entries) /\ redo \in Seq(Entries)
  BY DEF IInv, StacksAgree
<1>2. j # NoJob
  BY HistoryAssumption
<1>3. TypeOK'
  <2>1. open' \subseteq Storages
    BY <1>1, StoragesTyped, JobFields
  <2>2. QED
    BY <1>1, <2>1 DEF TypeOK
<1>4. OpenAgrees'
  BY <1>2 DEF OpenAgrees
<1>5. JobAgrees(j, world')
  <2>1. DOMAIN j.changes = {}
    OBVIOUS
  <2>2. Tracked(j, world')
    BY <2>1 DEF Tracked
  <2>3. Once(j.changes)
    BY <2>1 DEF Once
  <2>4. 0 <= Len(j.plan) /\ 1 .. j.cursor = {}
    OBVIOUS
  <2>5. Recorded(j, world')
    BY <2>1 DEF Recorded
  <2>6. QED
    BY <2>1, <2>2, <2>3, <2>4, <2>5 DEF JobAgrees
<1>t. Truthful(j, world', config.verify)
  <2>1. 1 .. j.cursor = {}
    OBVIOUS
  <2>2. WrongTypes(j, world') = {}
    BY <2>1 DEF WrongTypes
  <2>3. Cardinality(WrongTypes(j, world')) <= Short(j)
    BY <2>2, FS_EmptySet
  <2>4. QED
    BY <2>1, <2>3 DEF Truthful, Honest, Right
<1>6. JobRuns'
  BY <1>5, <1>t DEF JobRuns, StorageAgrees
<1>7. CompletedPlanIsInWorld' /\ PasteIsUndoable'
  BY DEF CompletedPlanIsInWorld, PasteIsUndoable
<1>8. StacksAgree(undo, redo)'
  BY <1>1
<1>9. Begun
  BY <1>2 DEF Begun
<1>10. QED
  BY <1>3, <1>4, <1>6, <1>7, <1>8, <1>9 DEF IInv

LEMMA StartPasteKeepsInvariant ==
    ASSUME IInv, NEW plan \in Plans, StartPaste(plan)
    PROVE  IInv' /\ Begun
<1>1. PICK captures : captures = (Len(plan) <= config.maxPerOperation)
  OBVIOUS
<1>2. PICK storage : storage = IF captures THEN FreeStorage ELSE NoStorage
  OBVIOUS
<1>3. PICK j : j = [op |-> "paste", plan |-> plan, cursor |-> 0, failed |-> 0,
                    missing |-> 0, adapted |-> 0, loose |-> {},
                    capturing |-> captures, changes |-> <<>>, storage |-> storage,
                    start |-> world]
  OBVIOUS
<1>4. /\ job = NoJob /\ (captures => open # Storages) /\ job' = j
      /\ open' = IF captures THEN open \cup {storage} ELSE open
      /\ last' = NoJob
      /\ UNCHANGED <<world, config, undo, redo, intact>>
  BY <1>1, <1>2, <1>3 DEF StartPaste
<1>5. /\ plan \in Seq(Records) /\ Len(plan) > 0 /\ Once(plan)
  BY HistoryAssumption DEF Once
<1>6. /\ open = StoragesOf(undo) \cup StoragesOf(redo) /\ open \subseteq Storages
      /\ world \in [Positions -> Blocks]
  BY <1>4 DEF IInv, OpenAgrees, TypeOK
<1>7. captures \in BOOLEAN
  BY <1>1
<1>8. captures => storage \in Storages \ open
  BY <1>2, <1>4, <1>6 DEF FreeStorage
<1>9. storage \in Storages \cup {NoStorage}
  BY <1>2, <1>7, <1>8
<1>10. <<>> \in Seq(Changes) /\ 0 \in Nat /\ "paste" \in Operations
  BY EmptySeq DEF Operations
<1>11. /\ j \in Jobs /\ j.op = "paste" /\ j.plan = plan /\ j.cursor = 0 /\ j.capturing = captures
       /\ j.changes = <<>> /\ j.storage = storage /\ j.start = world /\ j.loose = {}
       /\ j.failed = 0 /\ j.missing = 0
  BY <1>3, <1>5, <1>6, <1>7, <1>9, <1>10 DEF Jobs
<1>12. NoStorage \notin Storages
  BY DEF NoStorage, Storages
<1>13. StorageAgrees(j)
  BY <1>2, <1>6, <1>7, <1>8, <1>11, <1>12 DEF StorageAgrees
<1>14. open' = StoragesOf(undo) \cup StoragesOf(redo) \cup ({j.storage} \ {NoStorage})
  BY <1>2, <1>4, <1>6, <1>7, <1>8, <1>11, <1>12
<1>15. (~j.capturing /\ j.op = "paste") => j.storage = NoStorage
  BY <1>2, <1>7, <1>11
<1>16. j.capturing => j.op = "paste" /\ j.storage # NoStorage
  BY <1>8, <1>11, <1>12
<1>17. Short(j) = 0
  BY <1>11 DEF Short
<1>18. QED
  BY <1>4, <1>5, <1>11, <1>13, <1>14, <1>15, <1>16, <1>17, BeginKeepsInvariant

\* The plan of an undo or redo job names each position of the entry once.
LEMMA PlanOfEntry ==
    ASSUME NEW e \in Entries, e.changes # <<>>, Once(e.changes),
           NEW plan \in {BeforePlan(e), AfterPlan(e)}
    PROVE  plan \in Seq(Records) /\ Len(plan) > 0 /\ Once(plan)
<1>1. e.changes \in Seq(Changes)
  BY DEF Entries
<1>2. PICK n \in Nat \ {0} : n = Len(e.changes)
  BY <1>1, EmptySeq
<1>3. DOMAIN e.changes = 1 .. n
  BY <1>1, <1>2
<1>4. ASSUME NEW c \in Changes
      PROVE  [at |-> c.at, to |-> c.before] \in Records /\ [at |-> c.at, to |-> c.after] \in Records
  BY DEF Changes, Records, Wanted
<1>5. DOMAIN plan = 1 .. n /\ \A k \in 1 .. n : plan[k] \in Records /\ plan[k].at = e.changes[k].at
  <2>1. DOMAIN plan = 1 .. n
    BY <1>3 DEF BeforePlan, AfterPlan
  <2>2. ASSUME NEW k \in 1 .. n
        PROVE  plan[k] \in Records /\ plan[k].at = e.changes[k].at
    <3>1. PICK c \in Changes : c = e.changes[k]
      BY <1>1, <1>2
    <3>2. plan[k] = [at |-> c.at, to |-> c.before] \/ plan[k] = [at |-> c.at, to |-> c.after]
      BY <1>3, <3>1 DEF BeforePlan, AfterPlan
    <3>3. QED
      BY <1>4, <3>1, <3>2
  <2>3. QED
    BY <2>1, <2>2
<1>6. plan \in [1 .. n -> Records]
  <2>1. plan = [k \in 1 .. n |-> plan[k]]
    BY <1>3 DEF BeforePlan, AfterPlan
  <2>2. QED
    BY <1>5, <2>1
<1>7. plan \in Seq(Records) /\ Len(plan) = n
  BY <1>2, <1>6
<1>8. Once(plan)
  BY <1>3, <1>5 DEF Once
<1>9. QED
  BY <1>2, <1>7, <1>8

LEMMA StartHistoryKeepsInvariant ==
    ASSUME IInv, NEW op \in {"undo", "redo"}, NEW stack, stack = IF op = "undo" THEN undo ELSE redo,
           NEW plan, plan = IF op = "undo" THEN BeforePlan(Top(stack)) ELSE AfterPlan(Top(stack)),
           StartHistoryAction(op, stack, plan)
    PROVE  IInv' /\ Begun
<1>1. PICK j : j = [op |-> op, plan |-> plan, cursor |-> 0, failed |-> 0,
                    missing |-> 0, adapted |-> 0, loose |-> {}, capturing |-> FALSE,
                    changes |-> <<>>, storage |-> Top(stack).storage, start |-> world]
  OBVIOUS
<1>2. /\ job = NoJob /\ stack # <<>> /\ job' = j /\ last' = NoJob
      /\ UNCHANGED <<world, config, undo, redo, open, intact>>
  BY <1>1 DEF StartHistoryAction
<1>3. /\ open = StoragesOf(undo) \cup StoragesOf(redo) /\ StacksAgree(undo, redo)
      /\ world \in [Positions -> Blocks]
  BY <1>2 DEF IInv, OpenAgrees, TypeOK
<1>4. /\ stack \in Seq(Entries) /\ EntriesAgree(stack) /\ Apart(stack)
      /\ StoragesOf(stack) \subseteq StoragesOf(undo) \cup StoragesOf(redo)
  BY <1>3 DEF StacksAgree
<1>5. PICK e \in Entries : e = Top(stack)
  BY <1>2, <1>4, Poppable
<1>6. e.changes # <<>> /\ Once(e.changes) /\ e.storage \in StoragesOf(stack)
  BY <1>2, <1>4, <1>5, PopKeeps
<1>7. plan \in Seq(Records) /\ Len(plan) > 0 /\ Once(plan)
  BY <1>5, <1>6, PlanOfEntry
<1>8. e.storage \in Storages \cup {NoStorage}
  BY DEF Entries
<1>9. <<>> \in Seq(Changes) /\ 0 \in Nat /\ op \in Operations
  BY EmptySeq DEF Operations
<1>10. /\ j \in Jobs /\ j.op = op /\ j.plan = plan /\ j.cursor = 0 /\ j.capturing = FALSE
       /\ j.changes = <<>> /\ j.storage = e.storage /\ j.start = world /\ j.loose = {}
       /\ j.failed = 0 /\ j.missing = 0
  BY <1>1, <1>3, <1>5, <1>7, <1>8, <1>9 DEF Jobs
<1>11. StorageAgrees(j)
  BY <1>2, <1>5, <1>10 DEF StorageAgrees
<1>12. open' = StoragesOf(undo) \cup StoragesOf(redo) \cup ({j.storage} \ {NoStorage})
  BY <1>2, <1>3, <1>4, <1>6, <1>10, StoragesTyped
<1>13. Short(j) = 0
  BY <1>10 DEF Short
<1>14. QED
  BY <1>2, <1>7, <1>10, <1>11, <1>12, <1>13, BeginKeepsInvariant

LEMMA RestartKeepsInvariant ==
    ASSUME IInv, Restart
    PROVE  IInv'
<1>1. /\ job' = NoJob /\ undo' = <<>> /\ redo' = <<>> /\ last' = NoJob
      /\ open' = open \ (StoragesOf(undo) \cup StoragesOf(redo)
                         \cup IF job = NoJob THEN {} ELSE {job.storage})
      /\ intact' = TRUE /\ UNCHANGED <<world, config>>
  BY DEF Restart
<1>2. open' = {}
  BY <1>1 DEF IInv, OpenAgrees
<1>3. TypeOK'
  BY <1>1, <1>2, EmptyStack DEF IInv, TypeOK
<1>4. OpenAgrees'
  BY <1>1, <1>2, EmptyStack DEF OpenAgrees
<1>5. JobRuns' /\ CompletedPlanIsInWorld' /\ PasteIsUndoable'
  BY <1>1 DEF JobRuns, CompletedPlanIsInWorld, PasteIsUndoable
<1>6. StacksAgree(<<>>, <<>>)
  BY EmptyStack, HistoryAssumption DEF StacksAgree
<1>7. StacksAgree(undo, redo)'
  BY <1>1, <1>6
<1>8. QED
  BY <1>3, <1>4, <1>5, <1>7 DEF IInv

LEMMA InitEstablishesInvariant == Init => IInv
<1>1. SUFFICES ASSUME Init PROVE IInv
  OBVIOUS
<1>2. TypeOK
  BY <1>1, EmptyStack DEF Init, TypeOK
<1>3. OpenAgrees
  BY <1>1, EmptyStack DEF Init, OpenAgrees
<1>4. JobRuns /\ CompletedPlanIsInWorld /\ PasteIsUndoable
  BY <1>1 DEF Init, JobRuns, CompletedPlanIsInWorld, PasteIsUndoable
<1>5. StacksAgree(undo, redo)
  BY <1>1, EmptyStack, HistoryAssumption DEF Init, StacksAgree
<1>6. QED
  BY <1>2, <1>3, <1>4, <1>5 DEF IInv

LEMMA StepKeepsInvariant == IInv /\ [Next]_vars => IInv'
<1>1. SUFFICES ASSUME IInv, [Next]_vars PROVE IInv'
  OBVIOUS
<1>2. ASSUME NEW plan \in Plans, StartPaste(plan) PROVE IInv'
  BY <1>1, <1>2, StartPasteKeepsInvariant
<1>3. CASE StartUndo
  <2>1. PICK stack : stack = undo
    OBVIOUS
  <2>2. PICK plan : plan = BeforePlan(Top(stack))
    OBVIOUS
  <2>3. StartHistoryAction("undo", stack, plan)
    BY <1>3, <2>1, <2>2 DEF StartUndo
  <2>4. QED
    BY <1>1, <2>1, <2>2, <2>3, StartHistoryKeepsInvariant
<1>4. CASE StartRedo
  <2>1. PICK stack : stack = redo
    OBVIOUS
  <2>2. PICK plan : plan = AfterPlan(Top(stack))
    OBVIOUS
  <2>3. StartHistoryAction("redo", stack, plan)
    BY <1>4, <2>1, <2>2 DEF StartRedo
  <2>4. QED
    BY <1>1, <2>1, <2>2, <2>3, StartHistoryKeepsInvariant
<1>5. CASE Visit
  BY <1>1, <1>5, VisitKeepsInvariant
<1>6. CASE LoseChunk
  BY <1>1, <1>6, StopKeepsInvariant DEF LoseChunk
<1>7. CASE Abort
  BY <1>1, <1>7, StopKeepsInvariant DEF Abort
<1>8. CASE Restart
  BY <1>1, <1>8, RestartKeepsInvariant
<1>9. CASE UNCHANGED vars
  BY <1>1, <1>9 DEF vars, IInv, TypeOK, OpenAgrees, JobRuns, StorageAgrees,
                    CompletedPlanIsInWorld, PasteIsUndoable
<1>10. QED
  BY <1>1, <1>2, <1>3, <1>4, <1>5, <1>6, <1>7, <1>8, <1>9 DEF Next

LEMMA InvariantHolds == Spec => []IInv
<1>1. Init => IInv
  BY InitEstablishesInvariant
<1>2. IInv /\ [Next]_vars => IInv'
  BY StepKeepsInvariant
<1>3. QED
  BY <1>1, <1>2, PTL DEF Spec

----------------------------------------------------------------------------
(* The timeline: the worlds a stack leads through, "past" by the undo stack and "future"  *)
(* by the redo stack.                                                                     *)

Back(dir, w, e) == IF dir = "past" THEN Rewound(w, e) ELSE Reapplied(w, e)
Forth(dir, w, e) == IF dir = "past" THEN Reapplied(w, e) ELSE Rewound(w, e)

\* The worlds f, one before each of the stack's n entries, lead one to the next up to w.
Leads(dir, f, stack, n, w) ==
    /\ f[n + 1] = w
    /\ \A k \in 1 .. n : f[k] = Back(dir, f[k + 1], stack[k]) /\ Forth(dir, f[k], stack[k]) = f[k + 1]

GoesBack(dir, g, stack, n, w) ==
    g[n + 1] = w /\ \A k \in 1 .. n : g[k] = Back(dir, g[k + 1], stack[k])

Tells(dir, stack, w) == \E f : Leads(dir, f, stack, Len(stack), w)

LEMMA TellsNothing ==
    ASSUME NEW dir, NEW w
    PROVE  Tells(dir, <<>>, w)
<1>1. PICK f : f = [k \in 1 .. 1 |-> w]
  OBVIOUS
<1>2. Leads(dir, f, <<>>, 0, w)
  BY <1>1 DEF Leads
<1>3. QED
  BY <1>2, EmptyStack DEF Tells

LEMMA TellsAppended ==
    ASSUME NEW dir, NEW stack \in Seq(Entries), NEW e \in Entries, NEW v, NEW w,
           Tells(dir, stack, v), Back(dir, w, e) = v, Forth(dir, v, e) = w
    PROVE  Tells(dir, Append(stack, e), w)
<1>1. PICK n \in Nat : n = Len(stack)
  OBVIOUS
<1>2. PICK f : Leads(dir, f, stack, n, v)
  BY <1>1 DEF Tells
<1>3. PICK s : s = Append(stack, e)
  OBVIOUS
<1>4. Len(s) = n + 1 /\ s[n + 1] = e /\ \A k \in 1 .. n : s[k] = stack[k]
  BY <1>1, <1>3, Appended
<1>5. PICK g : g = [k \in 1 .. n + 2 |-> IF k = n + 2 THEN w ELSE f[k]]
  OBVIOUS
<1>6. g[n + 2] = w /\ \A k \in 1 .. n + 1 : g[k] = f[k]
  BY <1>5
<1>7. ASSUME NEW k \in 1 .. n + 1
      PROVE  g[k] = Back(dir, g[k + 1], s[k]) /\ Forth(dir, g[k], s[k]) = g[k + 1]
  <2>1. CASE k = n + 1
    <3>1. g[k] = v /\ g[k + 1] = w /\ s[k] = e
      BY <1>2, <1>4, <1>6, <2>1 DEF Leads
    <3>2. QED
      BY <3>1
  <2>2. CASE k # n + 1
    <3>1. k \in 1 .. n /\ k + 1 \in 1 .. n + 1
      BY <1>1, <2>2
    <3>2. g[k] = f[k] /\ g[k + 1] = f[k + 1] /\ s[k] = stack[k]
      BY <1>4, <1>6, <3>1
    <3>3. f[k] = Back(dir, f[k + 1], stack[k]) /\ Forth(dir, f[k], stack[k]) = f[k + 1]
      BY <1>2, <3>1 DEF Leads
    <3>4. QED
      BY <3>2, <3>3
  <2>3. QED
    BY <2>1, <2>2
<1>8. (n + 1) + 1 = n + 2
  OBVIOUS
<1>9. Leads(dir, g, s, n + 1, w)
  BY <1>6, <1>7, <1>8 DEF Leads
<1>10. QED
  BY <1>3, <1>4, <1>9 DEF Tells

\* The top entry leads from w to the world below it, and back.
LEMMA TellsPopped ==
    ASSUME NEW dir, NEW stack \in Seq(Entries), stack # <<>>, NEW w, Tells(dir, stack, w)
    PROVE  LET v == Back(dir, w, Top(stack)) IN
             Tells(dir, Popped(stack), v) /\ Forth(dir, v, Top(stack)) = w
<1>1. PICK n \in Nat : n = Len(stack) - 1
  BY Poppable
<1>2. Len(stack) = n + 1 /\ Top(stack) = stack[n + 1]
  BY <1>1, Poppable DEF Top
<1>3. PICK f : Leads(dir, f, stack, n + 1, w)
  BY <1>2 DEF Tells
<1>4. PICK p : p = Popped(stack)
  OBVIOUS
<1>5. Len(p) = n /\ \A k \in 1 .. n : p[k] = stack[k]
  BY <1>1, <1>4, Poppable
<1>6. PICK v : v = f[n + 1]
  OBVIOUS
<1>7. v = Back(dir, w, Top(stack)) /\ Forth(dir, v, Top(stack)) = w
  <2>1. n + 1 \in 1 .. n + 1
    OBVIOUS
  <2>2. QED
    BY <1>2, <1>3, <1>6, <2>1 DEF Leads
<1>8. \A k \in 1 .. n : k \in 1 .. n + 1
  OBVIOUS
<1>9. Leads(dir, f, p, n, v)
  BY <1>3, <1>5, <1>6, <1>8 DEF Leads
<1>10. QED
  BY <1>4, <1>5, <1>7, <1>9 DEF Tells

\* What is evicted is the oldest: the rest tells the rest of the story.
LEMMA TellsNewest ==
    ASSUME NEW dir, NEW stack \in Seq(Entries), stack # <<>>, NEW w, Tells(dir, stack, w)
    PROVE  Tells(dir, NewestFitting(stack), w)
<1>1. PICK n \in Nat \ {0} : n = Len(stack)
  BY Poppable
<1>2. PICK b \in 1 .. n : NewestFitting(stack) = SubSeq(stack, b, n)
  BY <1>1, NewestFittingIs
<1>3. PICK s : s = NewestFitting(stack)
  OBVIOUS
<1>4. PICK m \in Nat : m = n - b + 1
  BY <1>1, <1>2
<1>5. Len(s) = m /\ \A k \in 1 .. m : s[k] = stack[k + b - 1] /\ k + b - 1 \in 1 .. n
  BY <1>1, <1>2, <1>3, <1>4
<1>6. PICK f : Leads(dir, f, stack, n, w)
  BY <1>1 DEF Tells
<1>7. PICK g : g = [k \in 1 .. m + 1 |-> f[k + b - 1]]
  OBVIOUS
<1>8. g[m + 1] = w
  <2>1. g[m + 1] = f[n + 1]
    BY <1>4, <1>7
  <2>2. QED
    BY <1>6, <2>1 DEF Leads
<1>9. ASSUME NEW k \in 1 .. m
      PROVE  g[k] = Back(dir, g[k + 1], s[k]) /\ Forth(dir, g[k], s[k]) = g[k + 1]
  <2>1. PICK i \in 1 .. n : i = k + b - 1
    BY <1>5
  <2>2. g[k] = f[i] /\ g[k + 1] = f[i + 1] /\ s[k] = stack[i]
    <3>1. k \in 1 .. m + 1 /\ k + 1 \in 1 .. m + 1 /\ (k + 1) + b - 1 = i + 1
      BY <1>4, <2>1
    <3>2. QED
      BY <1>5, <1>7, <2>1, <3>1
  <2>3. f[i] = Back(dir, f[i + 1], stack[i]) /\ Forth(dir, f[i], stack[i]) = f[i + 1]
    BY <1>6 DEF Leads
  <2>4. QED
    BY <2>2, <2>3
<1>10. Leads(dir, g, s, m, w)
  BY <1>8, <1>9 DEF Leads
<1>11. QED
  BY <1>3, <1>5, <1>10 DEF Tells

\* The worlds of a telling are the only ones that end in w and go back entry by entry.
LEMMA ToldWorlds ==
    ASSUME NEW dir, NEW stack, NEW n \in Nat, NEW w, NEW f, Leads(dir, f, stack, n, w),
           NEW g, GoesBack(dir, g, stack, n, w)
    PROVE  SameTo(g, f, n + 1)
<1>1. SUFFICES ASSUME NEW o \in 1 .. n + 1, g[o] # f[o] PROVE FALSE
  BY DEF SameTo
<1>2. PICK m \in 0 .. n : g[n + 1 - m] # f[n + 1 - m]
                          /\ \A k \in 0 .. n : g[n + 1 - k] # f[n + 1 - k] => m <= k
  <2> DEFINE S == {k \in 0 .. n : g[n + 1 - k] # f[n + 1 - k]}
  <2>1. n + 1 - o \in 0 .. n /\ n + 1 - (n + 1 - o) = o
    OBVIOUS
  <2>2. S \in SUBSET Nat /\ n + 1 - o \in S
    BY <1>1, <2>1
  <2> HIDE DEF S
  <2>3. PICK k \in S : \A l \in S : k <= l
    BY <2>2, LeastNatural
  <2>4. QED
    BY <2>3 DEF S
<1>3. m # 0
  BY <1>2 DEF Leads, GoesBack
<1>4. PICK i \in 1 .. n : i = n + 1 - m
  BY <1>2, <1>3
<1>5. m - 1 \in 0 .. n /\ n + 1 - (m - 1) = i + 1 /\ ~(m <= m - 1)
  BY <1>2, <1>3, <1>4
<1>6. g[i + 1] = f[i + 1]
  BY <1>2, <1>5
<1>7. g[i] = f[i]
  BY <1>6 DEF Leads, GoesBack
<1>8. QED
  BY <1>2, <1>4, <1>7

\* The world the stacks start from: a running job's effects are not on them yet.
Present == IF job = NoJob THEN world ELSE job.start

Timeline == intact => Tells("past", undo, Present) /\ Tells("future", redo, Present)

\* What was captured is enough to go back to the start, or forth from it.
LEMMA RecordedLeads ==
    ASSUME NEW j \in Jobs, NEW w \in Worlds, NEW e, e.changes = j.changes, Recorded(j, w)
    PROVE  /\ w = j.start => Rewound(w, e) = j.start
           /\ Rewound(w, e) = j.start => Reapplied(j.start, e) = w
<1>1. j.start \in Worlds
  BY DEF Jobs, Worlds
<1>2. /\ Rewound(w, e) = [p \in Positions |-> Rewound(w, e)[p]]
      /\ Reapplied(j.start, e) = [p \in Positions |-> Reapplied(j.start, e)[p]]
  BY DEF Rewound, Reapplied
<1>3. j.start = [p \in Positions |-> j.start[p]] /\ w = [p \in Positions |-> w[p]]
  BY <1>1 DEF Worlds
<1>4. ASSUME NEW p \in Positions
      PROVE  \/ Rewound(w, e)[p] = j.start[p] /\ Reapplied(j.start, e)[p] = w[p]
             \/ Rewound(w, e)[p] = w[p] /\ Reapplied(j.start, e)[p] = j.start[p]
  <2>1. CASE \E k \in DOMAIN e.changes : e.changes[k].at = p
    <3>1. PICK k : k = CHOOSE n \in DOMAIN e.changes : e.changes[n].at = p
      OBVIOUS
    <3>2. k \in DOMAIN j.changes /\ j.changes[k].at = p
      BY <2>1, <3>1
    <3>3. e.changes[k].before = j.start[p] /\ e.changes[k].after = w[p]
      BY <3>2 DEF Recorded
    <3>4. Rewound(w, e)[p] = e.changes[k].before /\ Reapplied(j.start, e)[p] = e.changes[k].after
      BY <2>1, <3>1 DEF Rewound, Reapplied
    <3>5. QED
      BY <3>3, <3>4
  <2>2. CASE ~ \E k \in DOMAIN e.changes : e.changes[k].at = p
    BY <2>2 DEF Rewound, Reapplied
  <2>3. QED
    BY <2>1, <2>2
<1>5. ASSUME w = j.start PROVE Rewound(w, e) = j.start
  <2>1. \A p \in Positions : Rewound(w, e)[p] = j.start[p]
    BY <1>4, <1>5
  <2>2. QED
    BY <1>2, <1>3, <2>1
<1>6. ASSUME Rewound(w, e) = j.start PROVE Reapplied(j.start, e) = w
  <2>1. \A p \in Positions : Reapplied(j.start, e)[p] = w[p]
    BY <1>4, <1>6
  <2>2. QED
    BY <1>2, <1>3, <2>1
<1>7. QED
  BY <1>5, <1>6

\* The stacks after job j has left world w.
Told(w) == Tells("past", undo', w) /\ Tells("future", redo', w)

\* Job j starts where the stacks end, and its end leaves the whole story.
Tellable(j, how, w) ==
    /\ StacksAgree(undo, redo) /\ StorageAgrees(job) /\ Continues(j, w)
    /\ Tells("past", undo, j.start) /\ Tells("future", redo, j.start)
    /\ TellsAll(j, how, w)

LEMMA KeepHistoryTells ==
    ASSUME NEW j, NEW how, NEW w, Tellable(j, how, w), j.op = "paste", KeepHistory(j)
    PROVE  Told(w)
<1>1. /\ undo \in Seq(Entries) /\ redo \in Seq(Entries) /\ j \in Jobs /\ w \in Worlds
      /\ JobAgrees(j, w)
      /\ Tells("past", undo, j.start) /\ Tells("future", redo, j.start)
      /\ w = j.start \/ (HasHistory(j) /\ Rewound(w, [changes |-> j.changes]) = j.start)
  BY DEF Tellable, StacksAgree, Continues, TellsAll
<1>2. CASE ~HasHistory(j)
  BY <1>1, <1>2 DEF KeepHistory, Told
<1>3. CASE HasHistory(j)
  <2>1. PICK e : e = [storage |-> j.storage, changes |-> j.changes]
    OBVIOUS
  <2>2. e \in Entries /\ e.changes = j.changes
    <3>1. j.storage \in Storages /\ j.changes \in Seq(Changes)
      BY <1>1, <1>3, JobFields DEF HasHistory, JobAgrees
    <3>2. QED
      BY <2>1, <3>1 DEF Entries
  <2>3. Recorded(j, w)
    BY <1>1, <1>3 DEF HasHistory, JobAgrees
  <2>4. Rewound(w, e) = j.start
    <3>1. CASE w = j.start
      BY <1>1, <2>2, <2>3, <3>1, RecordedLeads
    <3>2. CASE Rewound(w, [changes |-> j.changes]) = j.start
      <4>1. PICK c : c = [changes |-> j.changes]
        OBVIOUS
      <4>2. c.changes = e.changes
        BY <2>2, <4>1
      <4>3. Rewound(w, e) = Rewound(w, c)
        BY <4>2 DEF Rewound
      <4>4. QED
        BY <3>2, <4>1, <4>3
    <3>3. QED
      BY <1>1, <3>1, <3>2
  <2>5. Reapplied(j.start, e) = w
    BY <1>1, <2>2, <2>3, <2>4, RecordedLeads
  <2>6. Back("past", w, e) = j.start /\ Forth("past", j.start, e) = w
    BY <2>4, <2>5 DEF Back, Forth
  <2>7. PICK p : p = Append(undo, e)
    OBVIOUS
  <2>8. p \in Seq(Entries) /\ p # <<>>
    BY <1>1, <2>2, <2>7, Appended, EmptyStack
  <2>9. Tells("past", p, w)
    <3>1. PICK v : v = j.start
      OBVIOUS
    <3>2. Tells("past", undo, v) /\ Back("past", w, e) = v /\ Forth("past", v, e) = w
      BY <1>1, <2>6, <3>1
    <3>3. QED
      BY <1>1, <2>2, <2>7, <3>2, TellsAppended
  <2>10. Tells("past", NewestFitting(p), w)
    BY <2>8, <2>9, TellsNewest
  <2>11. undo' = NewestFitting(p) /\ redo' = <<>>
    BY <1>3, <2>1, <2>7 DEF KeepHistory
  <2>12. Tells("future", <<>>, w)
    BY TellsNothing
  <2>13. QED
    BY <2>10, <2>11, <2>12 DEF Told
<1>4. QED
  BY <1>2, <1>3

LEMMA CompleteUndoTells ==
    ASSUME NEW j, NEW w, Tellable(j, "completed", w), CompleteUndo(j)
    PROVE  Told(w)
<1>1. /\ undo \in Seq(Entries) /\ redo \in Seq(Entries) /\ j.op = "undo" /\ undo # <<>>
      /\ undo' = Popped(undo) /\ redo' = Append(redo, Top(undo))
  BY DEF Tellable, StacksAgree, Continues, StorageAgrees, CompleteUndo
<1>2. PICK v : v = j.start
  OBVIOUS
<1>3. Tells("past", undo, v) /\ Tells("future", redo, v) /\ w = Rewound(v, Top(undo))
  BY <1>1, <1>2 DEF Tellable, TellsAll
<1>4. PICK e \in Entries : e = Top(undo)
  BY <1>1, Poppable
<1>5. Tells("past", Popped(undo), w) /\ Forth("past", w, e) = v
  BY <1>1, <1>3, <1>4, TellsPopped DEF Back
<1>6. Back("future", w, e) = v /\ Forth("future", v, e) = w
  BY <1>3, <1>4, <1>5 DEF Back, Forth
<1>7. Tells("future", Append(redo, e), w)
  BY <1>1, <1>3, <1>6, TellsAppended
<1>8. QED
  BY <1>1, <1>4, <1>5, <1>7 DEF Told

LEMMA CompleteRedoTells ==
    ASSUME NEW j, NEW w, Tellable(j, "completed", w), CompleteRedo(j)
    PROVE  Told(w)
<1>1. /\ undo \in Seq(Entries) /\ redo \in Seq(Entries) /\ j.op = "redo" /\ redo # <<>>
      /\ redo' = Popped(redo) /\ undo' = NewestFitting(Append(undo, Top(redo)))
  BY DEF Tellable, StacksAgree, Continues, StorageAgrees, CompleteRedo
<1>2. PICK v : v = j.start
  OBVIOUS
<1>3. Tells("past", undo, v) /\ Tells("future", redo, v) /\ w = Reapplied(v, Top(redo))
  BY <1>1, <1>2 DEF Tellable, TellsAll
<1>4. PICK e \in Entries : e = Top(redo)
  BY <1>1, Poppable
<1>5. Tells("future", Popped(redo), w) /\ Forth("future", w, e) = v
  BY <1>1, <1>3, <1>4, TellsPopped DEF Back
<1>6. Back("past", w, e) = v /\ Forth("past", v, e) = w
  BY <1>3, <1>4, <1>5 DEF Back, Forth
<1>7. PICK p : p = Append(undo, e)
  OBVIOUS
<1>8. p \in Seq(Entries) /\ p # <<>>
  BY <1>1, <1>7, Appended, EmptyStack
<1>9. Tells("past", p, w)
  BY <1>1, <1>3, <1>6, <1>7, TellsAppended
<1>10. Tells("past", NewestFitting(p), w)
  BY <1>8, <1>9, TellsNewest
<1>11. QED
  BY <1>1, <1>4, <1>5, <1>7, <1>10 DEF Told

LEMMA StopTells ==
    ASSUME NEW j, NEW how \in {"failed"}, NEW w, Tellable(j, how, w), Stop(j)
    PROVE  Told(w)
<1>1. CASE j.op = "paste"
  BY <1>1, KeepHistoryTells DEF Stop
<1>2. CASE j.op # "paste"
  <2>1. j.op \in {"undo", "redo"}
    BY <1>2, JobFields DEF Tellable, Continues, Operations
  <2>2. w = j.start
    BY <2>1 DEF Tellable, TellsAll
  <2>3. undo' = undo /\ redo' = redo
    BY <1>2 DEF Stop
  <2>4. QED
    BY <2>2, <2>3 DEF Tellable, Told
<1>3. QED
  BY <1>1, <1>2

LEMMA EndTells ==
    ASSUME IInv, Timeline, job # NoJob, NEW j, NEW how, NEW w, w = world',
           Continues(j, w), j.start = job.start, Ended(j, how),
           Tellable(j, how, w) => Told(w)
    PROVE  Timeline'
<1>1. SUFFICES ASSUME intact' PROVE Tells("past", undo', Present') /\ Tells("future", redo', Present')
  BY DEF Timeline
<1>2. Present' = w
  BY DEF Ended, Present
<1>3. intact /\ TellsAll(j, how, w)
  <2>1. PICK tells : tells = TellsAll(j, how, w)
    OBVIOUS
  <2>2. intact' = (intact /\ tells)
    BY <2>1 DEF Ended
  <2>3. intact /\ tells
    BY <1>1, <2>2
  <2>4. QED
    BY <2>1, <2>3
<1>4. Tells("past", undo, j.start) /\ Tells("future", redo, j.start)
  BY <1>3 DEF Timeline, Present
<1>5. StacksAgree(undo, redo) /\ StorageAgrees(job)
  BY DEF IInv, JobRuns
<1>6. Told(w)
  BY <1>3, <1>4, <1>5 DEF Tellable
<1>7. QED
  BY <1>2, <1>6 DEF Told

LEMMA StopKeepsTimeline ==
    ASSUME IInv, Timeline, job # NoJob, NEW how \in {"failed"}, Stop(job), Ended(job, how),
           world' = world
    PROVE  Timeline'
<1>1. /\ job \in Jobs /\ world' \in Worlds /\ JobAgrees(job, world')
      /\ Truthful(job, world', config.verify)
  BY DEF IInv, TypeOK, JobRuns, Worlds
<1>2. PICK j : j = job
  OBVIOUS
<1>3. PICK w : w = world'
  OBVIOUS
<1>4. Continues(j, w) /\ Stop(j) /\ Ended(j, how) /\ j.start = job.start
  BY <1>1, <1>2, <1>3 DEF Continues
<1>5. Tellable(j, how, w) => Told(w)
  BY <1>4, StopTells
<1>6. QED
  BY <1>3, <1>4, <1>5, EndTells

LEMMA VisitKeepsTimeline ==
    ASSUME IInv, Timeline, Visit
    PROVE  Timeline'
<1>1. /\ job # NoJob /\ job \in Jobs /\ world \in Worlds
      /\ JobAgrees(job, world) /\ job.cursor < Len(job.plan)
      /\ Truthful(job, world, config.verify)
  BY DEF Visit, IInv, TypeOK, JobRuns, Worlds
<1>2. PICK r \in RecordResults(job), lost \in BOOLEAN :
         LET j == r.job
             fails == lost \/ j.failed > config.maxFailures
         IN /\ world' = r.world
            /\ \/ fails /\ Stop(j) /\ Ended(j, "failed")
               \/ /\ ~fails /\ Done(j)
                  /\ CompletePaste(j) \/ CompleteUndo(j) \/ CompleteRedo(j)
                  /\ Ended(j, "completed")
               \/ /\ ~fails /\ ~Done(j)
                  /\ job' = j
                  /\ open' = open \ ({job.storage} \ {j.storage})
                  /\ UNCHANGED <<undo, redo, last, intact>>
  BY DEF Visit
<1>3. PICK j : j = r.job
  OBVIOUS
<1>4. PICK w : w = world'
  OBVIOUS
<1>5. Follows(job, j, w) /\ Truthful(j, w, config.verify)
  BY <1>1, <1>2, <1>3, <1>4, RecordFollows
<1>6. Continues(j, w) /\ j.start = job.start
  BY <1>5 DEF Follows, Continues
<1>7. CASE Stop(j) /\ Ended(j, "failed")
  <2>1. PICK how \in {"failed"} : how = "failed"
    OBVIOUS
  <2>2. Tellable(j, how, w) => Told(w)
    BY <1>7, StopTells
  <2>3. Ended(j, how)
    BY <1>7, <2>1
  <2>4. QED
    BY <1>1, <1>4, <1>6, <2>2, <2>3, EndTells
<1>8. CASE /\ CompletePaste(j) \/ CompleteUndo(j) \/ CompleteRedo(j)
           /\ Ended(j, "completed")
  <2>1. PICK how : how = "completed"
    OBVIOUS
  <2>2. ASSUME Tellable(j, how, w) PROVE Told(w)
    <3>1. CASE CompletePaste(j)
      BY <2>2, <3>1, KeepHistoryTells DEF CompletePaste
    <3>2. CASE CompleteUndo(j)
      BY <2>1, <2>2, <3>2, CompleteUndoTells
    <3>3. CASE CompleteRedo(j)
      BY <2>1, <2>2, <3>3, CompleteRedoTells
    <3>4. QED
      BY <1>8, <3>1, <3>2, <3>3
  <2>3. Ended(j, how)
    BY <1>8, <2>1
  <2>4. QED
    BY <1>1, <1>4, <1>6, <2>2, <2>3, EndTells
<1>9. CASE job' = j /\ UNCHANGED <<undo, redo, last, intact>>
  <2>1. job' # NoJob
    BY <1>6, <1>9, HistoryAssumption DEF Continues
  <2>2. Present' = Present
    BY <1>1, <1>6, <1>9, <2>1 DEF Present
  <2>3. QED
    BY <1>9, <2>2 DEF Timeline
<1>10. QED
  BY <1>2, <1>3, <1>7, <1>8, <1>9

\* A starting job takes its start from the world the stacks describe.
LEMMA BeginKeepsTimeline ==
    ASSUME Timeline, job = NoJob, Begun
    PROVE  Timeline'
<1>1. Present' = Present
  BY DEF Present, Begun
<1>2. QED
  BY <1>1 DEF Timeline, Begun

LEMMA StepKeepsTimeline == IInv /\ Timeline /\ [Next]_vars => Timeline'
<1>1. SUFFICES ASSUME IInv, Timeline, [Next]_vars PROVE Timeline'
  OBVIOUS
<1>2. ASSUME NEW plan \in Plans, StartPaste(plan) PROVE Timeline'
  <2>1. Begun
    BY <1>1, <1>2, StartPasteKeepsInvariant
  <2>2. job = NoJob
    BY <1>2 DEF StartPaste
  <2>3. QED
    BY <1>1, <2>1, <2>2, BeginKeepsTimeline
<1>3. CASE StartUndo
  <2>1. PICK stack : stack = undo
    OBVIOUS
  <2>2. PICK plan : plan = BeforePlan(Top(stack))
    OBVIOUS
  <2>3. StartHistoryAction("undo", stack, plan)
    BY <1>3, <2>1, <2>2 DEF StartUndo
  <2>4. Begun
    BY <1>1, <2>1, <2>2, <2>3, StartHistoryKeepsInvariant
  <2>5. job = NoJob
    BY <2>3 DEF StartHistoryAction
  <2>6. QED
    BY <1>1, <2>4, <2>5, BeginKeepsTimeline
<1>4. CASE StartRedo
  <2>1. PICK stack : stack = redo
    OBVIOUS
  <2>2. PICK plan : plan = AfterPlan(Top(stack))
    OBVIOUS
  <2>3. StartHistoryAction("redo", stack, plan)
    BY <1>4, <2>1, <2>2 DEF StartRedo
  <2>4. Begun
    BY <1>1, <2>1, <2>2, <2>3, StartHistoryKeepsInvariant
  <2>5. job = NoJob
    BY <2>3 DEF StartHistoryAction
  <2>6. QED
    BY <1>1, <2>4, <2>5, BeginKeepsTimeline
<1>5. CASE Visit
  BY <1>1, <1>5, VisitKeepsTimeline
<1>6. CASE LoseChunk
  BY <1>1, <1>6, StopKeepsTimeline DEF LoseChunk
<1>7. CASE Abort
  BY <1>1, <1>7, StopKeepsTimeline DEF Abort
<1>8. CASE Restart
  BY <1>8, TellsNothing DEF Restart, Timeline
<1>9. CASE UNCHANGED vars
  <2>1. Present' = Present
    BY <1>9 DEF vars, Present
  <2>2. QED
    BY <1>1, <1>9, <2>1 DEF vars, Timeline
<1>10. QED
  BY <1>1, <1>2, <1>3, <1>4, <1>5, <1>6, <1>7, <1>8, <1>9 DEF Next

LEMMA TimelineHolds == Spec => []Timeline
<1>1. Init => Timeline
  BY TellsNothing DEF Init, Timeline
<1>2. IInv /\ Timeline /\ [Next]_vars => Timeline'
  BY StepKeepsTimeline
<1>3. QED
  BY <1>1, <1>2, InvariantHolds, PTL DEF Spec

\* Past and Future are the worlds of the stacks' tellings.
LEMMA PastTold ==
    ASSUME undo \in Seq(Entries), Tells("past", undo, world)
    PROVE  \A k \in DOMAIN undo : Reapplied(Past[k], undo[k]) = Past[k + 1]
<1>1. PICK n \in Nat : n = Len(undo)
  OBVIOUS
<1>2. PICK f : Leads("past", f, undo, n, world)
  BY <1>1 DEF Tells
<1>3. PICK h : h = [k \in 1 .. (n + 1) |-> f[k]]
  OBVIOUS
<1>4. h = [k \in 1 .. (n + 1) |-> IF k > n THEN world ELSE Rewound(h[k + 1], undo[k])]
  <2>1. ASSUME NEW k \in 1 .. n + 1
        PROVE  h[k] = IF k > n THEN world ELSE Rewound(h[k + 1], undo[k])
    <3>1. CASE k > n
      <4>1. k = n + 1
        BY <3>1
      <4>2. QED
        BY <1>2, <1>3, <3>1, <4>1 DEF Leads
    <3>2. CASE ~(k > n)
      <4>1. k \in 1 .. n /\ k + 1 \in 1 .. n + 1
        BY <3>2
      <4>2. QED
        BY <1>2, <1>3, <3>2, <4>1 DEF Leads, Back
    <3>3. QED
      BY <3>1, <3>2
  <2>2. QED
    BY <1>3, <2>1
<1>5. PICK g : /\ g = [k \in 1 .. (n + 1) |-> IF k > n THEN world ELSE Rewound(g[k + 1], undo[k])]
               /\ Past = g
  BY <1>1, <1>4 DEF Past
<1>6. GoesBack("past", g, undo, n, world)
  <2>1. g[n + 1] = world
    BY <1>5
  <2>2. \A k \in 1 .. n : g[k] = Back("past", g[k + 1], undo[k])
    BY <1>5 DEF Back
  <2>3. QED
    BY <2>1, <2>2 DEF GoesBack
<1>7. \A k \in 1 .. n + 1 : g[k] = f[k]
  <2>1. PICK dir, stack, w : dir = "past" /\ stack = undo /\ w = world
    OBVIOUS
  <2>2. Leads(dir, f, stack, n, w) /\ GoesBack(dir, g, stack, n, w)
    BY <1>2, <1>6, <2>1
  <2>3. SameTo(g, f, n + 1)
    BY <2>2, ToldWorlds
  <2>4. QED
    BY <2>3 DEF SameTo
<1>8. \A k \in 1 .. n : k \in 1 .. n + 1 /\ k + 1 \in 1 .. n + 1
  OBVIOUS
<1>9. \A k \in 1 .. n : Reapplied(g[k], undo[k]) = g[k + 1]
  BY <1>2, <1>7, <1>8 DEF Leads, Forth
<1>10. Past = g /\ DOMAIN undo = 1 .. n
  BY <1>1, <1>5
<1>11. QED
  BY <1>9, <1>10

LEMMA FutureTold ==
    ASSUME redo \in Seq(Entries), Tells("future", redo, world)
    PROVE  \A k \in DOMAIN redo : Rewound(Future[k], redo[k]) = Future[k + 1]
<1>1. PICK n \in Nat : n = Len(redo)
  OBVIOUS
<1>2. PICK f : Leads("future", f, redo, n, world)
  BY <1>1 DEF Tells
<1>3. PICK h : h = [k \in 1 .. (n + 1) |-> f[k]]
  OBVIOUS
<1>4. h = [k \in 1 .. (n + 1) |-> IF k > n THEN world ELSE Reapplied(h[k + 1], redo[k])]
  <2>1. ASSUME NEW k \in 1 .. n + 1
        PROVE  h[k] = IF k > n THEN world ELSE Reapplied(h[k + 1], redo[k])
    <3>1. CASE k > n
      <4>1. k = n + 1
        BY <3>1
      <4>2. QED
        BY <1>2, <1>3, <3>1, <4>1 DEF Leads
    <3>2. CASE ~(k > n)
      <4>1. k \in 1 .. n /\ k + 1 \in 1 .. n + 1
        BY <3>2
      <4>2. QED
        BY <1>2, <1>3, <3>2, <4>1 DEF Leads, Back
    <3>3. QED
      BY <3>1, <3>2
  <2>2. QED
    BY <1>3, <2>1
<1>5. PICK g : /\ g = [k \in 1 .. (n + 1) |-> IF k > n THEN world ELSE Reapplied(g[k + 1], redo[k])]
               /\ Future = g
  BY <1>1, <1>4 DEF Future
<1>6. GoesBack("future", g, redo, n, world)
  <2>1. g[n + 1] = world
    BY <1>5
  <2>2. \A k \in 1 .. n : g[k] = Back("future", g[k + 1], redo[k])
    BY <1>5 DEF Back
  <2>3. QED
    BY <2>1, <2>2 DEF GoesBack
<1>7. \A k \in 1 .. n + 1 : g[k] = f[k]
  <2>1. PICK dir, stack, w : dir = "future" /\ stack = redo /\ w = world
    OBVIOUS
  <2>2. Leads(dir, f, stack, n, w) /\ GoesBack(dir, g, stack, n, w)
    BY <1>2, <1>6, <2>1
  <2>3. SameTo(g, f, n + 1)
    BY <2>2, ToldWorlds
  <2>4. QED
    BY <2>3 DEF SameTo
<1>8. \A k \in 1 .. n : k \in 1 .. n + 1 /\ k + 1 \in 1 .. n + 1
  OBVIOUS
<1>9. \A k \in 1 .. n : Rewound(g[k], redo[k]) = g[k + 1]
  BY <1>2, <1>7, <1>8 DEF Leads, Forth
<1>10. Future = g /\ DOMAIN redo = 1 .. n
  BY <1>1, <1>5
<1>11. QED
  BY <1>9, <1>10

----------------------------------------------------------------------------
(* When history is lost. *)

\* Only a paste that does not capture, and an undo or redo that did not get everything back, leave
\* changes that the history does not tell.
HistoryLostOnlyThen ==
    (intact /\ ~intact') =>
      LET j == last'.job IN
        \/ j.op = "paste" /\ ~j.capturing
        \/ j.op # "paste" /\ (last'.how # "completed" \/ Reported(j) > 0 \/ ~config.verify)

LEMMA MatchesItself ==
    ASSUME NEW to \in Blocks, NEW b \in Matching(to)
    PROVE  b = to
<1>1. b \in Blocks /\ to \in {b, ShapeOf[b], TypeOf[b]}
  BY DEF Matching
<1>2. ShapeOf[b] \notin Blocks /\ TypeOf[b] \notin Blocks
  BY <1>1, HistoryAssumption
<1>3. QED
  BY <1>1, <1>2

\* An undo or redo that wrote every record left the entry's world.
LEMMA UndoneWorld ==
    ASSUME NEW j \in Jobs, NEW w \in Worlds, NEW e \in Entries, JobAgrees(j, w), Done(j),
           Right(j, w), j.plan = BeforePlan(e)
    PROVE  w = Rewound(j.start, e)
<1>1. DOMAIN j.plan = DOMAIN e.changes
  BY DEF BeforePlan
<1>2. ASSUME NEW k \in DOMAIN e.changes
      PROVE  j.plan[k].at = e.changes[k].at /\ j.plan[k].to = e.changes[k].before
  <2>1. j.plan[k] = [at |-> e.changes[k].at, to |-> e.changes[k].before]
    BY DEF BeforePlan
  <2>2. QED
    BY <2>1
<1>3. j.cursor = Len(j.plan) /\ DOMAIN j.plan = 1 .. j.cursor
  <2>1. j.cursor <= Len(j.plan) /\ j.cursor >= Len(j.plan)
    BY DEF JobAgrees, Done
  <2>2. j.cursor \in Nat /\ j.plan \in Seq(Records)
    BY JobFields
  <2>3. QED
    BY <2>1, <2>2
<1>4. ASSUME NEW p \in Positions
      PROVE  w[p] = Rewound(j.start, e)[p]
  <2>1. CASE \E k \in DOMAIN e.changes : e.changes[k].at = p
    <3>1. PICK k : k = CHOOSE n \in DOMAIN e.changes : e.changes[n].at = p
      OBVIOUS
    <3>2. k \in DOMAIN e.changes /\ e.changes[k].at = p
      BY <2>1, <3>1
    <3>3. j.plan[k].at = p /\ j.plan[k].to = e.changes[k].before
      BY <1>2, <3>1, <3>2
    <3>4. w[j.plan[k].at] = j.plan[k].to
      <4>1. w[j.plan[k].at] \in Matching(j.plan[k].to)
        BY <1>1, <1>3, <3>2 DEF Right
      <4>2. j.plan[k].to \in Blocks
        <5>1. PICK n \in Nat : n = Len(e.changes) /\ DOMAIN e.changes = 1 .. n
          BY DEF Entries
        <5>2. e.changes[k] \in Changes
          BY <3>2, <5>1 DEF Entries
        <5>3. QED
          BY <3>3, <5>2 DEF Changes
      <4>3. QED
        BY <4>1, <4>2, MatchesItself
    <3>5. Rewound(j.start, e)[p] = e.changes[k].before
      BY <2>1, <3>1 DEF Rewound
    <3>6. QED
      BY <3>3, <3>4, <3>5
  <2>2. CASE ~ \E k \in DOMAIN e.changes : e.changes[k].at = p
    <3>1. Ahead(j, p)
      BY <1>1, <1>2, <1>3, <2>2 DEF Ahead
    <3>2. w[p] = j.start[p]
      BY <3>1 DEF JobAgrees
    <3>3. QED
      BY <2>2, <3>2 DEF Rewound
  <2>3. QED
    BY <2>1, <2>2
<1>5. Rewound(j.start, e) = [p \in Positions |-> Rewound(j.start, e)[p]]
  BY DEF Rewound
<1>6. w = [p \in Positions |-> w[p]]
  BY DEF Worlds
<1>7. QED
  BY <1>4, <1>5, <1>6

LEMMA RedoneWorld ==
    ASSUME NEW j \in Jobs, NEW w \in Worlds, NEW e \in Entries, JobAgrees(j, w), Done(j),
           Right(j, w), j.plan = AfterPlan(e)
    PROVE  w = Reapplied(j.start, e)
<1>1. DOMAIN j.plan = DOMAIN e.changes
  BY DEF AfterPlan
<1>2. ASSUME NEW k \in DOMAIN e.changes
      PROVE  j.plan[k].at = e.changes[k].at /\ j.plan[k].to = e.changes[k].after
  <2>1. j.plan[k] = [at |-> e.changes[k].at, to |-> e.changes[k].after]
    BY DEF AfterPlan
  <2>2. QED
    BY <2>1
<1>3. j.cursor = Len(j.plan) /\ DOMAIN j.plan = 1 .. j.cursor
  <2>1. j.cursor <= Len(j.plan) /\ j.cursor >= Len(j.plan)
    BY DEF JobAgrees, Done
  <2>2. j.cursor \in Nat /\ j.plan \in Seq(Records)
    BY JobFields
  <2>3. QED
    BY <2>1, <2>2
<1>4. ASSUME NEW p \in Positions
      PROVE  w[p] = Reapplied(j.start, e)[p]
  <2>1. CASE \E k \in DOMAIN e.changes : e.changes[k].at = p
    <3>1. PICK k : k = CHOOSE n \in DOMAIN e.changes : e.changes[n].at = p
      OBVIOUS
    <3>2. k \in DOMAIN e.changes /\ e.changes[k].at = p
      BY <2>1, <3>1
    <3>3. j.plan[k].at = p /\ j.plan[k].to = e.changes[k].after
      BY <1>2, <3>1, <3>2
    <3>4. w[j.plan[k].at] = j.plan[k].to
      <4>1. w[j.plan[k].at] \in Matching(j.plan[k].to)
        BY <1>1, <1>3, <3>2 DEF Right
      <4>2. j.plan[k].to \in Blocks
        <5>1. PICK n \in Nat : n = Len(e.changes) /\ DOMAIN e.changes = 1 .. n
          BY DEF Entries
        <5>2. e.changes[k] \in Changes
          BY <3>2, <5>1 DEF Entries
        <5>3. QED
          BY <3>3, <5>2 DEF Changes
      <4>3. QED
        BY <4>1, <4>2, MatchesItself
    <3>5. Reapplied(j.start, e)[p] = e.changes[k].after
      BY <2>1, <3>1 DEF Reapplied
    <3>6. QED
      BY <3>3, <3>4, <3>5
  <2>2. CASE ~ \E k \in DOMAIN e.changes : e.changes[k].at = p
    <3>1. Ahead(j, p)
      BY <1>1, <1>2, <1>3, <2>2 DEF Ahead
    <3>2. w[p] = j.start[p]
      BY <3>1 DEF JobAgrees
    <3>3. QED
      BY <2>2, <3>2 DEF Reapplied
  <2>3. QED
    BY <2>1, <2>2
<1>5. Reapplied(j.start, e) = [p \in Positions |-> Reapplied(j.start, e)[p]]
  BY DEF Reapplied
<1>6. w = [p \in Positions |-> w[p]]
  BY DEF Worlds
<1>7. QED
  BY <1>4, <1>5, <1>6

LEMMA EndLosesOnlyThen ==
    ASSUME ~LateErrors, IInv, job # NoJob, NEW j, NEW how, NEW w, w = world',
           Continues(j, w), Truthful(j, w, config.verify), j.plan = job.plan,
           how = "completed" => Done(j), Ended(j, how)
    PROVE  HistoryLostOnlyThen
<1>1. /\ j \in Jobs /\ w \in Worlds /\ JobAgrees(j, w) /\ j.op = job.op
      /\ StorageAgrees(job) /\ undo \in Seq(Entries) /\ redo \in Seq(Entries)
  BY DEF Continues, IInv, JobRuns, StacksAgree
<1>2. last'.job = j /\ last'.how = how
  BY DEF Ended
<1>3. PICK tells : tells = TellsAll(j, how, w)
  OBVIOUS
<1>4. intact' = (intact /\ tells)
  BY <1>3 DEF Ended
<1>5. SUFFICES ASSUME j.op = "paste" => j.capturing,
                      j.op # "paste" => how = "completed" /\ ~(Reported(j) > 0) /\ config.verify
               PROVE  TellsAll(j, how, w)
  BY <1>2, <1>3, <1>4 DEF HistoryLostOnlyThen
<1>6. CASE j.op = "paste"
  <2>1. Tracked(j, w) /\ Once(j.changes)
    BY <1>1, <1>5, <1>6 DEF JobAgrees
  <2>2. CASE j.changes = <<>>
    <3>1. DOMAIN j.changes = {}
      BY <2>2
    <3>2. \A p \in Positions : w[p] = j.start[p]
      BY <2>1, <3>1 DEF Tracked
    <3>3. w = j.start
      BY <1>1, <3>2, JobFields DEF Worlds
    <3>4. QED
      BY <1>6, <3>3 DEF TellsAll
  <2>3. CASE j.changes # <<>>
    <3>1. PICK e : e = [changes |-> j.changes]
      OBVIOUS
    <3>2. Rewound(w, e) = j.start
      <4>1. e.changes = j.changes
        BY <3>1
      <4>2. QED
        BY <1>1, <2>1, <4>1, RewoundIs
    <3>3. HasHistory(j)
      BY <1>5, <1>6, <2>3 DEF HasHistory
    <3>4. QED
      BY <1>6, <3>1, <3>2, <3>3 DEF TellsAll
  <2>4. QED
    BY <2>2, <2>3
<1>7. CASE j.op # "paste"
  <2>1. j.op \in {"undo", "redo"} /\ how = "completed" /\ Done(j)
    BY <1>1, <1>5, <1>7, JobFields DEF Operations
  <2>2. Right(j, w)
    <3>1. Reported(j) \in Nat
      BY <1>1, CountFields
    <3>2. Reported(j) = 0 /\ config.verify
      BY <1>5, <1>7, <3>1
    <3>3. QED
      BY <3>2 DEF Truthful
  <2>3. CASE j.op = "undo"
    <3>1. undo # <<>> /\ j.plan = BeforePlan(Top(undo))
      BY <1>1, <2>3 DEF StorageAgrees
    <3>2. PICK e \in Entries : e = Top(undo)
      BY <1>1, <3>1, Poppable
    <3>3. w = Rewound(j.start, e)
      BY <1>1, <2>1, <2>2, <3>1, <3>2, UndoneWorld
    <3>4. QED
      BY <2>1, <2>3, <3>2, <3>3 DEF TellsAll
  <2>4. CASE j.op = "redo"
    <3>1. redo # <<>> /\ j.plan = AfterPlan(Top(redo))
      BY <1>1, <2>4 DEF StorageAgrees
    <3>2. PICK e \in Entries : e = Top(redo)
      BY <1>1, <3>1, Poppable
    <3>3. w = Reapplied(j.start, e)
      BY <1>1, <2>1, <2>2, <3>1, <3>2, RedoneWorld
    <3>4. QED
      BY <2>1, <2>4, <3>2, <3>3 DEF TellsAll
  <2>5. QED
    BY <2>1, <2>3, <2>4
<1>8. QED
  BY <1>6, <1>7

LEMMA StopLosesOnlyThen ==
    ASSUME ~LateErrors, IInv, job # NoJob, NEW how \in {"failed"}, Ended(job, how),
           world' = world
    PROVE  HistoryLostOnlyThen
<1>1. /\ job \in Jobs /\ world' \in Worlds /\ JobAgrees(job, world')
      /\ Truthful(job, world', config.verify)
  BY DEF IInv, TypeOK, JobRuns, Worlds
<1>2. PICK j : j = job
  OBVIOUS
<1>3. PICK w : w = world'
  OBVIOUS
<1>4. Continues(j, w) /\ j.plan = job.plan /\ Ended(j, how) /\ how # "completed"
  BY <1>1, <1>2, <1>3 DEF Continues
<1>5. QED
  BY <1>1, <1>2, <1>3, <1>4, EndLosesOnlyThen

LEMMA VisitLosesOnlyThen ==
    ASSUME ~LateErrors, IInv, Visit
    PROVE  HistoryLostOnlyThen
<1>1. /\ job # NoJob /\ job \in Jobs /\ world \in Worlds
      /\ JobAgrees(job, world) /\ job.cursor < Len(job.plan)
      /\ Truthful(job, world, config.verify)
  BY DEF Visit, IInv, TypeOK, JobRuns, Worlds
<1>2. PICK r \in RecordResults(job), lost \in BOOLEAN :
         LET j == r.job
             fails == lost \/ j.failed > config.maxFailures
         IN /\ world' = r.world
            /\ \/ fails /\ Stop(j) /\ Ended(j, "failed")
               \/ /\ ~fails /\ Done(j)
                  /\ CompletePaste(j) \/ CompleteUndo(j) \/ CompleteRedo(j)
                  /\ Ended(j, "completed")
               \/ /\ ~fails /\ ~Done(j)
                  /\ job' = j
                  /\ open' = open \ ({job.storage} \ {j.storage})
                  /\ UNCHANGED <<undo, redo, last, intact>>
  BY DEF Visit
<1>3. PICK j : j = r.job
  OBVIOUS
<1>4. PICK w : w = world'
  OBVIOUS
<1>5. Follows(job, j, w) /\ Truthful(j, w, config.verify)
  BY <1>1, <1>2, <1>3, <1>4, RecordFollows
<1>6. Continues(j, w) /\ j.plan = job.plan
  BY <1>5 DEF Follows, Continues
<1>7. ASSUME NEW how \in {"failed", "completed"}, Ended(j, how), how = "completed" => Done(j)
      PROVE  HistoryLostOnlyThen
  BY <1>1, <1>4, <1>5, <1>6, <1>7, EndLosesOnlyThen
<1>8. CASE Ended(j, "failed")
  BY <1>7, <1>8
<1>9. CASE Done(j) /\ Ended(j, "completed")
  BY <1>7, <1>9
<1>10. CASE UNCHANGED <<undo, redo, last, intact>>
  BY <1>10 DEF HistoryLostOnlyThen
<1>11. QED
  BY <1>2, <1>3, <1>8, <1>9, <1>10


----------------------------------------------------------------------------

\* World, jobs, stacks and storages keep their types: a running job has a record left.
THEOREM HistoryTypeCorrect == Spec => []TypeOK
<1>1. IInv => TypeOK
  BY DEF IInv
<1>2. QED
  BY <1>1, InvariantHolds, PTL

\* The limits hold for both stacks, and the open storages are those of their entries and
\* of the running paste: _push_undo_history and the ends of all jobs leak or share none.
THEOREM HistoryAlwaysAccounted == Spec => []HistoryAccounted
<1>1. ASSUME IInv PROVE HistoryAccounted
  <2>1. StacksAgree(undo, redo) /\ OpenAgrees /\ JobRuns
    BY <1>1 DEF IInv
  <2>2. Cardinality(StoragesOf(undo) \cup StoragesOf(redo)) = Len(undo) + Len(redo)
    BY <2>1, CountStorages DEF StacksAgree
  <2>3. QED
    BY <2>1, <2>2 DEF StacksAgree, OpenAgrees, JobRuns, StorageAgrees, HistoryAccounted
<1>2. QED
  BY <1>1, InvariantHolds, PTL

\* With verify_paste_writes, a job that _complete_paste_job ended left no more blocks of a
\* wrong type than it counts failed or unavailable, and its whole plan in the world if it
\* counts nothing, whatever became of the single records: already there, placed, skipped,
\* substituted, written in default states, without a block entity, or failed.
THEOREM CompletedPlansInWorld == Spec => []CompletedPlanIsInWorld
<1>1. IInv => CompletedPlanIsInWorld
  BY DEF IInv
<1>2. QED
  BY <1>1, InvariantHolds, PTL

\* As long as no write raises after it took effect, the entry on top of the undo stack
\* leads from the world a paste left back to the one it started from, and forth again,
\* whether the paste completed, failed or lost its chunk.
THEOREM PasteAlwaysUndoable == ~LateErrors /\ Spec => []PasteIsUndoable
<1>1. SUFFICES ASSUME ~LateErrors PROVE Spec => []PasteIsUndoable
  OBVIOUS
<1>2. IInv => PasteIsUndoable
  BY <1>1 DEF IInv
<1>3. QED
  BY <1>2, InvariantHolds, PTL

\* As long as no change went unrecorded, undo and redo are exact inverses through all the
\* worlds of both stacks, whatever was pasted, undone, redone, cancelled or evicted, and
\* even when a write raises after it took effect.
THEOREM HistoryAlwaysTimeline == Spec => []HistoryIsTimeline
<1>1. ASSUME IInv, Timeline PROVE HistoryIsTimeline
  <2>1. SUFFICES ASSUME intact, job = NoJob
                 PROVE  /\ \A k \in DOMAIN undo : Reapplied(Past[k], undo[k]) = Past[k + 1]
                        /\ \A k \in DOMAIN redo : Rewound(Future[k], redo[k]) = Future[k + 1]
    BY DEF HistoryIsTimeline
  <2>2. undo \in Seq(Entries) /\ redo \in Seq(Entries)
    BY <1>1 DEF IInv, StacksAgree
  <2>3. Tells("past", undo, world) /\ Tells("future", redo, world)
    BY <1>1, <2>1 DEF Timeline, Present
  <2>4. QED
    BY <2>2, <2>3, PastTold, FutureTold
<1>2. QED
  BY <1>1, InvariantHolds, TimelineHolds, PTL

\* As long as no write raises after it took effect, a change escapes the history only by a
\* paste that does not capture (the plan or its block entities exceed the limits) or by an
\* undo or redo that was stopped, counts a record it could not write as it was, or is not
\* verified: no cancelled or failed paste, no
\* eviction and no redo makes the history lie.
THEOREM HistoryLosesLittle == ~LateErrors /\ Spec => [][HistoryLostOnlyThen]_vars
<1>1. SUFFICES ASSUME ~LateErrors PROVE Spec => [][HistoryLostOnlyThen]_vars
  OBVIOUS
<1>2. ASSUME IInv, Next PROVE HistoryLostOnlyThen
  <2>1. ASSUME NEW plan \in Plans, StartPaste(plan) PROVE HistoryLostOnlyThen
    BY <2>1 DEF StartPaste, HistoryLostOnlyThen
  <2>2. CASE StartUndo \/ StartRedo
    BY <2>2 DEF StartUndo, StartRedo, StartHistoryAction, HistoryLostOnlyThen
  <2>3. CASE Visit
    BY <1>1, <1>2, <2>3, VisitLosesOnlyThen
  <2>4. CASE LoseChunk
    BY <1>1, <1>2, <2>4, StopLosesOnlyThen DEF LoseChunk
  <2>5. CASE Abort
    BY <1>1, <1>2, <2>5, StopLosesOnlyThen DEF Abort
  <2>6. CASE Restart
    BY <2>6 DEF Restart, HistoryLostOnlyThen
  <2>7. QED
    BY <1>2, <2>1, <2>2, <2>3, <2>4, <2>5, <2>6 DEF Next
<1>3. IInv /\ [Next]_vars => [HistoryLostOnlyThen]_vars
  BY <1>2
<1>4. QED
  BY <1>3, InvariantHolds, PTL DEF Spec

=============================================================================
