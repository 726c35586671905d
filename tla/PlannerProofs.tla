---------------------------- MODULE PlannerProofs ----------------------------
(***************************************************************************)
(* For selections, schematics, anchors, rotations and batches of every     *)
(* size: a scan visits its selection once, turning maps a box onto the     *)
(* turned box and turns the states of its blocks with it, and a plan built *)
(* in batches is the one prepare_paste_plan makes in memory.  For payloads *)
(* with every damage and pieces of every size: the decoder that is fed     *)
(* pieces is the one that has the whole stream, what a load makes the      *)
(* placement is what the scan saved, and the Sponge file of a schematic is *)
(* read back as that schematic.  For block entities with values of every   *)
(* kind and nesting: a paste restores what the save captured, or an error  *)
(* says that it did not.                                                   *)
(*                                                                         *)
(* The plan needs an invariant of the scattering: after a batch, the       *)
(* buffer holds, from the start of every chunk's range, those records of   *)
(* the plan that the batches so far had for the chunk, and the chunk's     *)
(* offset is behind them.  What the invariant speaks of is built up in     *)
(* sections: Selected, FlattenSeq and EndsOf as the recursions they are,   *)
(* buckets that batches continue, records as units of a buffer and back    *)
(* through the window, and the digits that number the blocks of a region.  *)
(*                                                                         *)
(* The load needs an invariant of the reading: a decoder that has not      *)
(* failed holds what the stream has up to the units that were read, either *)
(* as it was read, while the head is incomplete, or as the head that       *)
(* decode_schematic would parse and the record units behind it; a decoder  *)
(* that has failed did so for a reason for which the whole stream is       *)
(* refused.  Its sections are the stream as four pieces that lie one       *)
(* behind the other, what a prefix of a stream shows of its head, and      *)
(* which damage makes which check fail.                                    *)
(*                                                                         *)
(* The Sponge file needs no more of the state than which blocks a record   *)
(* names.  Its sections are the palette that names every block of Java     *)
(* once, a varint as digits that a reader takes back byte by byte, varints *)
(* one behind the other, and a place as digits that number the blocks.     *)
(*                                                                         *)
(* The block entities need no more of the state than that the payloads of  *)
(* the schematic are those that were captured.  That a value is read back  *)
(* is an induction on the levels that reading has left, for any number of  *)
(* levels that writing had: a value that comes back is the one there was,  *)
(* and it does come back when no member of it lies deeper than the levels  *)
(* reach, a scalar's number being one level below the scalar.              *)
(***************************************************************************)
EXTENDS EntityRestore, FiniteSetTheorems, SequenceTheorems, WellFoundedInduction, TLAPS

----------------------------------------------------------------------------
(* Numbers, recursive functions and sequences. *)

\* A nonempty set of naturals has a least element.
LEMMA LeastNatural ==
    ASSUME NEW S \in SUBSET Nat, S # {}
    PROVE  \E m \in S : \A n \in S : m <= n
<1>1. PICK m \in S : \A n \in S : <<n, m>> \notin OpToRel(<, Nat)
  BY NatLessThanWellFounded, WFMin
<1>2. \A n \in S : ~(n < m)
  BY <1>1 DEF OpToRel
<1>3. QED
  BY <1>2

\* A set that holds zero and, with a number, the next holds all numbers up to n.
LEMMA UpTo ==
    ASSUME NEW n \in Nat, NEW S, 0 \in S, \A k \in 1 .. n : k - 1 \in S => k \in S
    PROVE  \A k \in 0 .. n : k \in S
<1>1. SUFFICES ASSUME NEW o \in 0 .. n, o \notin S PROVE FALSE
  OBVIOUS
<1>2. PICK missing : missing = {k \in 0 .. n : k \notin S}
  OBVIOUS
<1>3. missing \in SUBSET Nat /\ o \in missing
  BY <1>1, <1>2
<1>4. PICK m \in missing : \A k \in missing : m <= k
  BY <1>3, LeastNatural
<1>5. m \in 1 .. n
  BY <1>2, <1>4
<1>6. m - 1 \in 0 .. n /\ ~(m <= m - 1)
  BY <1>5
<1>7. m - 1 \in S
  BY <1>2, <1>4, <1>6
<1>8. QED
  BY <1>2, <1>4, <1>5, <1>7

\* f starts with base and takes the steps of g.
Iterates(f, base, g, n) == f[0] = base /\ \A k \in 1 .. n : f[k] = g[k][f[k - 1]]

\* Steps on V, one after the other, have a run.
LEMMA IterateExists ==
    ASSUME NEW n \in Nat, NEW V, NEW base \in V, NEW g \in [1 .. n -> [V -> V]]
    PROVE  \E f \in [0 .. n -> V] : Iterates(f, base, g, n)
<1> DEFINE S == {k \in 0 .. n : \E f \in [0 .. k -> V] : Iterates(f, base, g, k)}
<1>1. 0 \in S
  <2>1. PICK f : f = [k \in 0 .. 0 |-> base]
    OBVIOUS
  <2>2. f \in [0 .. 0 -> V] /\ Iterates(f, base, g, 0)
    BY <2>1 DEF Iterates
  <2>3. QED
    BY <2>2
<1>2. ASSUME NEW k \in 1 .. n, k - 1 \in S PROVE k \in S
  <2>1. PICK f \in [0 .. k - 1 -> V] : Iterates(f, base, g, k - 1)
    BY <1>2
  <2>2. f[k - 1] \in V /\ g[k] \in [V -> V]
    OBVIOUS
  <2>3. PICK next \in V : next = g[k][f[k - 1]]
    BY <2>2
  <2>4. PICK h : h = [i \in 0 .. k |-> IF i = k THEN next ELSE f[i]]
    OBVIOUS
  <2>5. h \in [0 .. k -> V]
    BY <2>4
  <2>6. h[k] = next /\ \A i \in 0 .. k - 1 : h[i] = f[i]
    BY <2>4
  <2>7. h[0] = base
    BY <2>1, <2>6 DEF Iterates
  <2>8. ASSUME NEW i \in 1 .. k PROVE h[i] = g[i][h[i - 1]]
    BY <2>1, <2>3, <2>6 DEF Iterates
  <2>9. Iterates(h, base, g, k)
    BY <2>7, <2>8 DEF Iterates
  <2>10. QED
    BY <2>5, <2>9
<1> HIDE DEF S
<1>3. n \in S
  <2>1. \A k \in 0 .. n : k \in S
    BY <1>1, <1>2, UpTo
  <2>2. QED
    BY <2>1
<1>4. QED
  BY <1>3 DEF S

\* The ends of ranges of these lengths.
EndsAt(f, counts, n) == f[0] = 0 /\ \A k \in 1 .. n : f[k] = f[k - 1] + counts[k]

\* EndsOf is the running sum it is defined to be.
LEMMA EndsOfIs ==
    ASSUME NEW n \in Nat, NEW counts \in [1 .. n -> Nat]
    PROVE  EndsOf(counts) \in [0 .. n -> Nat] /\ EndsAt(EndsOf(counts), counts, n)
<1>1. Len(counts) = n
  OBVIOUS
<1>2. PICK g : g = [k \in 1 .. n |-> [v \in Nat |-> v + counts[k]]]
  OBVIOUS
<1>3. g \in [1 .. n -> [Nat -> Nat]]
  BY <1>2
<1>4. PICK f \in [0 .. n -> Nat] : Iterates(f, 0, g, n)
  BY <1>3, IterateExists
<1>5. ASSUME NEW k \in 0 .. n
      PROVE  f[k] = IF k = 0 THEN 0 ELSE f[k - 1] + counts[k]
  <2>1. CASE k = 0
    BY <1>4, <2>1 DEF Iterates
  <2>2. CASE k # 0
    <3>1. k \in 1 .. n /\ k - 1 \in 0 .. n
      BY <2>2
    <3>2. f[k] = g[k][f[k - 1]] /\ f[k - 1] \in Nat
      BY <1>4, <3>1 DEF Iterates
    <3>3. QED
      BY <1>2, <2>2, <3>1, <3>2
  <2>3. QED
    BY <2>1, <2>2
<1>6. f = [k \in 0 .. n |-> IF k = 0 THEN 0 ELSE f[k - 1] + counts[k]]
  BY <1>5
<1>7. PICK e : /\ e = [k \in 0 .. n |-> IF k = 0 THEN 0 ELSE e[k - 1] + counts[k]]
               /\ EndsOf(counts) = e
  BY <1>1, <1>6 DEF EndsOf
<1>8. e[0] = 0 /\ \A k \in 1 .. n : e[k] = e[k - 1] + counts[k]
  BY <1>7
<1>9. \A k \in 0 .. n : e[k] \in Nat
  <2> DEFINE S == {k \in 0 .. n : e[k] \in Nat}
  <2>1. 0 \in S
    BY <1>8
  <2>2. ASSUME NEW k \in 1 .. n, k - 1 \in S PROVE k \in S
    BY <1>8, <2>2
  <2> HIDE DEF S
  <2>3. \A k \in 0 .. n : k \in S
    BY <2>1, <2>2, UpTo
  <2>4. QED
    BY <2>3 DEF S
<1>10. e \in [0 .. n -> Nat]
  BY <1>7, <1>9
<1>11. QED
  BY <1>7, <1>8, <1>10 DEF EndsAt

\* A running sum of naturals does not decrease.
LEMMA EndsGrow ==
    ASSUME NEW n \in Nat, NEW counts \in [1 .. n -> Nat], NEW f \in [0 .. n -> Nat],
           EndsAt(f, counts, n), NEW i \in 0 .. n, NEW j \in 0 .. n, i <= j
    PROVE  f[i] <= f[j]
<1> DEFINE S == {k \in 0 .. n : i <= k => f[i] <= f[k]}
<1>1. 0 \in S
  OBVIOUS
<1>2. ASSUME NEW k \in 1 .. n, k - 1 \in S PROVE k \in S
  <2>1. f[k] = f[k - 1] + counts[k] /\ f[k - 1] \in Nat /\ counts[k] \in Nat /\ f[i] \in Nat
    BY DEF EndsAt
  <2>2. CASE i <= k - 1
    BY <1>2, <2>1, <2>2
  <2>3. CASE i = k
    BY <2>1, <2>3
  <2>4. CASE i > k
    BY <2>4
  <2>5. QED
    BY <2>2, <2>3, <2>4
<1> HIDE DEF S
<1>3. \A k \in 0 .. n : k \in S
  BY <1>1, <1>2, UpTo
<1>4. QED
  BY <1>3 DEF S

\* Every place up to the last end lies in a range.
LEMMA EndsCover ==
    ASSUME NEW n \in Nat, NEW f \in [0 .. n -> Nat], f[0] = 0, NEW q \in 1 .. f[n]
    PROVE  \E k \in 1 .. n : f[k - 1] < q /\ q <= f[k]
<1>1. PICK above : above = {k \in 0 .. n : q <= f[k]}
  OBVIOUS
<1>2. above \in SUBSET Nat /\ n \in above
  BY <1>1
<1>3. PICK k \in above : \A l \in above : k <= l
  BY <1>2, LeastNatural
<1>4. k \in 1 .. n /\ k - 1 \in 0 .. n /\ ~(k <= k - 1)
  BY <1>1, <1>3
<1>5. ~(q <= f[k - 1]) /\ f[k - 1] \in Nat /\ q \in Nat
  BY <1>1, <1>3, <1>4
<1>6. QED
  BY <1>1, <1>3, <1>4, <1>5

\* Selecting, element by element.
Selects(f, s, S, n) ==
    f[0] = <<>> /\ \A k \in 1 .. n : f[k] = IF s[k] \in S THEN Append(f[k - 1], s[k]) ELSE f[k - 1]

\* Selected is what its recursion says, step by step.
LEMMA SelectedIs ==
    ASSUME NEW V, NEW s \in Seq(V), NEW S
    PROVE  \E f : Selects(f, s, S, Len(s)) /\ Selected(s, S) = f[Len(s)]
<1>1. PICK n \in Nat : n = Len(s)
  OBVIOUS
<1>2. PICK g : g = [k \in 1 .. n |-> [v \in Seq(V) |-> IF s[k] \in S THEN Append(v, s[k]) ELSE v]]
  OBVIOUS
<1>3. g \in [1 .. n -> [Seq(V) -> Seq(V)]]
  BY <1>1, <1>2
<1>4. <<>> \in Seq(V)
  BY EmptySeq
<1>5. PICK f \in [0 .. n -> Seq(V)] : Iterates(f, <<>>, g, n)
  BY <1>3, <1>4, IterateExists
<1>6. ASSUME NEW k \in 0 .. n
      PROVE  f[k] = IF k = 0 THEN <<>>
                    ELSE IF s[k] \in S THEN Append(f[k - 1], s[k]) ELSE f[k - 1]
  <2>1. CASE k = 0
    BY <1>5, <2>1 DEF Iterates
  <2>2. CASE k # 0
    <3>1. k \in 1 .. n /\ k - 1 \in 0 .. n
      BY <2>2
    <3>2. f[k] = g[k][f[k - 1]] /\ f[k - 1] \in Seq(V)
      BY <1>5, <3>1 DEF Iterates
    <3>3. QED
      BY <1>2, <2>2, <3>1, <3>2
  <2>3. QED
    BY <2>1, <2>2
<1>7. f = [k \in 0 .. n |-> IF k = 0 THEN <<>>
                           ELSE IF s[k] \in S THEN Append(f[k - 1], s[k]) ELSE f[k - 1]]
  BY <1>6
<1>8. PICK e : /\ e = [k \in 0 .. n |-> IF k = 0 THEN <<>>
                                       ELSE IF s[k] \in S THEN Append(e[k - 1], s[k]) ELSE e[k - 1]]
               /\ Selected(s, S) = e[n]
  BY <1>1, <1>7 DEF Selected
<1>9. Selects(e, s, S, n)
  <2>1. 0 \in 0 .. n /\ \A k \in 1 .. n : k \in 0 .. n /\ k # 0
    OBVIOUS
  <2>2. QED
    BY <1>8, <2>1 DEF Selects
<1>10. QED
  BY <1>1, <1>8, <1>9

\* Runs that select alike end alike.
LEMMA SelectsAgree ==
    ASSUME NEW n \in Nat, NEW s, NEW t, NEW S, NEW T, NEW e, NEW f,
           Selects(e, s, S, n), Selects(f, t, T, n),
           \A k \in 1 .. n : s[k] = t[k] /\ (s[k] \in S <=> t[k] \in T)
    PROVE  e[n] = f[n]
<1> DEFINE Z == {k \in 0 .. n : e[k] = f[k]}
<1>1. 0 \in Z
  BY DEF Selects
<1>2. ASSUME NEW k \in 1 .. n, k - 1 \in Z PROVE k \in Z
  BY <1>2 DEF Selects
<1> HIDE DEF Z
<1>3. \A k \in 0 .. n : k \in Z
  BY <1>1, <1>2, UpTo
<1>4. QED
  BY <1>3 DEF Z

\* Of two sets that hold the same elements of a sequence, both select the same.
LEMMA SelectedSame ==
    ASSUME NEW V, NEW s \in Seq(V), NEW S, NEW T, \A k \in 1 .. Len(s) : s[k] \in S <=> s[k] \in T
    PROVE  Selected(s, S) = Selected(s, T)
<1>1. PICK n \in Nat : n = Len(s)
  OBVIOUS
<1>2. PICK e : Selects(e, s, S, n) /\ Selected(s, S) = e[n]
  BY <1>1, SelectedIs
<1>3. PICK f : Selects(f, s, T, n) /\ Selected(s, T) = f[n]
  BY <1>1, SelectedIs
<1>4. \A k \in 1 .. n : s[k] = s[k] /\ (s[k] \in S <=> s[k] \in T)
  BY <1>1
<1>5. PICK t : t = s
  OBVIOUS
<1>6. Selects(f, t, T, n) /\ \A k \in 1 .. n : s[k] = t[k] /\ (s[k] \in S <=> t[k] \in T)
  BY <1>3, <1>4, <1>5
<1>7. e[n] = f[n]
  BY <1>2, <1>6, SelectsAgree
<1>8. QED
  BY <1>2, <1>3, <1>7

\* What is selected of the first n + 1 elements.
LEMMA SelectedAppend ==
    ASSUME NEW V, NEW s \in Seq(V), NEW v \in V, NEW S
    PROVE  Selected(Append(s, v), S) = IF v \in S THEN Append(Selected(s, S), v) ELSE Selected(s, S)
<1>1. PICK n \in Nat : n = Len(s)
  OBVIOUS
<1>2. PICK l : l = Append(s, v)
  OBVIOUS
<1>3. l \in Seq(V) /\ Len(l) = n + 1 /\ l[n + 1] = v /\ \A k \in 1 .. n : l[k] = s[k]
  BY <1>1, <1>2, AppendProperties
<1>4. PICK f : Selects(f, s, S, n) /\ Selected(s, S) = f[n]
  BY <1>1, SelectedIs
<1>5. PICK e : Selects(e, l, S, n + 1) /\ Selected(l, S) = e[n + 1]
  BY <1>3, SelectedIs
<1>6. Selects(e, l, S, n)
  BY <1>5 DEF Selects
<1>7. \A k \in 1 .. n : l[k] = s[k] /\ (l[k] \in S <=> s[k] \in S)
  BY <1>3
<1>8. e[n] = f[n]
  BY <1>4, <1>6, <1>7, SelectsAgree
<1>9. e[n + 1] = IF v \in S THEN Append(e[n], v) ELSE e[n]
  BY <1>3, <1>5 DEF Selects
<1>10. QED
  BY <1>2, <1>4, <1>5, <1>8, <1>9

\* A piece of a sequence is the piece one shorter and its last element.
LEMMA SubSeqAppend ==
    ASSUME NEW V, NEW s \in Seq(V), NEW m \in 1 .. Len(s), NEW n \in m .. Len(s)
    PROVE  /\ SubSeq(s, m, n - 1) \in Seq(V) /\ s[n] \in V
           /\ SubSeq(s, m, n) = Append(SubSeq(s, m, n - 1), s[n])
<1>1. PICK l \in Nat : l = Len(s)
  OBVIOUS
<1>2. m \in 1 .. l /\ n \in m .. l /\ \A k \in 1 .. l : s[k] \in V
  BY <1>1
<1>3. s[n] \in V /\ \A k \in m .. n - 1 : s[k] \in V
  BY <1>2
<1>4. m \in Int /\ n - 1 \in Int
  BY <1>2
<1>5. SubSeq(s, m, n - 1) \in Seq(V)
  BY <1>3, <1>4, SubSeqProperties
<1>6. SubSeq(s, m, n) = SubSeq(s, m, n - 1) \o <<s[n]>>
  BY SubSeqRecursiveSecond
<1>7. SubSeq(s, m, n - 1) \o <<s[n]>> = Append(SubSeq(s, m, n - 1), s[n])
  BY <1>3, <1>5, AppendIsConcat
<1>8. QED
  BY <1>3, <1>5, <1>6, <1>7

\* Nothing is selected from nothing.
LEMMA SelectedEmpty ==
    ASSUME NEW S
    PROVE  Selected(<<>>, S) = <<>>
BY EmptySeq, SelectedIs DEF Selects

\* What each further element of a sequence adds to the selection.
LEMMA SelectedPrefix ==
    ASSUME NEW V, NEW s \in Seq(V), NEW S
    PROVE  /\ Selected(SubSeq(s, 1, 0), S) = <<>>
           /\ \A k \in 1 .. Len(s) :
                Selected(SubSeq(s, 1, k), S)
                  = IF s[k] \in S THEN Append(Selected(SubSeq(s, 1, k - 1), S), s[k])
                    ELSE Selected(SubSeq(s, 1, k - 1), S)
<1>1. SubSeq(s, 1, 0) = <<>>
  BY SubSeqEmpty
<1>2. ASSUME NEW k \in 1 .. Len(s)
      PROVE  Selected(SubSeq(s, 1, k), S)
               = IF s[k] \in S THEN Append(Selected(SubSeq(s, 1, k - 1), S), s[k])
                 ELSE Selected(SubSeq(s, 1, k - 1), S)
  <2>1. 1 \in 1 .. Len(s) /\ Len(s) \in Nat
    OBVIOUS
  <2>2. /\ SubSeq(s, 1, k - 1) \in Seq(V) /\ s[k] \in V
        /\ SubSeq(s, 1, k) = Append(SubSeq(s, 1, k - 1), s[k])
    BY <2>1, SubSeqAppend
  <2>3. PICK t \in Seq(V), v \in V : t = SubSeq(s, 1, k - 1) /\ v = s[k]
    BY <2>2
  <2>4. Selected(Append(t, v), S) = IF v \in S THEN Append(Selected(t, S), v) ELSE Selected(t, S)
    BY SelectedAppend
  <2>5. QED
    BY <2>2, <2>3, <2>4
<1>3. QED
  BY <1>1, <1>2, SelectedEmpty

\* q holds the elements among the first k of s that are in S.
HoldsOf(q, s, k, V, S) ==
    /\ q \in Seq(V \cap S) /\ Len(q) <= k
    /\ ToSet(q) = {s[m] : m \in 1 .. k} \cap S

\* The elements selected are those of the sequence that are in S.
LEMMA SelectedElements ==
    ASSUME NEW V, NEW s \in Seq(V), NEW S
    PROVE  /\ Selected(s, S) \in Seq(V \cap S)
           /\ ToSet(Selected(s, S)) = {s[k] : k \in 1 .. Len(s)} \cap S
           /\ Len(Selected(s, S)) <= Len(s)
<1>1. PICK n \in Nat : n = Len(s)
  OBVIOUS
<1>2. PICK p : p = [k \in 0 .. n |-> Selected(SubSeq(s, 1, k), S)]
  OBVIOUS
<1>3. p[0] = <<>>
  BY <1>1, <1>2, SelectedPrefix
<1>4. \A k \in 1 .. n : p[k] = IF s[k] \in S THEN Append(p[k - 1], s[k]) ELSE p[k - 1]
  BY <1>1, <1>2, SelectedPrefix
<1>5. \A k \in 1 .. n : s[k] \in V
  BY <1>1
<1> DEFINE Z == {k \in 0 .. n : HoldsOf(p[k], s, k, V, S)}
<1>6. 0 \in Z
  <2>1. <<>> \in Seq(V \cap S) /\ Len(<<>>) = 0 /\ DOMAIN <<>> = {}
    BY EmptySeq
  <2>2. ToSet(<<>>) = {}
    BY <2>1 DEF ToSet
  <2>3. 1 .. 0 = {}
    OBVIOUS
  <2>4. {s[m] : m \in 1 .. 0} \cap S = {}
    BY <2>3
  <2>5. HoldsOf(<<>>, s, 0, V, S)
    BY <2>1, <2>2, <2>4 DEF HoldsOf
  <2>6. QED
    BY <1>3, <2>5
<1>7. ASSUME NEW k \in 1 .. n, k - 1 \in Z PROVE k \in Z
  <2>1. PICK q \in Seq(V \cap S) : q = p[k - 1]
    BY <1>7 DEF HoldsOf
  <2>2. Len(q) <= k - 1 /\ ToSet(q) = {s[m] : m \in 1 .. k - 1} \cap S
    BY <1>7, <2>1 DEF HoldsOf
  <2>3. PICK v \in V : v = s[k]
    BY <1>5
  <2>4. {s[m] : m \in 1 .. k} = {s[m] : m \in 1 .. k - 1} \cup {v}
    BY <2>3
  <2>5. CASE v \in S
    <3>1. p[k] = Append(q, v)
      BY <1>4, <2>1, <2>3, <2>5
    <3>2. PICK a : a = Append(q, v)
      OBVIOUS
    <3>3. /\ a \in Seq(V \cap S) /\ Len(a) = Len(q) + 1
          /\ \A i \in 1 .. Len(q) : a[i] = q[i]
          /\ a[Len(q) + 1] = v
      BY <2>5, <3>2, AppendProperties
    <3>4. ToSet(a) = ToSet(q) \cup {v}
      BY <3>3, LenProperties DEF ToSet
    <3>5. ToSet(a) = {s[m] : m \in 1 .. k} \cap S
      BY <2>2, <2>4, <2>5, <3>4
    <3>6. Len(a) <= k
      BY <2>2, <3>3, LenProperties
    <3>7. HoldsOf(a, s, k, V, S)
      BY <3>3, <3>5, <3>6 DEF HoldsOf
    <3>8. p[k] = a /\ k \in 0 .. n
      BY <3>1, <3>2
    <3>9. HoldsOf(p[k], s, k, V, S)
      BY <3>7, <3>8
    <3>10. QED
      BY <3>8, <3>9
  <2>6. CASE v \notin S
    BY <1>4, <2>1, <2>2, <2>3, <2>4, <2>6, LenProperties DEF HoldsOf
  <2>7. QED
    BY <2>5, <2>6
<1> HIDE DEF Z
<1>8. \A k \in 0 .. n : k \in Z
  BY <1>6, <1>7, UpTo
<1>9. HoldsOf(p[n], s, n, V, S)
  BY <1>8 DEF Z
<1>10. p[n] = Selected(s, S)
  BY <1>1, <1>2, SubSeqFull
<1>11. QED
  BY <1>1, <1>9, <1>10 DEF HoldsOf

\* Selecting in two parts.
InTwoParts(s, S, b, e) ==
    Selected(SubSeq(s, 1, e), S)
      = Selected(SubSeq(s, 1, b), S) \o Selected(SubSeq(s, b + 1, e), S)

\* A slice is selected from the start in such parts.
LEMMA SelectedSlice ==
    ASSUME NEW V, NEW s \in Seq(V), NEW S, NEW e \in 0 .. Len(s), NEW b \in 0 .. e
    PROVE  InTwoParts(s, S, b, e)
<1>1. PICK n \in Nat : n = Len(s)
  OBVIOUS
<1>2. e \in 0 .. n /\ b \in 0 .. e /\ e - b \in Nat
  BY <1>1
<1> DEFINE P(k) == Selected(SubSeq(s, 1, k), S)
           Q(j) == Selected(SubSeq(s, b + 1, b + j), S)
           Z == {j \in 0 .. e - b : P(b + j) = P(b) \o Q(j)}
<1>3. ASSUME NEW i \in 1 .. n + 1, NEW k \in 0 .. n
      PROVE  SubSeq(s, i, k) \in Seq(V) /\ Selected(SubSeq(s, i, k), S) \in Seq(V \cap S)
  <2>1. \A m \in i .. k : s[m] \in V
    BY <1>1
  <2>2. i \in Int /\ k \in Int
    OBVIOUS
  <2>3. SubSeq(s, i, k) \in Seq(V)
    BY <2>1, <2>2, SubSeqProperties
  <2>4. QED
    BY <2>3, SelectedElements
<1> HIDE DEF P
<1>11. \A i \in 1 .. Len(s) : P(i) = IF s[i] \in S THEN Append(P(i - 1), s[i]) ELSE P(i - 1)
  BY SelectedPrefix DEF P
<1> USE DEF P
<1>4. 0 \in Z
  <2>1. SubSeq(s, b + 1, b) = <<>>
    BY <1>2, SubSeqEmpty
  <2>2. Q(0) = <<>>
    <3>1. b + 0 = b
      BY <1>2
    <3>2. QED
      BY <2>1, <3>1, SelectedEmpty
  <2>3. b \in 0 .. n /\ 1 \in 1 .. n + 1
    BY <1>2
  <2>4. PICK x \in Seq(V \cap S) : x = P(b)
    BY <1>3, <2>3
  <2>5. x \o <<>> = x
    BY ConcatEmptySeq
  <2>6. b + 0 = b /\ 0 \in 0 .. e - b
    BY <1>2
  <2>7. QED
    BY <2>2, <2>4, <2>5, <2>6
<1>5. ASSUME NEW j \in 1 .. e - b, j - 1 \in Z PROVE j \in Z
  <2>1. /\ b + j \in 1 .. n /\ b + j \in b + 1 .. n /\ b + 1 \in 1 .. n
        /\ (b + j) - 1 = b + (j - 1) /\ b + (j - 1) \in 0 .. n /\ b \in 0 .. n
        /\ 1 \in 1 .. n + 1 /\ b + 1 \in 1 .. n + 1
    BY <1>2
  <2>2. PICK v \in V : v = s[b + j]
    BY <1>1, <2>1
  <2>3. P(b + j) = IF v \in S THEN Append(P(b + (j - 1)), v) ELSE P(b + (j - 1))
    BY <1>1, <1>11, <2>1, <2>2
  <2>4. /\ SubSeq(s, b + 1, b + (j - 1)) \in Seq(V)
        /\ SubSeq(s, b + 1, b + j) = Append(SubSeq(s, b + 1, b + (j - 1)), v)
    BY <1>1, <2>1, <2>2, SubSeqAppend
  <2>5. PICK t \in Seq(V) : t = SubSeq(s, b + 1, b + (j - 1))
    BY <2>4
  <2>6. Selected(Append(t, v), S) = IF v \in S THEN Append(Selected(t, S), v) ELSE Selected(t, S)
    BY SelectedAppend
  <2>7. Q(j) = IF v \in S THEN Append(Q(j - 1), v) ELSE Q(j - 1)
    BY <2>4, <2>5, <2>6
  <2>8. P(b + (j - 1)) = P(b) \o Q(j - 1)
    BY <1>5
  <2>9. PICK x \in Seq(V \cap S), y \in Seq(V \cap S) : x = P(b) /\ y = Q(j - 1)
    BY <1>3, <2>1
  <2>10. v \in S => Append(x \o y, v) = x \o Append(y, v)
    <3>1. SUFFICES ASSUME v \in S PROVE Append(x \o y, v) = x \o Append(y, v)
      OBVIOUS
    <3>2. v \in V \cap S /\ x \o y \in Seq(V \cap S) /\ <<v>> \in Seq(V \cap S)
      BY <3>1, ConcatProperties
    <3>3. Append(x \o y, v) = (x \o y) \o <<v>> /\ Append(y, v) = y \o <<v>>
      BY <3>2, AppendIsConcat
    <3>4. PICK z : z = <<v>>
      OBVIOUS
    <3>5. z \in Seq(V \cap S)
      BY <3>2, <3>4
    <3>6. (x \o y) \o z = x \o (y \o z)
      BY <3>5, ConcatAssociative
    <3>7. QED
      BY <3>3, <3>4, <3>6
  <2>11. P(b + j) = P(b) \o Q(j)
    BY <2>3, <2>7, <2>8, <2>9, <2>10
  <2>12. j \in 0 .. e - b
    BY <1>2
  <2>13. QED
    BY <2>11, <2>12
<1> HIDE DEF Z
<1>6. \A j \in 0 .. e - b : j \in Z
  BY <1>2, <1>4, <1>5, UpTo
<1>7. e - b \in Z
  BY <1>2, <1>6
<1>8. P(b + (e - b)) = P(b) \o Q(e - b)
  BY <1>7 DEF Z
<1>9. b + (e - b) = e
  BY <1>2
<1>10. QED
  BY <1>8, <1>9 DEF InTwoParts

Lengths(seqs) == [k \in 1 .. Len(seqs) |-> Len(seqs[k])]

\* q holds the first j of these sequences one after the other.
FlatOf(q, seqs, ends, j) ==
    /\ Len(q) = ends[j]
    /\ \A k \in 1 .. j : \A i \in 1 .. Len(seqs[k]) : q[ends[k - 1] + i] = seqs[k][i]

\* FlattenSeq lays its sequences one after the other.
LEMMA FlattenIs ==
    ASSUME NEW C \in Nat, NEW V, NEW seqs \in [1 .. C -> Seq(V)]
    PROVE  /\ FlattenSeq(seqs) \in Seq(V)
           /\ FlatOf(FlattenSeq(seqs), seqs, EndsOf(Lengths(seqs)), C)
<1>1. Len(seqs) = C
  OBVIOUS
<1>2. PICK counts \in [1 .. C -> Nat] : counts = Lengths(seqs)
  BY <1>1, LenProperties DEF Lengths
<1>3. PICK ends \in [0 .. C -> Nat] : ends = EndsOf(Lengths(seqs)) /\ EndsAt(ends, counts, C)
  BY <1>2, EndsOfIs
<1>4. PICK g : g = [k \in 1 .. C |-> [v \in Seq(V) |-> v \o seqs[k]]]
  OBVIOUS
<1>5. g \in [1 .. C -> [Seq(V) -> Seq(V)]]
  BY <1>4, ConcatProperties
<1>6. <<>> \in Seq(V) /\ Len(<<>>) = 0
  BY EmptySeq
<1>7. PICK f \in [0 .. C -> Seq(V)] : Iterates(f, <<>>, g, C)
  BY <1>5, <1>6, IterateExists
<1>8. f[0] = <<>> /\ \A k \in 1 .. C : f[k] = f[k - 1] \o seqs[k]
  <2>1. f[0] = <<>>
    BY <1>7 DEF Iterates
  <2>2. ASSUME NEW k \in 1 .. C PROVE f[k] = f[k - 1] \o seqs[k]
    <3>1. k - 1 \in 0 .. C
      OBVIOUS
    <3>2. f[k] = g[k][f[k - 1]] /\ f[k - 1] \in Seq(V)
      BY <1>7, <3>1 DEF Iterates
    <3>3. QED
      BY <1>4, <3>2
  <2>3. QED
    BY <2>1, <2>2
<1> DEFINE Z == {j \in 0 .. C : FlatOf(f[j], seqs, ends, j)}
<1>9. 0 \in Z
  BY <1>3, <1>6, <1>8 DEF FlatOf, EndsAt
<1>10. ASSUME NEW j \in 1 .. C, j - 1 \in Z PROVE j \in Z
  <2>1. PICK q \in Seq(V), s \in Seq(V) : q = f[j - 1] /\ s = seqs[j]
    OBVIOUS
  <2>2. FlatOf(q, seqs, ends, j - 1)
    BY <1>10, <2>1
  <2>3. PICK r : r = q \o s
    OBVIOUS
  <2>4. /\ Len(r) = Len(q) + Len(s) /\ Len(q) \in Nat /\ Len(s) \in Nat
        /\ \A i \in 1 .. Len(q) + Len(s) : r[i] = IF i <= Len(q) THEN q[i] ELSE s[i - Len(q)]
    BY <2>3, ConcatProperties, LenProperties
  <2>5. f[j] = r
    BY <1>8, <2>1, <2>3
  <2>6. ends[j] = ends[j - 1] + Len(s) /\ Len(q) = ends[j - 1]
    BY <1>1, <1>2, <1>3, <2>1, <2>2 DEF EndsAt, FlatOf, Lengths
  <2>7. ASSUME NEW k \in 1 .. j, NEW i \in 1 .. Len(seqs[k])
        PROVE  r[ends[k - 1] + i] = seqs[k][i]
    <3>1. CASE k = j
      <4>1. i \in 1 .. Len(s) /\ Len(q) + i \in 1 .. Len(q) + Len(s) /\ ~(Len(q) + i <= Len(q))
            /\ (Len(q) + i) - Len(q) = i
        BY <2>1, <2>4, <3>1
      <4>2. r[Len(q) + i] = s[i]
        BY <2>4, <4>1
      <4>3. QED
        BY <2>1, <2>6, <3>1, <4>2
    <3>2. CASE k # j
      <4>1. /\ k \in 1 .. j - 1 /\ k \in 1 .. C /\ k \in 0 .. C
            /\ k - 1 \in 0 .. C /\ j - 1 \in 0 .. C /\ k <= j - 1
        BY <3>2
      <4>2. ends[k] = ends[k - 1] + Len(seqs[k]) /\ Len(seqs[k]) \in Nat
        BY <1>1, <1>2, <1>3, <4>1 DEF EndsAt, Lengths
      <4>3. ends[k] <= ends[j - 1]
        BY <1>3, <4>1, EndsGrow
      <4>4. ends[k - 1] \in Nat /\ ends[k] \in Nat /\ ends[j - 1] \in Nat
        BY <4>1
      <4>5. PICK m : m = ends[k - 1] + i
        OBVIOUS
      <4>6. m \in 1 .. Len(q) + Len(s) /\ m <= Len(q)
        <5>1. PICK z \in Nat : z = Len(seqs[k])
          BY <4>2
        <5>2. i \in 1 .. z /\ ends[k] = ends[k - 1] + z
          BY <4>2, <5>1
        <5>3. PICK a \in Nat, b \in Nat, c \in Nat : a = ends[k - 1] /\ b = ends[k] /\ c = ends[j - 1]
          BY <4>4
        <5>4. m = a + i /\ b = a + z /\ b <= c /\ i \in 1 .. z /\ Len(q) = c
          BY <2>6, <4>3, <4>5, <5>2, <5>3
        <5>5. QED
          BY <2>4, <5>4
      <4>7. r[m] = q[m]
        BY <2>4, <4>6
      <4>8. q[m] = seqs[k][i]
        BY <2>2, <4>1, <4>5 DEF FlatOf
      <4>9. QED
        BY <4>5, <4>7, <4>8
    <3>3. QED
      BY <3>1, <3>2
  <2>8. FlatOf(r, seqs, ends, j)
    BY <2>4, <2>6, <2>7 DEF FlatOf
  <2>9. QED
    BY <2>5, <2>8
<1> HIDE DEF Z
<1>11. \A j \in 0 .. C : j \in Z
  BY <1>9, <1>10, UpTo
<1>12. FlatOf(f[C], seqs, ends, C) /\ f[C] \in Seq(V)
  BY <1>11 DEF Z
<1>13. FlattenSeq(seqs) = f[C]
  <2>1. CASE C = 0
    BY <1>1, <1>8, <2>1 DEF FlattenSeq
  <2>2. CASE C # 0
    <3>1. PICK h : h = [i \in 1 .. C |-> f[i]]
      OBVIOUS
    <3>2. ASSUME NEW i \in 1 .. C
          PROVE  h[i] = IF i = 1 THEN seqs[i] ELSE h[i - 1] \o seqs[i]
      <4>1. CASE i = 1
        <5>1. f[1] = <<>> \o seqs[1] /\ seqs[1] \in Seq(V)
          <6>1. 1 \in 1 .. C /\ 1 - 1 = 0
            BY <4>1
          <6>2. f[1] = f[0] \o seqs[1]
            BY <1>8, <6>1
          <6>3. QED
            BY <1>8, <6>1, <6>2
        <5>2. <<>> \o seqs[1] = seqs[1]
          BY <5>1, ConcatEmptySeq
        <5>3. QED
          BY <3>1, <4>1, <5>1, <5>2
      <4>2. CASE i # 1
        <5>1. i - 1 \in 1 .. C
          BY <4>2
        <5>2. QED
          BY <1>8, <3>1, <4>2, <5>1
      <4>3. QED
        BY <4>1, <4>2
    <3>3. h = [i \in 1 .. C |-> IF i = 1 THEN seqs[i] ELSE h[i - 1] \o seqs[i]]
      BY <3>1, <3>2
    <3>4. PICK e : /\ e = [i \in 1 .. C |-> IF i = 1 THEN seqs[i] ELSE e[i - 1] \o seqs[i]]
                   /\ FlattenSeq(seqs) = e[C]
      BY <1>1, <2>2, <3>3 DEF FlattenSeq
    <3> DEFINE Y == {j \in 0 .. C : j # 0 => e[j] = f[j]}
    <3>5. 0 \in Y
      OBVIOUS
    <3>6. ASSUME NEW j \in 1 .. C, j - 1 \in Y PROVE j \in Y
      <4>1. CASE j = 1
        BY <3>1, <3>2, <3>4, <4>1
      <4>2. CASE j # 1
        <5>1. e[j] = IF j = 1 THEN seqs[j] ELSE e[j - 1] \o seqs[j]
          BY <3>4
        <5>2. f[j] = f[j - 1] \o seqs[j]
          BY <1>8
        <5>3. j - 1 # 0 /\ j \in 0 .. C
          BY <4>2
        <5>4. e[j - 1] = f[j - 1]
          BY <3>6, <5>3
        <5>5. e[j] = f[j]
          BY <4>2, <5>1, <5>2, <5>4
        <5>6. QED
          BY <5>3, <5>5
      <4>3. QED
        BY <4>1, <4>2
    <3> HIDE DEF Y
    <3>7. \A j \in 0 .. C : j \in Y
      BY <3>5, <3>6, UpTo
    <3>8. C \in Y
      BY <3>7
    <3>9. e[C] = f[C]
      BY <2>2, <3>8 DEF Y
    <3>10. QED
      BY <3>4, <3>9
  <2>3. QED
    BY <2>1, <2>2
<1>14. QED
  BY <1>3, <1>12, <1>13

----------------------------------------------------------------------------
(* The order of the chunks, and the buckets. *)

Quads == Nat \X Nat \X Nat \X Nat
Triples == Int \X Int \X Int
Pairs == Int \X Int

\* A target is a chunk.
LEMMA TargetIs ==
    ASSUME NEW p \in Quads, NEW a \in Triples
    PROVE  Target(p, a) \in Pairs
<1>1. PICK x \in Nat, y \in Nat, z \in Nat, b \in Nat : p = <<x, y, z, b>>
  BY DEF Quads
<1>2. PICK u \in Int, v \in Int, w \in Int : a = <<u, v, w>>
  BY DEF Triples
<1>3. ChunkWidth \in Nat \ {0}
  BY PlannerAssumption
<1>4. Plus(p, a)[1] = x + u /\ Plus(p, a)[3] = z + w
  BY <1>1, <1>2 DEF Plus
<1>5. (x + u) \div ChunkWidth \in Int /\ (z + w) \div ChunkWidth \in Int
  BY <1>3
<1>6. QED
  BY <1>4, <1>5 DEF Target, ChunkOf, Pairs

\* A distance is a natural number.
LEMMA DistanceIs ==
    ASSUME NEW a \in Triples, NEW c \in Pairs
    PROVE  Distance(c, a) \in Int
<1>1. PICK u \in Int, v \in Int, w \in Int : a = <<u, v, w>>
  BY DEF Triples
<1>2. ChunkWidth \in Nat \ {0}
  BY PlannerAssumption
<1>3. PICK g \in Int, h \in Int : g = u \div ChunkWidth /\ h = w \div ChunkWidth
  BY <1>2
<1>4. ChunkOf(a) = <<g, h>>
  BY <1>1, <1>3 DEF ChunkOf
<1>5. PICK x \in Int, z \in Int : c = <<x, z>>
  BY DEF Pairs
<1>6. Distance(c, a) = (x - g) * (x - g) + (z - h) * (z - h)
  BY <1>4, <1>5 DEF Distance, Square
<1>7. x - g \in Int /\ z - h \in Int
  OBVIOUS
<1>8. (x - g) * (x - g) \in Int /\ (z - h) * (z - h) \in Int
  BY <1>7
<1>9. QED
  BY <1>6, <1>8

\* Of two chunks one is before the other, and only of equal ones each is.
LEMMA ChunkOrderIsTotal ==
    ASSUME NEW a \in Triples, NEW b \in Pairs, NEW c \in Pairs
    PROVE  /\ InChunkOrder(a, b, c) \/ InChunkOrder(a, c, b)
           /\ InChunkOrder(a, b, c) /\ InChunkOrder(a, c, b) => b = c
BY DistanceIs DEF Pairs, InChunkOrder

\* Chunks before one before a third are before the third.
LEMMA ChunkOrderIsTransitive ==
    ASSUME NEW a \in Triples, NEW b \in Pairs, NEW c \in Pairs, NEW d \in Pairs,
           InChunkOrder(a, b, c), InChunkOrder(a, c, d)
    PROVE  InChunkOrder(a, b, d)
BY DistanceIs DEF Pairs, InChunkOrder

\* The chunks up to c, which are the more the later c is.
ChunksUpTo(K, a, c) == {d \in K : InChunkOrder(a, d, c)}
RankOf(K, a) == [c \in K |-> Cardinality(ChunksUpTo(K, a, c))]

\* No two chunks have as many chunks before them.
LEMMA RankIsInjective ==
    ASSUME NEW a \in Triples, NEW K \in SUBSET Pairs, IsFiniteSet(K)
    PROVE  /\ Cardinality(K) \in Nat
           /\ RankOf(K, a) \in [K -> 1 .. Cardinality(K)]
           /\ \A b, c \in K : RankOf(K, a)[b] = RankOf(K, a)[c] => b = c
           /\ \A n \in 1 .. Cardinality(K) : \E c \in K : RankOf(K, a)[c] = n
<1>1. Cardinality(K) \in Nat
  BY FS_CardinalityType
<1>2. \A c \in K : ChunksUpTo(K, a, c) \in SUBSET K /\ c \in ChunksUpTo(K, a, c)
  BY ChunkOrderIsTotal DEF ChunksUpTo
<1>3. ASSUME NEW c \in K PROVE Cardinality(ChunksUpTo(K, a, c)) \in 1 .. Cardinality(K)
  BY <1>1, <1>2, FS_Subset, FS_CardinalityType, FS_EmptySet
<1>4. ASSUME NEW b \in K, NEW c \in K, InChunkOrder(a, b, c),
             Cardinality(ChunksUpTo(K, a, b)) = Cardinality(ChunksUpTo(K, a, c))
      PROVE  b = c
  <2>1. PICK U, W : U = ChunksUpTo(K, a, b) /\ W = ChunksUpTo(K, a, c)
    OBVIOUS
  <2>2. \A d \in U : d \in W
    BY <1>4, <2>1, ChunkOrderIsTransitive DEF ChunksUpTo
  <2>3. W \in SUBSET K /\ U \in SUBSET W
    BY <1>2, <2>1, <2>2
  <2>4. IsFiniteSet(W)
    BY <2>3, FS_Subset
  <2>5. U = W
    BY <1>4, <2>1, <2>3, <2>4, FS_Subset
  <2>6. c \in U
    BY <1>2, <2>1, <2>5
  <2>7. InChunkOrder(a, c, b)
    BY <2>1, <2>6 DEF ChunksUpTo
  <2>8. QED
    BY <1>4, <2>7, ChunkOrderIsTotal
<1>5. PICK r : r = RankOf(K, a)
  OBVIOUS
<1>6. r \in [K -> 1 .. Cardinality(K)] /\ \A c \in K : r[c] = Cardinality(ChunksUpTo(K, a, c))
  BY <1>3, <1>5 DEF RankOf
<1>7. \A b, c \in K : r[b] = r[c] => b = c
  <2>1. SUFFICES ASSUME NEW b \in K, NEW c \in K, r[b] = r[c] PROVE b = c
    OBVIOUS
  <2>2. InChunkOrder(a, b, c) \/ InChunkOrder(a, c, b)
    BY ChunkOrderIsTotal
  <2>3. Cardinality(ChunksUpTo(K, a, b)) = Cardinality(ChunksUpTo(K, a, c))
    BY <1>6, <2>1
  <2>4. QED
    BY <1>4, <2>2, <2>3
<1>8. \A n \in 1 .. Cardinality(K) : \E c \in K : r[c] = n
  <2>1. PICK N \in Nat : N = Cardinality(K)
    BY <1>1
  <2>2. PICK T : T = 1 .. N
    OBVIOUS
  <2>3. r \in Injection(K, T)
    BY <1>6, <1>7, <2>1, <2>2 DEF Injection, IsInjective
  <2>4. IsFiniteSet(T) /\ Cardinality(T) = N
    BY <2>2, FS_Interval
  <2>5. r \in Surjection(K, T)
    BY <2>1, <2>3, <2>4, FS_Injection
  <2>6. QED
    BY <2>1, <2>2, <2>5 DEF Surjection
<1>9. QED
  BY <1>1, <1>5, <1>6, <1>7, <1>8

\* ch lists the chunks that s goes to, each once.
Enumerates(ch, C, s, a) ==
    /\ ch \in [1 .. C -> Pairs]
    /\ \A i, j \in 1 .. C : ch[i] = ch[j] => i = j
    /\ \A n \in 1 .. Len(s) : \E i \in 1 .. C : ch[i] = Target(s[n], a)
    /\ \A i \in 1 .. C : \E n \in 1 .. Len(s) : ch[i] = Target(s[n], a)

\* OrderedChunks has every chunk that a record goes to once, and no other.
LEMMA OrderedChunksEnumerate ==
    ASSUME NEW s \in Seq(Quads), NEW a \in Triples
    PROVE  \E C \in Nat : Enumerates(OrderedChunks(s, a), C, s, a)
<1>1. PICK N \in Nat : N = Len(s) /\ DOMAIN s = 1 .. N /\ \A n \in 1 .. N : s[n] \in Quads
  BY LenProperties
<1>2. PICK K : K = {Target(s[n], a) : n \in DOMAIN s}
  OBVIOUS
<1>3. K \in SUBSET Pairs
  BY <1>1, <1>2, TargetIs
<1>4. IsFiniteSet(K)
  <2>1. IsFiniteSet(1 .. N)
    BY FS_Interval
  <2>2. PICK f : f = [n \in 1 .. N |-> Target(s[n], a)]
    OBVIOUS
  <2>3. PICK T : T = 1 .. N
    OBVIOUS
  <2>4. f \in Surjection(T, K)
    BY <1>1, <1>2, <2>2, <2>3 DEF Surjection
  <2>5. QED
    BY <2>1, <2>3, <2>4, FS_Surjection
<1>5. PICK C \in Nat : C = Cardinality(K)
  BY <1>4, FS_CardinalityType
<1>6. PICK r : r = RankOf(K, a)
  OBVIOUS
<1>7. /\ r \in [K -> 1 .. C]
      /\ \A b, c \in K : r[b] = r[c] => b = c
      /\ \A n \in 1 .. C : \E c \in K : r[c] = n
  BY <1>3, <1>4, <1>5, <1>6, RankIsInjective
<1>8. PICK ch : ch = OrderedChunks(s, a)
  OBVIOUS
<1>9. /\ ch = [n \in 1 .. C |-> ch[n]]
      /\ \A n \in 1 .. C : ch[n] = CHOOSE c \in K : r[c] = n
  <2>1. \A c \in K : r[c] = Cardinality({d \in K : InChunkOrder(a, d, c)})
    BY <1>6 DEF RankOf, ChunksUpTo
  <2>2. ch = [n \in 1 .. C |-> CHOOSE c \in K : Cardinality({d \in K : InChunkOrder(a, d, c)}) = n]
    BY <1>2, <1>5, <1>8 DEF OrderedChunks
  <2>3. ASSUME NEW n \in 1 .. C PROVE ch[n] = CHOOSE c \in K : r[c] = n
    BY <2>1, <2>2
  <2>4. ch = [n \in 1 .. C |-> ch[n]]
    <3> DEFINE Nth(n) == CHOOSE c \in K : Cardinality({d \in K : InChunkOrder(a, d, c)}) = n
    <3>1. ch = [n \in 1 .. C |-> Nth(n)]
      BY <2>2
    <3> HIDE DEF Nth
    <3>2. QED
      BY <3>1
  <2>5. QED
    BY <2>3, <2>4
<1>10. \A n \in 1 .. C : ch[n] \in K /\ r[ch[n]] = n
  BY <1>7, <1>9
<1>11. ch \in [1 .. C -> Pairs]
  BY <1>3, <1>9, <1>10
<1>12. \A i, j \in 1 .. C : ch[i] = ch[j] => i = j
  BY <1>10
<1>13. ASSUME NEW n \in 1 .. N PROVE \E i \in 1 .. C : ch[i] = Target(s[n], a)
  <2>1. PICK c \in K : c = Target(s[n], a)
    BY <1>1, <1>2
  <2>2. r[c] \in 1 .. C /\ ch[r[c]] \in K /\ r[ch[r[c]]] = r[c]
    BY <1>7, <1>10
  <2>3. ch[r[c]] = c
    BY <1>7, <2>2
  <2>4. QED
    BY <2>1, <2>2, <2>3
<1>14. ASSUME NEW i \in 1 .. C PROVE \E n \in 1 .. N : ch[i] = Target(s[n], a)
  BY <1>1, <1>2, <1>10
<1>15. Enumerates(ch, C, s, a)
  BY <1>1, <1>11, <1>12, <1>13, <1>14 DEF Enumerates
<1>16. QED
  BY <1>8, <1>15

\* The records that go to a chunk.
GoingTo(a, c) == {p \in Quads : Target(p, a) = c}

\* A bucket is a selection by a set that does not depend on the records.
LEMMA BucketIs ==
    ASSUME NEW s \in Seq(Quads), NEW a, NEW c
    PROVE  Bucket(s, a, c) = Selected(s, GoingTo(a, c))
BY LenProperties, SelectedSame DEF ToSet, GoingTo, Bucket

\* A bucket has the records that go to its chunk and no others.
LEMMA BucketElements ==
    ASSUME NEW s \in Seq(Quads), NEW a, NEW c
    PROVE  /\ Bucket(s, a, c) \in Seq(Quads)
           /\ Len(Bucket(s, a, c)) \in Nat
           /\ \A i \in 1 .. Len(Bucket(s, a, c)) :
                /\ Target(Bucket(s, a, c)[i], a) = c
                /\ \E k \in 1 .. Len(s) : s[k] = Bucket(s, a, c)[i]
           /\ \A k \in 1 .. Len(s) : Target(s[k], a) = c =>
                \E i \in 1 .. Len(Bucket(s, a, c)) : Bucket(s, a, c)[i] = s[k]
<1>1. PICK S : S = GoingTo(a, c)
  OBVIOUS
<1>2. PICK q : q = Bucket(s, a, c)
  OBVIOUS
<1>3. q = Selected(s, S)
  BY <1>1, <1>2, BucketIs
<1>4. q \in Seq(Quads \cap S) /\ ToSet(q) = {s[k] : k \in 1 .. Len(s)} \cap S
  BY <1>3, SelectedElements
<1>5. Quads \cap S = S
  BY <1>1 DEF GoingTo
<1>6. q \in Seq(S) /\ Len(q) \in Nat /\ DOMAIN q = 1 .. Len(q)
  BY <1>4, <1>5, LenProperties
<1>7. q \in Seq(Quads)
  BY <1>1, <1>6, SeqMonotonic DEF GoingTo
<1>8. \A i \in 1 .. Len(q) : q[i] \in S /\ q[i] \in ToSet(q)
  BY <1>6 DEF ToSet
<1>9. \A i \in 1 .. Len(q) : Target(q[i], a) = c /\ \E k \in 1 .. Len(s) : s[k] = q[i]
  BY <1>1, <1>4, <1>8 DEF GoingTo
<1>10. ASSUME NEW k \in 1 .. Len(s), Target(s[k], a) = c PROVE \E i \in 1 .. Len(q) : q[i] = s[k]
  BY <1>1, <1>4, <1>6, <1>10 DEF GoingTo, ToSet
<1>11. QED
  BY <1>2, <1>6, <1>7, <1>9, <1>10

\* The first k records.
LEMMA PrefixOfRecords ==
    ASSUME NEW s \in Seq(Quads), NEW k \in 0 .. Len(s)
    PROVE  /\ SubSeq(s, 1, k) \in Seq(Quads) /\ Len(SubSeq(s, 1, k)) = k
           /\ \A i \in 1 .. k : SubSeq(s, 1, k)[i] = s[i]
BY LenProperties, SubSeqProperties

\* Bucket by bucket, what one record more adds.
BucketStep(s, a, c, k) ==
    Bucket(SubSeq(s, 1, k), a, c)
      = IF Target(s[k], a) = c THEN Append(Bucket(SubSeq(s, 1, k - 1), a, c), s[k])
        ELSE Bucket(SubSeq(s, 1, k - 1), a, c)

\* A bucket grows by the records that go to its chunk.
LEMMA BucketSteps ==
    ASSUME NEW s \in Seq(Quads), NEW a, NEW c
    PROVE  /\ Bucket(SubSeq(s, 1, 0), a, c) = <<>>
           /\ \A k \in 1 .. Len(s) : BucketStep(s, a, c, k)
<1>1. PICK S : S = GoingTo(a, c)
  OBVIOUS
<1>2. \A k \in 0 .. Len(s) : Bucket(SubSeq(s, 1, k), a, c) = Selected(SubSeq(s, 1, k), S)
  BY <1>1, PrefixOfRecords, BucketIs
<1>3. /\ Selected(SubSeq(s, 1, 0), S) = <<>>
      /\ \A k \in 1 .. Len(s) :
           Selected(SubSeq(s, 1, k), S)
             = IF s[k] \in S THEN Append(Selected(SubSeq(s, 1, k - 1), S), s[k])
               ELSE Selected(SubSeq(s, 1, k - 1), S)
  BY SelectedPrefix
<1>4. \A k \in 1 .. Len(s) : s[k] \in S <=> Target(s[k], a) = c
  BY <1>1 DEF GoingTo
<1>5. 0 \in 0 .. Len(s) /\ \A k \in 1 .. Len(s) : k \in 0 .. Len(s) /\ k - 1 \in 0 .. Len(s)
  BY LenProperties
<1>6. Bucket(SubSeq(s, 1, 0), a, c) = <<>>
  BY <1>2, <1>3, <1>5
<1>7. ASSUME NEW k \in 1 .. Len(s) PROVE BucketStep(s, a, c, k)
  BY <1>2, <1>3, <1>4, <1>5 DEF BucketStep
<1>8. QED
  BY <1>6, <1>7

\* The buckets of a batch continue those of the records before it.
LEMMA BucketSlice ==
    ASSUME NEW s \in Seq(Quads), NEW a, NEW c, NEW e \in 0 .. Len(s), NEW b \in 0 .. e
    PROVE  /\ SubSeq(s, b + 1, e) \in Seq(Quads)
           /\ Bucket(SubSeq(s, 1, e), a, c)
                = Bucket(SubSeq(s, 1, b), a, c) \o Bucket(SubSeq(s, b + 1, e), a, c)
<1>1. PICK N \in Nat : N = Len(s) /\ \A n \in 1 .. N : s[n] \in Quads
  BY LenProperties
<1>2. e \in 0 .. N /\ b \in 0 .. N /\ b + 1 \in Int /\ e \in Int /\ \A i \in b + 1 .. e : i \in 1 .. N
  BY <1>1
<1>3. SubSeq(s, b + 1, e) \in Seq(Quads)
  BY <1>1, <1>2, SubSeqProperties
<1>4. SubSeq(s, 1, e) \in Seq(Quads) /\ SubSeq(s, 1, b) \in Seq(Quads)
  BY <1>1, <1>2, PrefixOfRecords
<1>5. PICK S : S = GoingTo(a, c)
  OBVIOUS
<1>6. /\ Bucket(SubSeq(s, 1, e), a, c) = Selected(SubSeq(s, 1, e), S)
      /\ Bucket(SubSeq(s, 1, b), a, c) = Selected(SubSeq(s, 1, b), S)
      /\ Bucket(SubSeq(s, b + 1, e), a, c) = Selected(SubSeq(s, b + 1, e), S)
  <2>1. ASSUME NEW q \in Seq(Quads) PROVE Bucket(q, a, c) = Selected(q, S)
    BY <1>5, BucketIs
  <2>2. QED
    BY <1>3, <1>4, <2>1
<1>7. InTwoParts(s, S, b, e)
  BY SelectedSlice
<1>8. QED
  BY <1>3, <1>6, <1>7 DEF InTwoParts

(* The plan. *)

\* Ranges of no records end at zero.
LEMMA EndsOfNone ==
    ASSUME NEW n \in Nat, NEW counts, NEW f, EndsAt(f, counts, n), \A k \in 1 .. n : counts[k] = 0
    PROVE  f[n] = 0
<1> DEFINE Z == {k \in 0 .. n : f[k] = 0}
<1>1. 0 \in Z
  BY DEF EndsAt
<1>2. ASSUME NEW k \in 1 .. n, k - 1 \in Z PROVE k \in Z
  BY <1>2 DEF EndsAt
<1> HIDE DEF Z
<1>3. \A k \in 0 .. n : k \in Z
  BY <1>1, <1>2, UpTo
<1>4. QED
  BY <1>3 DEF Z

OneMore(counts, more, m, n) ==
    more[m] = counts[m] + 1 /\ \A k \in 1 .. n : k # m => more[k] = counts[k]

\* One record more in one range moves the last end by one.
LEMMA EndsOfOneMore ==
    ASSUME NEW n \in Nat, NEW counts \in [1 .. n -> Nat], NEW more, NEW e \in [0 .. n -> Nat], NEW f,
           EndsAt(e, counts, n), EndsAt(f, more, n), NEW m \in 1 .. n,
           OneMore(counts, more, m, n)
    PROVE  f[n] = e[n] + 1
<1> DEFINE Z == {k \in 0 .. n : f[k] = IF k < m THEN e[k] ELSE e[k] + 1}
<1>1. 0 \in Z
  BY DEF EndsAt
<1>2. ASSUME NEW k \in 1 .. n, k - 1 \in Z PROVE k \in Z
  <2>1. f[k] = f[k - 1] + more[k] /\ e[k] = e[k - 1] + counts[k]
    BY DEF EndsAt
  <2>2. PICK u \in Nat, v \in Nat : u = e[k - 1] /\ v = counts[k]
    OBVIOUS
  <2>3. f[k - 1] = IF k - 1 < m THEN u ELSE u + 1
    BY <1>2, <2>2
  <2>4. more[k] = IF k = m THEN v + 1 ELSE v
    BY <2>2 DEF OneMore
  <2>5. f[k] = IF k < m THEN u + v ELSE u + v + 1
    <3>1. CASE k < m
      BY <2>1, <2>3, <2>4, <3>1
    <3>2. CASE k = m
      BY <2>1, <2>3, <2>4, <3>2
    <3>3. CASE k > m
      <4>1. ~(k - 1 < m) /\ k # m /\ ~(k < m)
        BY <3>3
      <4>2. f[k - 1] = u + 1 /\ more[k] = v
        BY <2>3, <2>4, <4>1
      <4>3. QED
        BY <2>1, <4>1, <4>2
    <3>4. QED
      BY <3>1, <3>2, <3>3
  <2>6. QED
    BY <2>1, <2>2, <2>5
<1> HIDE DEF Z
<1>3. \A k \in 0 .. n : k \in Z
  BY <1>1, <1>2, UpTo
<1>4. n \in Z /\ ~(n < m)
  BY <1>3
<1>5. QED
  BY <1>4 DEF Z

\* Every record is in one bucket.
LEMMA BucketsHoldAll ==
    ASSUME NEW s \in Seq(Quads), NEW a, NEW C \in Nat, NEW ch, Enumerates(ch, C, s, a)
    PROVE  EndsOf([k \in 1 .. C |-> Len(Bucket(s, a, ch[k]))])[C] = Len(s)
<1>1. PICK N \in Nat : N = Len(s)
  BY LenProperties
<1> DEFINE Counts(n) == [k \in 1 .. C |-> Len(Bucket(SubSeq(s, 1, n), a, ch[k]))]
           Z == {n \in 0 .. N : EndsOf(Counts(n))[C] = n}
<1>2. ASSUME NEW n \in 0 .. N
      PROVE  /\ Counts(n) \in [1 .. C -> Nat]
             /\ EndsOf(Counts(n)) \in [0 .. C -> Nat]
             /\ EndsAt(EndsOf(Counts(n)), Counts(n), C)
  BY <1>1, PrefixOfRecords, BucketElements, EndsOfIs
<1>3. 0 \in Z
  <2>1. PICK c, e : c = Counts(0) /\ e = EndsOf(c) /\ EndsAt(e, c, C)
    <3>1. 0 \in 0 .. N
      OBVIOUS
    <3>2. QED
      BY <1>2, <3>1
  <2>2. \A k \in 1 .. C : c[k] = 0
    BY <2>1, BucketSteps
  <2>3. e[C] = 0
    BY <2>1, <2>2, EndsOfNone
  <2>4. QED
    BY <2>1, <2>3
<1>4. ASSUME NEW n \in 1 .. N, n - 1 \in Z PROVE n \in Z
  <2>1. n \in 1 .. Len(s) /\ n \in 0 .. N /\ n - 1 \in 0 .. N
    BY <1>1
  <2>2. PICK m \in 1 .. C : ch[m] = Target(s[n], a)
    BY <2>1 DEF Enumerates
  <2>3. PICK v \in Quads : v = s[n]
    BY <2>1
  <2>4. ASSUME NEW k \in 1 .. C
        PROVE  Len(Bucket(SubSeq(s, 1, n), a, ch[k]))
                 = IF k = m THEN Len(Bucket(SubSeq(s, 1, n - 1), a, ch[k])) + 1
                   ELSE Len(Bucket(SubSeq(s, 1, n - 1), a, ch[k]))
    <3>1. Target(s[n], a) = ch[k] <=> k = m
      BY <2>2 DEF Enumerates
    <3>2. PICK q : q = Bucket(SubSeq(s, 1, n - 1), a, ch[k])
      OBVIOUS
    <3>3. q \in Seq(Quads)
      BY <1>1, <2>1, <3>2, PrefixOfRecords, BucketElements
    <3>4. Len(Append(q, v)) = Len(q) + 1
      BY <3>3, AppendProperties
    <3>5. Bucket(SubSeq(s, 1, n), a, ch[k]) = IF k = m THEN Append(q, v) ELSE q
      <4>1. PICK c : c = ch[k]
        OBVIOUS
      <4>2. Bucket(SubSeq(s, 1, n), a, c)
              = IF Target(s[n], a) = c THEN Append(Bucket(SubSeq(s, 1, n - 1), a, c), s[n])
                ELSE Bucket(SubSeq(s, 1, n - 1), a, c)
        <5>1. BucketStep(s, a, c, n)
          BY <2>1, BucketSteps
        <5>2. QED
          BY <5>1 DEF BucketStep
      <4>3. QED
        BY <2>3, <3>1, <3>2, <4>1, <4>2
    <3>6. QED
      BY <3>2, <3>4, <3>5
  <2>5. PICK c \in [1 .. C -> Nat], e \in [0 .. C -> Nat] :
          c = Counts(n - 1) /\ e = EndsOf(c) /\ EndsAt(e, c, C)
    BY <1>2, <2>1
  <2>6. PICK d, f : d = Counts(n) /\ f = EndsOf(d) /\ EndsAt(f, d, C)
    BY <1>2, <2>1
  <2>7. OneMore(c, d, m, C)
    BY <2>4, <2>5, <2>6 DEF OneMore
  <2>8. f[C] = e[C] + 1
    BY <2>5, <2>6, <2>7, EndsOfOneMore
  <2>9. e[C] = n - 1
    BY <1>4, <2>5
  <2>10. f[C] = n
    BY <2>8, <2>9
  <2>11. QED
    BY <2>1, <2>6, <2>10
<1> HIDE DEF Z
<1>5. \A n \in 0 .. N : n \in Z
  BY <1>3, <1>4, UpTo
<1>6. EndsOf(Counts(N))[C] = N
  BY <1>5 DEF Z
<1>7. SubSeq(s, 1, N) = s
  BY <1>1, SubSeqFull
<1>8. QED
  BY <1>1, <1>6, <1>7

----------------------------------------------------------------------------
(* The plan as ends and records. *)

\* The chunks ch in their order, where their ranges end, and the records of all ranges.
Plans(ch, C, e, M, s, a) ==
    /\ C \in Nat /\ Enumerates(ch, C, s, a)
    /\ e \in [0 .. C -> Nat] /\ e[0] = 0 /\ e[C] = Len(s)
    /\ \A k \in 1 .. C : e[k] = e[k - 1] + Len(Bucket(s, a, ch[k]))
    /\ M \in Seq(Quads) /\ Len(M) = Len(s)
    /\ \A k \in 1 .. C : \A i \in 1 .. Len(Bucket(s, a, ch[k])) :
         M[e[k - 1] + i] = Bucket(s, a, ch[k])[i]

LaidOut(ch, C, e) == [n \in 1 .. C |-> [chunk |-> ch[n], start |-> e[n - 1], end |-> e[n]]]

\* The plan made in memory has such an order, ends and records, and its ranges are theirs.
LEMMA PlanOf ==
    ASSUME NEW s \in Seq(Quads), NEW a \in Triples
    PROVE  \E ch, C, e : /\ Plans(ch, C, e, InMemoryRecords(s, a), s, a)
                         /\ RangesOf(s, a) = LaidOut(ch, C, e)
<1>1. PICK ch : ch = OrderedChunks(s, a)
  OBVIOUS
<1>2. PICK C \in Nat : Enumerates(ch, C, s, a)
  BY <1>1, OrderedChunksEnumerate
<1>3. ch \in [1 .. C -> Pairs]
  BY <1>2 DEF Enumerates
<1>4. PICK seqs \in [1 .. C -> Seq(Quads)] : seqs = [n \in 1 .. C |-> Bucket(s, a, ch[n])]
  BY BucketElements
<1>5. PICK counts : counts = [n \in 1 .. C |-> Len(Bucket(s, a, ch[n]))]
  OBVIOUS
<1>6. counts \in [1 .. C -> Nat] /\ Lengths(seqs) = counts
  BY <1>4, <1>5, BucketElements DEF Lengths
<1>7. PICK e \in [0 .. C -> Nat] : e = EndsOf(counts) /\ EndsAt(e, counts, C)
  BY <1>6, EndsOfIs
<1>8. PICK M \in Seq(Quads) : M = FlattenSeq(seqs) /\ FlatOf(M, seqs, e, C)
  BY <1>6, <1>7, FlattenIs
<1>9. e[C] = Len(s)
  BY <1>2, <1>5, <1>7, BucketsHoldAll
<1>10. Plans(ch, C, e, M, s, a)
  <2>1. \A k \in 1 .. C : e[k] = e[k - 1] + Len(Bucket(s, a, ch[k]))
    BY <1>5, <1>7 DEF EndsAt
  <2>2. e[0] = 0
    BY <1>7 DEF EndsAt
  <2>3. \A k \in 1 .. C : \A i \in 1 .. Len(Bucket(s, a, ch[k])) :
          M[e[k - 1] + i] = Bucket(s, a, ch[k])[i]
    BY <1>4, <1>8 DEF FlatOf
  <2>4. Len(M) = Len(s)
    BY <1>8, <1>9 DEF FlatOf
  <2>5. QED
    BY <1>2, <1>7, <1>8, <1>9, <2>1, <2>2, <2>3, <2>4 DEF Plans
<1>11. DOMAIN ch = 1 .. C
  BY <1>3
<1>12. InMemoryRecords(s, a) = M
  BY <1>1, <1>4, <1>8, <1>11 DEF InMemoryRecords
<1>13. RangesOf(s, a) = LaidOut(ch, C, e)
  BY <1>1, <1>5, <1>7, <1>11 DEF RangesOf, LaidOut
<1>14. QED
  BY <1>10, <1>12, <1>13

\* The ends of a plan's ranges do not decrease.
LEMMA PlanEndsGrow ==
    ASSUME NEW ch, NEW C, NEW e, NEW M, NEW s \in Seq(Quads), NEW a, Plans(ch, C, e, M, s, a),
           NEW i \in 0 .. C, NEW j \in 0 .. C, i <= j
    PROVE  e[i] \in Nat /\ e[j] \in Nat /\ e[i] <= e[j]
<1>1. C \in Nat /\ e \in [0 .. C -> Nat]
  BY DEF Plans
<1>2. PICK counts \in [1 .. C -> Nat] : counts = [n \in 1 .. C |-> Len(Bucket(s, a, ch[n]))]
  BY BucketElements
<1>3. EndsAt(e, counts, C)
  BY <1>2 DEF EndsAt, Plans
<1>4. QED
  BY <1>1, <1>2, <1>3, EndsGrow

\* A place in a range is that of a record of the range's bucket.
LEMMA PlanPlace ==
    ASSUME NEW ch, NEW C, NEW e, NEW M, NEW s \in Seq(Quads), NEW a, Plans(ch, C, e, M, s, a),
           NEW k \in 1 .. C, NEW q \in e[k - 1] + 1 .. e[k]
    PROVE  /\ q \in 1 .. Len(s)
           /\ q - e[k - 1] \in 1 .. Len(Bucket(s, a, ch[k]))
           /\ M[q] = Bucket(s, a, ch[k])[q - e[k - 1]]
           /\ Target(M[q], a) = ch[k]
<1>1. C \in Nat /\ k \in 0 .. C /\ k - 1 \in 0 .. C /\ k <= C /\ 0 <= k - 1 /\ C \in 0 .. C /\ 0 \in 0 .. C
  BY DEF Plans
<1>2. PICK x \in Nat, y \in Nat : x = e[k - 1] /\ y = e[k]
  BY <1>1 DEF Plans
<1>3. PICK l \in Nat : l = Len(Bucket(s, a, ch[k]))
  BY BucketElements
<1>4. y = x + l
  BY <1>2, <1>3 DEF Plans
<1>5. e[C] = Len(s) /\ e[k] <= e[C] /\ e[C] \in Nat
  BY <1>1, PlanEndsGrow DEF Plans
<1>6. q \in x + 1 .. y /\ q \in 1 .. Len(s) /\ q - x \in 1 .. l /\ x + (q - x) = q
  <2>1. q \in x + 1 .. y /\ y <= Len(s) /\ Len(s) \in Nat
    BY <1>2, <1>5
  <2>2. QED
    BY <1>4, <2>1
<1>7. PICK i : i = q - x
  OBVIOUS
<1>8. i \in 1 .. Len(Bucket(s, a, ch[k])) /\ e[k - 1] + i = q
  BY <1>2, <1>3, <1>6, <1>7
<1>9. M[e[k - 1] + i] = Bucket(s, a, ch[k])[i]
  BY <1>8 DEF Plans
<1>10. Target(Bucket(s, a, ch[k])[i], a) = ch[k]
  BY <1>8, BucketElements
<1>11. QED
  BY <1>2, <1>6, <1>7, <1>8, <1>9, <1>10

\* Every place is in one of the ranges.
LEMMA PlanCovers ==
    ASSUME NEW ch, NEW C, NEW e, NEW M, NEW s \in Seq(Quads), NEW a, Plans(ch, C, e, M, s, a),
           NEW q \in 1 .. Len(s)
    PROVE  \E k \in 1 .. C : q \in e[k - 1] + 1 .. e[k]
<1>1. C \in Nat /\ e \in [0 .. C -> Nat] /\ e[0] = 0 /\ q \in 1 .. e[C]
  BY DEF Plans
<1>2. PICK k \in 1 .. C : e[k - 1] < q /\ q <= e[k]
  BY <1>1, EndsCover
<1>3. k \in 0 .. C /\ k - 1 \in 0 .. C
  BY <1>1
<1>4. PICK x \in Nat, y \in Nat : x = e[k - 1] /\ y = e[k]
  BY <1>1, <1>3
<1>5. q \in x + 1 .. y
  BY <1>1, <1>2, <1>4
<1>6. QED
  BY <1>4, <1>5

\* The plan has the records of the schematic.
LEMMA PlanHasAll ==
    ASSUME NEW ch, NEW C, NEW e, NEW M, NEW s \in Seq(Quads), NEW a, Plans(ch, C, e, M, s, a)
    PROVE  ToSet(M) = ToSet(s)
<1>1. DOMAIN M = 1 .. Len(s) /\ DOMAIN s = 1 .. Len(s)
  BY LenProperties DEF Plans
<1>2. ASSUME NEW q \in 1 .. Len(s) PROVE \E n \in 1 .. Len(s) : s[n] = M[q]
  <2>1. PICK k \in 1 .. C : q \in e[k - 1] + 1 .. e[k]
    BY PlanCovers
  <2>2. PICK i \in 1 .. Len(Bucket(s, a, ch[k])) : M[q] = Bucket(s, a, ch[k])[i]
    BY <2>1, PlanPlace
  <2>3. QED
    BY <2>2, BucketElements
<1>3. ASSUME NEW n \in 1 .. Len(s) PROVE \E q \in 1 .. Len(s) : M[q] = s[n]
  <2>1. PICK k \in 1 .. C : ch[k] = Target(s[n], a)
    BY DEF Plans, Enumerates
  <2>2. PICK i \in 1 .. Len(Bucket(s, a, ch[k])) : Bucket(s, a, ch[k])[i] = s[n]
    BY <2>1, BucketElements
  <2>3. M[e[k - 1] + i] = s[n]
    BY <2>2 DEF Plans
  <2>4. e[k - 1] + i \in e[k - 1] + 1 .. e[k]
    <3>1. C \in Nat /\ k - 1 \in 0 .. C
      BY DEF Plans
    <3>2. PICK x \in Nat, l \in Nat : x = e[k - 1] /\ l = Len(Bucket(s, a, ch[k]))
      BY <3>1, BucketElements DEF Plans
    <3>3. e[k] = x + l
      BY <3>2 DEF Plans
    <3>4. QED
      BY <3>2, <3>3
  <2>5. e[k - 1] + i \in 1 .. Len(s)
    <3>1. PICK q : q = e[k - 1] + i
      OBVIOUS
    <3>2. q \in e[k - 1] + 1 .. e[k]
      BY <2>4, <3>1
    <3>3. q \in 1 .. Len(s)
      BY <3>2, PlanPlace
    <3>4. QED
      BY <3>1, <3>3
  <2>6. QED
    BY <2>3, <2>5
<1>4. ToSet(M) = {M[q] : q \in 1 .. Len(s)} /\ ToSet(s) = {s[n] : n \in 1 .. Len(s)}
  BY <1>1 DEF ToSet
<1>5. \A x \in ToSet(M) : x \in ToSet(s)
  BY <1>2, <1>4
<1>6. \A x \in ToSet(s) : x \in ToSet(M)
  BY <1>3, <1>4
<1>7. QED
  BY <1>5, <1>6

----------------------------------------------------------------------------
(* Records as units, written and read: RecordStore. *)

\* The laws of multiplication that the provers need spelt out.
LEMMA Times ==
    ASSUME NEW m \in Int, NEW n \in Int, NEW k \in Int
    PROVE  /\ m * n \in Int /\ m * n = n * m
           /\ (m + k) * n = m * n + k * n /\ (m - k) * n = m * n - k * n
           /\ n * (m + k) = n * m + n * k /\ n * (m - k) = n * m - n * k
           /\ 1 * n = n /\ 0 * n = 0
OBVIOUS

\* A product with a natural does not decrease.
LEMMA TimesGrows ==
    ASSUME NEW m \in Int, NEW n \in Int, NEW k \in Nat, m <= n
    PROVE  m * k <= n * k
<1>1. PICK d \in Nat : n = m + d
  OBVIOUS
<1>2. n * k = m * k + d * k
  BY <1>1, Times
<1>3. d * k >= 0
  OBVIOUS
<1>4. m * k \in Int /\ d * k \in Int
  OBVIOUS
<1>5. QED
  BY <1>2, <1>3, <1>4

\* Quotient and remainder make up the number.
LEMMA DivisionIs ==
    ASSUME NEW R \in Nat \ {0}, NEW a \in Int
    PROVE  /\ a \div R \in Int /\ a % R \in 0 .. R - 1
           /\ a = (a \div R) * R + (a % R)
BY Times

\* They are determined by it.
LEMMA DivisionOf ==
    ASSUME NEW R \in Nat \ {0}, NEW q \in Int, NEW r \in 0 .. R - 1
    PROVE  /\ (q * R + r) \div R = q
           /\ (q * R + r) % R = r
OBVIOUS

\* The units of the q-th record.
UnitAt(q, p) == (q - 1) * RecordSize + p

\* The units of the q-th record lie within the file, and say which record is theirs.
LEMMA UnitOf ==
    ASSUME NEW N \in Nat, NEW q \in 1 .. N, NEW p \in 1 .. RecordSize
    PROVE  /\ UnitAt(q, p) \in 1 .. N * RecordSize
           /\ (UnitAt(q, p) - 1) \div RecordSize = q - 1
           /\ (UnitAt(q, p) - 1) % RecordSize = p - 1
<1>1. PICK R \in Nat \ {0} : R = RecordSize
  BY RecordStoreAssumption
<1>2. PICK a \in Int : a = (q - 1) * R
  BY Times
<1>3. UnitAt(q, p) = a + p /\ p \in 1 .. R
  BY <1>1, <1>2 DEF UnitAt
<1>4. p - 1 \in 0 .. R - 1 /\ q - 1 \in Int /\ (a + p) - 1 = a + (p - 1)
  BY <1>2, <1>3
<1>5. (a + (p - 1)) \div R = q - 1 /\ (a + (p - 1)) % R = p - 1
  BY <1>2, <1>4, DivisionOf
<1>6. 0 <= a /\ a + R <= N * R
  BY <1>2, TimesGrows, Times
<1>7. N * R \in Int
  BY Times
<1>8. QED
  BY <1>1, <1>2, <1>3, <1>4, <1>5, <1>6, <1>7

\* Every unit of the file is one of some record.
LEMMA UnitIs ==
    ASSUME NEW N \in Nat, NEW n \in 1 .. N * RecordSize
    PROVE  /\ ((n - 1) \div RecordSize) + 1 \in 1 .. N
           /\ ((n - 1) % RecordSize) + 1 \in 1 .. RecordSize
           /\ n = UnitAt(((n - 1) \div RecordSize) + 1, ((n - 1) % RecordSize) + 1)
<1>1. PICK R \in Nat \ {0} : R = RecordSize
  BY RecordStoreAssumption
<1>2. n - 1 \in Int /\ N * R \in Int /\ 1 <= n /\ n <= N * R
  BY <1>1, Times
<1>3. PICK x \in Int, y \in 0 .. R - 1 : x = (n - 1) \div R /\ y = (n - 1) % R /\ n - 1 = x * R + y
  BY <1>2, DivisionIs
<1>4. 0 <= x
  <2>1. SUFFICES ASSUME x + 1 <= 0 PROVE FALSE
    BY <1>3
  <2>2. (x + 1) * R <= 0 * R
    BY <2>1, TimesGrows
  <2>3. (x + 1) * R = x * R + R /\ 0 * R = 0 /\ x * R \in Int
    BY Times
  <2>4. QED
    BY <1>2, <1>3, <2>2, <2>3
<1>5. x < N
  <2>1. SUFFICES ASSUME N <= x PROVE FALSE
    BY <1>3
  <2>2. N * R <= x * R
    BY <2>1, TimesGrows
  <2>3. x * R \in Int
    BY Times
  <2>4. QED
    BY <1>2, <1>3, <2>2, <2>3
<1>6. x * R \in Int
  BY Times
<1>7. n = (((x + 1) - 1) * R) + (y + 1)
  BY <1>2, <1>3, <1>6
<1>8. QED
  BY <1>1, <1>3, <1>4, <1>5, <1>7 DEF UnitAt

(* Packed records. *)

PackedUnit(records, n) ==
    <<"record", ((n - 1) % RecordSize) + 1, records[((n - 1) \div RecordSize) + 1]>>

\* Packed records, unit by unit.
LEMMA PackedIs ==
    ASSUME NEW V, NEW records \in Seq(V)
    PROVE  /\ Packed(records) \in [1 .. Len(records) * RecordSize -> {"record"} \X (1 .. RecordSize) \X V]
           /\ Len(Packed(records)) = Len(records) * RecordSize
           /\ \A q \in 1 .. Len(records), p \in 1 .. RecordSize :
                Packed(records)[UnitAt(q, p)] = <<"record", p, records[q]>>
<1>1. PICK N \in Nat : N = Len(records)
  BY LenProperties
<1>2. PICK m \in Nat : m = N * RecordSize
  BY RecordStoreAssumption
<1>3. PICK f : f = [n \in 1 .. m |-> PackedUnit(records, n)]
  OBVIOUS
<1>4. Packed(records) = f
  BY <1>1, <1>2, <1>3 DEF Packed, PackedUnit
<1>5. \A n \in 1 .. m : PackedUnit(records, n) \in {"record"} \X (1 .. RecordSize) \X V
  BY <1>1, <1>2, UnitIs DEF PackedUnit
<1>6. f \in [1 .. m -> {"record"} \X (1 .. RecordSize) \X V]
  BY <1>3, <1>5
<1>7. Len(f) = m
  BY <1>3
<1>8. ASSUME NEW q \in 1 .. N, NEW p \in 1 .. RecordSize
      PROVE  f[UnitAt(q, p)] = <<"record", p, records[q]>>
  <2>1. /\ UnitAt(q, p) \in 1 .. m
        /\ (UnitAt(q, p) - 1) \div RecordSize = q - 1
        /\ (UnitAt(q, p) - 1) % RecordSize = p - 1
    BY <1>2, UnitOf
  <2>2. f[UnitAt(q, p)] = <<"record", (p - 1) + 1, records[(q - 1) + 1]>>
    BY <1>3, <2>1 DEF PackedUnit
  <2>3. (p - 1) + 1 = p /\ (q - 1) + 1 = q
    BY RecordStoreAssumption
  <2>4. QED
    BY <2>2, <2>3
<1>9. QED
  BY <1>1, <1>2, <1>4, <1>6, <1>7, <1>8

\* What the units of the output are.
PlanUnits == ({"record"} \X (1 .. RecordSize) \X Quads) \cup {Unwritten}

Content(b) == IF b.spilled THEN b.file ELSE b.memory

\* The q-th record of these units is r.
Wrote(content, q, r) == \A p \in 1 .. RecordSize : content[UnitAt(q, p)] = <<"record", p, r>>

\* Records written over the units of records change these and no others.
LEMMA OverwrittenRecords ==
    ASSUME NEW N \in Nat, NEW content \in Seq(PlanUnits), Len(content) = N * RecordSize,
           NEW records \in Seq(Quads), NEW o \in Nat, o + Len(records) <= N
    PROVE  LET over == Overwritten(content, o * RecordSize, Packed(records))
           IN /\ over \in Seq(PlanUnits) /\ Len(over) = N * RecordSize
              /\ \A q \in 1 .. N : \A p \in 1 .. RecordSize :
                   over[UnitAt(q, p)] = IF o < q /\ q <= o + Len(records)
                                          THEN <<"record", p, records[q - o]>>
                                          ELSE content[UnitAt(q, p)]
<1>1. PICK L \in Nat : L = Len(records)
  BY LenProperties
<1>2. PICK R \in Nat \ {0} : R = RecordSize
  BY RecordStoreAssumption
<1>3. PICK at \in Nat, l \in Nat, m \in Nat : at = o * R /\ l = L * R /\ m = N * R
  OBVIOUS
<1>4. at + l <= m
  BY <1>1, <1>3, TimesGrows, Times
<1>5. PICK piece : piece = Packed(records)
  OBVIOUS
<1>6. /\ piece \in [1 .. l -> PlanUnits] /\ Len(piece) = l
      /\ \A q \in 1 .. L, p \in 1 .. R : piece[UnitAt(q, p)] = <<"record", p, records[q]>>
  BY <1>1, <1>2, <1>3, <1>5, PackedIs DEF PlanUnits
<1>7. DOMAIN content = 1 .. m /\ Len(content) = m /\ \A n \in 1 .. m : content[n] \in PlanUnits
  BY <1>2, <1>3, LenProperties
<1>8. PICK over : over = Overwritten(content, at, piece)
  OBVIOUS
<1>9. over = [n \in 1 .. m |-> IF at < n /\ n <= at + l THEN piece[n - at] ELSE content[n]]
  BY <1>4, <1>6, <1>7, <1>8 DEF Overwritten
<1>10. \A n \in 1 .. m : over[n] \in PlanUnits
  <2>1. SUFFICES ASSUME NEW n \in 1 .. m PROVE over[n] \in PlanUnits
    OBVIOUS
  <2>2. CASE at < n /\ n <= at + l
    BY <1>6, <1>9, <2>2
  <2>3. CASE ~(at < n /\ n <= at + l)
    BY <1>7, <1>9, <2>3
  <2>4. QED
    BY <2>2, <2>3
<1>11. over \in [1 .. m -> PlanUnits]
  BY <1>9, <1>10
<1>12. over \in Seq(PlanUnits) /\ Len(over) = m
  BY <1>11
<1>13. ASSUME NEW q \in 1 .. N, NEW p \in 1 .. R
       PROVE  over[UnitAt(q, p)] = IF o < q /\ q <= o + L THEN <<"record", p, records[q - o]>>
                                   ELSE content[UnitAt(q, p)]
  <2>1. PICK n : n = UnitAt(q, p)
    OBVIOUS
  <2>2. n \in 1 .. m
    BY <1>2, <1>3, <2>1, UnitOf
  <2>3. PICK a \in Int : a = (q - 1) * R /\ n = a + p
    BY <1>2, <2>1, Times DEF UnitAt
  <2>4. CASE q <= o
    <3>1. q * R <= o * R
      BY <2>4, TimesGrows
    <3>2. q * R = a + R
      BY <2>3, Times
    <3>3. a + R <= at
      BY <1>3, <3>1, <3>2
    <3>4. ~(at < n)
      BY <2>3, <3>3
    <3>5. QED
      BY <1>9, <2>1, <2>2, <2>4, <3>4
  <2>5. CASE q > o + L
    <3>1. (o + L) * R <= (q - 1) * R
      BY <2>5, TimesGrows
    <3>2. (o + L) * R = o * R + L * R
      BY Times
    <3>3. at + l <= a
      BY <1>3, <2>3, <3>1, <3>2
    <3>4. ~(n <= at + l)
      BY <2>3, <3>3
    <3>5. QED
      BY <1>9, <2>1, <2>2, <2>5, <3>4
  <2>6. CASE o < q /\ q <= o + L
    <3>1. PICK j \in 1 .. L : j = q - o
      BY <2>6
    <3>2. UnitAt(j, p) \in 1 .. l
      BY <1>2, <1>3, UnitOf
    <3>3. n - at = UnitAt(j, p)
      BY <1>2, <1>3, <2>3, <3>1, Times DEF UnitAt
    <3>4. at < n /\ n <= at + l
      BY <2>2, <3>2, <3>3
    <3>5. over[n] = piece[UnitAt(j, p)]
      BY <1>9, <2>2, <3>3, <3>4
    <3>6. over[n] = <<"record", p, records[j]>>
      BY <1>6, <3>5
    <3>7. QED
      BY <2>1, <2>6, <3>1, <3>6
  <2>7. QED
    BY <2>4, <2>5, <2>6
<1>14. QED
  BY <1>1, <1>2, <1>3, <1>5, <1>8, <1>12, <1>13

\* The same, of a buffer.
WroteRecords(b, c, N, records, o) ==
    /\ \A q \in 1 .. N : o < q /\ q <= o + Len(records) => Wrote(Content(c), q, records[q - o])
    /\ \A q \in 1 .. N, r \in Quads :
         ~(o < q /\ q <= o + Len(records)) /\ Wrote(Content(b), q, r) => Wrote(Content(c), q, r)

RecordBuffer(b, N) == b \in Buffers(PlanUnits) /\ b.length = N * RecordSize

\* write_at with whole records leaves a buffer of records, changed in these only.
LEMMA WriteAtRecords ==
    ASSUME NEW N \in Nat, NEW b, RecordBuffer(b, N),
           NEW records \in Seq(Quads), NEW o \in Nat, o + Len(records) <= N
    PROVE  /\ RecordBuffer(WriteAt(b, o * RecordSize, Packed(records)), N)
           /\ WroteRecords(b, WriteAt(b, o * RecordSize, Packed(records)), N, records, o)
<1>1. /\ b \in [spilled : BOOLEAN, memory : Seq(PlanUnits), file : Seq(PlanUnits),
                position : Nat, length : Nat]
      /\ b.length = Len(Content(b)) /\ b.length = N * RecordSize
  BY DEF RecordBuffer, Buffers, Content
<1>2. PICK content \in Seq(PlanUnits) : content = Content(b)
  BY <1>1 DEF Content
<1>3. PICK over : over = Overwritten(content, o * RecordSize, Packed(records))
  OBVIOUS
<1>4. Len(content) = N * RecordSize
  BY <1>1, <1>2
<1>5. /\ over \in Seq(PlanUnits) /\ Len(over) = N * RecordSize
      /\ \A q \in 1 .. N : \A p \in 1 .. RecordSize :
           over[UnitAt(q, p)] = IF o < q /\ q <= o + Len(records)
                                  THEN <<"record", p, records[q - o]>>
                                  ELSE content[UnitAt(q, p)]
  BY <1>3, <1>4, OverwrittenRecords
<1>6. PICK c : c = WriteAt(b, o * RecordSize, Packed(records))
  OBVIOUS
<1>7. c = IF b.spilled THEN [b EXCEPT !.file = over, !.position = b.length]
          ELSE [b EXCEPT !.memory = over]
  BY <1>2, <1>3, <1>6 DEF WriteAt, Content
<1>8. c \in Buffers(PlanUnits) /\ c.length = b.length /\ Content(c) = over
  BY <1>1, <1>5, <1>7 DEF Buffers, Content
<1>9. RecordBuffer(c, N)
  BY <1>1, <1>8 DEF RecordBuffer
<1>10. WroteRecords(b, c, N, records, o)
  BY <1>2, <1>5, <1>8 DEF WroteRecords, Wrote
<1>11. QED
  BY <1>6, <1>9, <1>10

\* reserve makes a buffer of that many records.
LEMMA ReserveRecords ==
    ASSUME NEW N \in Nat
    PROVE  RecordBuffer(Reserve(NewBuffer, N * RecordSize), N)
<1>1. PICK m \in Nat : m = N * RecordSize
  BY RecordStoreAssumption
<1>2. PICK x : x = Extent(<<>>, m)
  OBVIOUS
<1>3. x = [n \in 1 .. m |-> IF n \in DOMAIN <<>> THEN <<>>[n] ELSE Unwritten]
  BY <1>2 DEF Extent
<1>4. \A n \in 1 .. m : n \notin DOMAIN <<>>
  OBVIOUS
<1>5. \A n \in 1 .. m : x[n] = Unwritten
  BY <1>3, <1>4
<1>6. x \in [1 .. m -> PlanUnits]
  BY <1>3, <1>5 DEF PlanUnits
<1>7. x \in Seq(PlanUnits) /\ Len(x) = m
  BY <1>6
<1>8. <<>> \in Seq(PlanUnits)
  BY EmptySeq
<1>9. PICK b : b = NewBuffer
  OBVIOUS
<1>10. b = [spilled |-> FALSE, memory |-> <<>>, file |-> <<>>, position |-> 0, length |-> 0]
  BY <1>9 DEF NewBuffer
<1>11. PICK c : c = Reserve(b, m)
  OBVIOUS
<1>12. CASE m > Threshold
  <2>1. c = [spilled |-> TRUE, memory |-> <<>>, file |-> x, position |-> m, length |-> m]
    BY <1>2, <1>10, <1>11, <1>12 DEF Reserve, Spilled
  <2>2. c \in [spilled : BOOLEAN, memory : Seq(PlanUnits), file : Seq(PlanUnits),
               position : Nat, length : Nat]
    BY <1>7, <1>8, <2>1
  <2>3. c.length = Len(IF c.spilled THEN c.file ELSE c.memory) /\ c.length = m
    BY <1>7, <2>1
  <2>4. RecordBuffer(c, N)
    BY <1>1, <2>2, <2>3 DEF RecordBuffer, Buffers
  <2>5. QED
    BY <1>1, <1>9, <1>11, <2>4
<1>13. CASE ~(m > Threshold)
  <2>1. c = [spilled |-> FALSE, memory |-> x, file |-> <<>>, position |-> 0, length |-> m]
    BY <1>2, <1>10, <1>11, <1>13 DEF Reserve
  <2>2. c \in [spilled : BOOLEAN, memory : Seq(PlanUnits), file : Seq(PlanUnits),
               position : Nat, length : Nat]
    BY <1>7, <1>8, <2>1
  <2>3. c.length = Len(IF c.spilled THEN c.file ELSE c.memory) /\ c.length = m
    BY <1>7, <2>1
  <2>4. RecordBuffer(c, N)
    BY <1>1, <2>2, <2>3 DEF RecordBuffer, Buffers
  <2>5. QED
    BY <1>1, <1>9, <1>11, <2>4
<1>14. QED
  BY <1>12, <1>13

\* Products associate.
LEMMA TimesAssociate ==
    ASSUME NEW m \in Int, NEW n \in Int, NEW k \in Int
    PROVE  (m * n) * k = m * (n * k)
OBVIOUS

\* The smaller product has the smaller factor.
LEMMA TimesReflects ==
    ASSUME NEW m \in Int, NEW n \in Int, NEW k \in Nat, m * k < n * k
    PROVE  m < n
<1>1. SUFFICES ASSUME n <= m PROVE FALSE
  OBVIOUS
<1>2. n * k <= m * k
  BY <1>1, TimesGrows
<1>3. n * k \in Int /\ m * k \in Int
  BY Times
<1>4. QED
  BY <1>2, <1>3

\* A window that starts at a multiple of its size holds all of a record.
LEMMA WindowHoldsRecord ==
    ASSUME NEW index \in Nat
    PROVE  LET start == ((index * RecordSize) \div WindowSize) * WindowSize
           IN /\ start \in Nat /\ start <= index * RecordSize
              /\ index * RecordSize + RecordSize <= start + WindowSize
<1>1. PICK R \in Nat \ {0}, W \in Nat \ {0} : R = RecordSize /\ W = WindowSize /\ W % R = 0
  BY RecordStoreAssumption
<1>2. PICK k \in Int : W = k * R
  <2>1. W = (W \div R) * R + (W % R) /\ W \div R \in Int
    BY DivisionIs
  <2>2. PICK k \in Int : k = W \div R
    BY <2>1
  <2>3. k * R \in Int
    BY Times
  <2>4. QED
    BY <1>1, <2>1, <2>2, <2>3
<1>3. PICK off \in Nat : off = index * R
  OBVIOUS
<1>4. PICK x \in Int, y \in 0 .. W - 1 : x = off \div W /\ off = x * W + y
  BY DivisionIs
<1>5. PICK start \in Int : start = x * W
  BY Times
<1>6. 0 <= x
  <2>1. SUFFICES ASSUME x + 1 <= 0 PROVE FALSE
    OBVIOUS
  <2>2. (x + 1) * W <= 0 * W
    BY <2>1, TimesGrows
  <2>3. (x + 1) * W = x * W + W /\ 0 * W = 0
    BY Times
  <2>4. QED
    BY <1>4, <1>5, <2>2, <2>3
<1>7. start \in Nat
  BY <1>5, <1>6, TimesGrows, Times
<1>8. PICK d \in Int : d = index - x * k
  BY Times
<1>9. off - start = d * R
  BY <1>2, <1>3, <1>5, <1>8, Times, TimesAssociate
<1>10. d * R < k * R
  BY <1>2, <1>4, <1>5, <1>9
<1>11. (d + 1) * R <= k * R
  BY <1>10, TimesReflects, TimesGrows
<1>12. (d + 1) * R = d * R + R
  BY Times
<1>13. off + R <= start + W
  BY <1>2, <1>9, <1>11, <1>12, Times
<1>14. start <= off
  BY <1>4, <1>5
<1>15. QED
  BY <1>1, <1>3, <1>4, <1>5, <1>7, <1>13, <1>14

\* What is cached is what the file holds there.
IsWindow(w, content, U) ==
    /\ w \in [start : Int, units : Seq(U)]
    /\ \A j \in 1 .. Len(w.units) :
         w.start + j \in 1 .. Len(content) /\ w.units[j] = content[w.start + j]

\* The window read for a record is a piece of the file and holds the record.
LEMMA WindowAtIs ==
    ASSUME NEW U, NEW N \in Nat, NEW source, source.content \in Seq(U),
           Len(source.content) = N * RecordSize, NEW index \in 0 .. N - 1
    PROVE  LET w == WindowAt(source, index * RecordSize)
           IN IsWindow(w, source.content, U) /\ Holds(w, index * RecordSize)
<1>1. PICK R \in Nat \ {0}, W \in Nat \ {0} : R = RecordSize /\ W = WindowSize
  BY RecordStoreAssumption
<1>2. PICK content \in Seq(U) : content = source.content
  OBVIOUS
<1>3. PICK l \in Nat : l = Len(content) /\ \A n \in 1 .. l : content[n] \in U
  BY LenProperties
<1>4. PICK off \in Nat : off = index * R
  OBVIOUS
<1>5. PICK start \in Nat : /\ start = (off \div W) * W
                           /\ start <= off /\ off + R <= start + W
  BY <1>1, <1>4, WindowHoldsRecord
<1>6. off + R <= l
  BY <1>1, <1>2, <1>3, <1>4, TimesGrows, Times
<1>7. PICK last \in Nat : last = Least(start + W, l) /\ last <= l /\ off + R <= last
  BY <1>5, <1>6 DEF Least
<1>8. PICK units : units = SubSeq(content, start + 1, last)
  OBVIOUS
<1>9. /\ units \in Seq(U)
      /\ Len(units) = last - start
      /\ \A j \in 1 .. last - start : units[j] = content[start + j]
  <2>1. start + 1 \in Int /\ last \in Int /\ \A i \in start + 1 .. last : content[i] \in U
    BY <1>3, <1>7
  <2>2. /\ units \in Seq(U)
        /\ Len(units) = IF start + 1 <= last THEN last - (start + 1) + 1 ELSE 0
        /\ \A j \in 1 .. last - (start + 1) + 1 : units[j] = content[(start + 1) + j - 1]
    BY <1>8, <2>1, SubSeqProperties
  <2>3. start + 1 <= last
    BY <1>1, <1>5, <1>7
  <2>4. last - (start + 1) + 1 = last - start
    OBVIOUS
  <2>5. \A j \in 1 .. last - start : (start + 1) + j - 1 = start + j
    OBVIOUS
  <2>6. QED
    BY <2>2, <2>3, <2>4, <2>5
<1>10. PICK w : w = WindowAt(source, index * RecordSize)
  OBVIOUS
<1>11. w = [start |-> start, units |-> units]
  BY <1>1, <1>2, <1>3, <1>4, <1>5, <1>7, <1>8, <1>10 DEF WindowAt
<1>12. IsWindow(w, content, U)
  BY <1>3, <1>7, <1>9, <1>11 DEF IsWindow
<1>13. Holds(w, off)
  BY <1>1, <1>5, <1>7, <1>9, <1>11 DEF Holds
<1>14. QED
  BY <1>1, <1>2, <1>4, <1>10, <1>12, <1>13

\* A record taken from a window that holds it is the one in the file.
LEMMA RecordInWindow ==
    ASSUME NEW U, NEW content \in Seq(U), NEW w, IsWindow(w, content, U), NEW index \in Nat,
           Holds(w, index * RecordSize)
    PROVE  \A p \in 1 .. RecordSize :
             /\ p \in DOMAIN RecordIn(w, index)
             /\ RecordIn(w, index)[p] = content[index * RecordSize + p]
<1>1. PICK R \in Nat \ {0} : R = RecordSize
  BY RecordStoreAssumption
<1>2. PICK off \in Nat : off = index * R
  OBVIOUS
<1>3. PICK start \in Int, units \in Seq(U) : start = w.start /\ units = w.units
  BY DEF IsWindow
<1>4. PICK l \in Nat : l = Len(units) /\ \A n \in 1 .. l : units[n] \in U
  BY LenProperties
<1>5. start <= off /\ off + R <= start + l
  BY <1>1, <1>2, <1>3, <1>4 DEF Holds
<1>6. PICK local \in Nat : local = off - start
  BY <1>5
<1>7. Least(local + R, l) = local + R
  BY <1>5, <1>6 DEF Least
<1>8. PICK r : r = RecordIn(w, index)
  OBVIOUS
<1>9. r = SubSeq(units, local + 1, local + R)
  BY <1>1, <1>2, <1>3, <1>4, <1>6, <1>7, <1>8 DEF RecordIn
<1>10. /\ r \in Seq(U)
       /\ Len(r) = IF local + 1 <= local + R THEN (local + R) - (local + 1) + 1 ELSE 0
       /\ \A p \in 1 .. (local + R) - (local + 1) + 1 : r[p] = units[(local + 1) + p - 1]
  BY <1>4, <1>5, <1>6, <1>9, SubSeqProperties
<1>11. Len(r) = R /\ DOMAIN r = 1 .. R
  BY <1>10, LenProperties
<1>12. ASSUME NEW p \in 1 .. R PROVE r[p] = content[off + p]
  <2>1. p \in 1 .. (local + R) - (local + 1) + 1 /\ (local + 1) + p - 1 = local + p
    OBVIOUS
  <2>2. r[p] = units[local + p]
    BY <1>10, <2>1
  <2>3. local + p \in 1 .. l /\ start + (local + p) = off + p
    BY <1>5, <1>6
  <2>4. units[local + p] = content[start + (local + p)]
    BY <1>3, <1>4, <2>3 DEF IsWindow
  <2>5. QED
    BY <2>2, <2>3, <2>4
<1>13. QED
  BY <1>1, <1>2, <1>8, <1>11, <1>12

\* The records of a file of whole records.
LEMMA RecordsCount ==
    ASSUME NEW N \in Nat
    PROVE  (N * RecordSize) \div RecordSize = N
BY RecordStoreAssumption, DivisionOf, Times

WindowsOn(content, U) == {w \in [start : Int, units : Seq(U)] : IsWindow(w, content, U)}

\* Reading through the window gives the records as they are in the file.
LEMMA ReadThroughIs ==
    ASSUME NEW U, NEW N \in Nat, NEW source, source.content \in Seq(U),
           Len(source.content) = N * RecordSize, source.length = N * RecordSize
    PROVE  ReadThrough(source) = source.content
<1>1. RecordCount(source) = N
  BY RecordsCount DEF RecordCount
<1>2. PICK content \in Seq(U) : content = source.content
  OBVIOUS
<1>3. CASE ~source.fileBacked
  BY <1>3 DEF ReadThrough
<1>4. CASE source.fileBacked
  <2>1. PICK V : V = WindowsOn(content, U)
    OBVIOUS
  <2>2. NoWindow \in V
    <3>1. PICK w : w = NoWindow
      OBVIOUS
    <3>2. w = [start |-> -1, units |-> <<>>] /\ <<>> \in Seq(U) /\ Len(<<>>) = 0
      BY <3>1, EmptySeq DEF NoWindow
    <3>3. w \in [start : Int, units : Seq(U)] /\ Len(w.units) = 0
      BY <3>2
    <3>4. IsWindow(w, content, U)
      BY <3>3 DEF IsWindow
    <3>5. QED
      BY <2>1, <3>1, <3>3, <3>4 DEF WindowsOn
  <2>3. ASSUME NEW k \in 1 .. N, NEW w \in V
        PROVE  /\ WindowFor(source, w, k - 1) \in V
               /\ Holds(WindowFor(source, w, k - 1), (k - 1) * RecordSize)
    <3>1. PICK index \in 0 .. N - 1 : index = k - 1
      OBVIOUS
    <3>2. PICK x : x = WindowAt(source, index * RecordSize)
      OBVIOUS
    <3>3. IsWindow(x, content, U) /\ Holds(x, index * RecordSize)
      BY <1>2, <3>2, WindowAtIs
    <3>4. x \in V
      BY <2>1, <3>3 DEF WindowsOn, IsWindow
    <3>5. WindowFor(source, w, index) = IF Holds(w, index * RecordSize) THEN w ELSE x
      BY <3>2 DEF WindowFor
    <3>6. QED
      BY <3>1, <3>3, <3>4, <3>5
  <2>4. PICK g : g = [k \in 1 .. N |-> [w \in V |-> WindowFor(source, w, k - 1)]]
    OBVIOUS
  <2>5. g \in [1 .. N -> [V -> V]]
    BY <2>3, <2>4
  <2>6. PICK f \in [0 .. N -> V] : Iterates(f, NoWindow, g, N)
    BY <2>2, <2>5, IterateExists
  <2>7. ASSUME NEW n \in 0 .. N
        PROVE  f[n] = IF n = 0 THEN NoWindow ELSE WindowFor(source, f[n - 1], n - 1)
    <3>1. CASE n = 0
      BY <2>6, <3>1 DEF Iterates
    <3>2. CASE n # 0
      <4>1. n \in 1 .. N /\ n - 1 \in 0 .. N
        BY <3>2
      <4>2. f[n] = g[n][f[n - 1]] /\ f[n - 1] \in V
        BY <2>6, <4>1 DEF Iterates
      <4>3. QED
        BY <2>4, <3>2, <4>1, <4>2
    <3>3. QED
      BY <3>1, <3>2
  <2>8. f = [n \in 0 .. N |-> IF n = 0 THEN NoWindow ELSE WindowFor(source, f[n - 1], n - 1)]
    BY <2>7
  <2> DEFINE ReadAt(window, n) ==
        LET index == (n - 1) \div RecordSize
            record == RecordIn(window[index + 1], index)
            part == ((n - 1) % RecordSize) + 1
        IN IF part \in DOMAIN record THEN record[part] ELSE Unwritten
  <2>9. PICK window :
          /\ window = [n \in 0 .. N |->
                         IF n = 0 THEN NoWindow ELSE WindowFor(source, window[n - 1], n - 1)]
          /\ ReadThrough(source) = [n \in 1 .. N * RecordSize |-> ReadAt(window, n)]
    <3> DEFINE Through == CHOOSE window : window =
                 [n \in 0 .. N |->
                    IF n = 0 THEN NoWindow ELSE WindowFor(source, window[n - 1], n - 1)]
    <3>1. Through = [n \in 0 .. N |->
                       IF n = 0 THEN NoWindow ELSE WindowFor(source, Through[n - 1], n - 1)]
      BY <2>8
    <3>2. ReadThrough(source) = [n \in 1 .. N * RecordSize |-> ReadAt(Through, n)]
      BY <1>1, <1>4 DEF ReadThrough
    <3>3. QED
      BY <3>1, <3>2
  <2>10. \A n \in 1 .. N : window[n] = WindowFor(source, window[n - 1], n - 1)
    BY <2>9
  <2>11. window[0] = NoWindow
    BY <2>9
  <2> DEFINE Z == {n \in 0 .. N : window[n] \in V}
  <2>12. 0 \in Z
    BY <2>2, <2>11
  <2>13. ASSUME NEW n \in 1 .. N, n - 1 \in Z PROVE n \in Z
    BY <2>3, <2>10, <2>13
  <2> HIDE DEF Z
  <2>14. \A n \in 0 .. N : n \in Z
    BY <2>12, <2>13, UpTo
  <2>15. ASSUME NEW q \in 1 .. N
         PROVE  IsWindow(window[q], content, U) /\ Holds(window[q], (q - 1) * RecordSize)
    <3>1. q - 1 \in 0 .. N /\ q \in 0 .. N
      OBVIOUS
    <3>2. window[q - 1] \in V /\ window[q] \in V
      BY <2>14, <3>1 DEF Z
    <3>3. Holds(window[q], (q - 1) * RecordSize)
      BY <2>3, <2>10, <3>2
    <3>4. QED
      BY <2>1, <3>2, <3>3 DEF WindowsOn
  <2>16. PICK m \in Nat : m = N * RecordSize
    BY RecordStoreAssumption
  <2>17. ASSUME NEW n \in 1 .. m PROVE ReadAt(window, n) = content[n]
    <3>1. PICK index \in Nat, q \in 1 .. N, p \in 1 .. RecordSize :
            /\ index = (n - 1) \div RecordSize /\ q = index + 1 /\ index = q - 1
            /\ p = ((n - 1) % RecordSize) + 1 /\ n = UnitAt(q, p)
      <4>1. /\ ((n - 1) \div RecordSize) + 1 \in 1 .. N
            /\ ((n - 1) % RecordSize) + 1 \in 1 .. RecordSize
            /\ n = UnitAt(((n - 1) \div RecordSize) + 1, ((n - 1) % RecordSize) + 1)
        BY <2>16, UnitIs
      <4>2. PICK i : i = (n - 1) \div RecordSize
        OBVIOUS
      <4>3. i \in Int /\ i + 1 \in 1 .. N
        BY <4>1, <4>2, RecordStoreAssumption, DivisionIs
      <4>4. i \in Nat /\ i = (i + 1) - 1
        BY <4>3
      <4>5. QED
        BY <4>1, <4>2, <4>3, <4>4
    <3>2. IsWindow(window[q], content, U) /\ Holds(window[q], index * RecordSize)
      BY <2>15, <3>1
    <3>3. /\ p \in DOMAIN RecordIn(window[q], index)
          /\ RecordIn(window[q], index)[p] = content[index * RecordSize + p]
      BY <3>2, RecordInWindow
    <3>4. n = index * RecordSize + p
      BY <3>1 DEF UnitAt
    <3>5. QED
      BY <3>1, <3>3, <3>4
  <2> HIDE DEF ReadAt
  <2>18. ReadThrough(source) = [n \in 1 .. m |-> content[n]]
    BY <2>9, <2>16, <2>17
  <2>19. content = [n \in 1 .. m |-> content[n]]
    BY <1>2, <2>16, LenProperties
  <2>20. QED
    BY <1>2, <2>18, <2>19
<1>5. QED
  BY <1>3, <1>4

\* Records unpacked are those that were packed.
LEMMA UnpackedIs ==
    ASSUME NEW records \in Seq(Quads)
    PROVE  Unpacked(Packed(records)) = records
<1>1. PICK N \in Nat : N = Len(records)
  BY LenProperties
<1>2. PICK units : units = Packed(records)
  OBVIOUS
<1>3. PICK R \in Nat \ {0} : R = RecordSize
  BY RecordStoreAssumption
<1>4. /\ Len(units) = N * R
      /\ \A q \in 1 .. N, p \in 1 .. R : units[UnitAt(q, p)] = <<"record", p, records[q]>>
  BY <1>1, <1>2, <1>3, PackedIs
<1>5. Len(units) \div R = N
  BY <1>3, <1>4, RecordsCount
<1>6. ASSUME NEW q \in 1 .. N PROVE SubSeq(units, (q - 1) * R + 1, q * R) = RecordUnits(records[q])
  <2>1. PICK a \in Int : a = (q - 1) * R
    BY Times
  <2>2. q * R = a + R
    BY <2>1, Times
  <2>3. PICK m \in Int, n \in Int : m = a + 1 /\ n = a + R
    OBVIOUS
  <2>4. PICK U : U = {units[i] : i \in m .. n}
    OBVIOUS
  <2>5. PICK t : t = SubSeq(units, m, n)
    OBVIOUS
  <2>6. /\ t \in Seq(U) /\ Len(t) = IF m <= n THEN n - m + 1 ELSE 0
        /\ \A p \in 1 .. n - m + 1 : t[p] = units[m + p - 1]
    BY <2>4, <2>5, SubSeqProperties
  <2>7. Len(t) = R /\ \A p \in 1 .. R : t[p] = units[a + p]
    BY <2>3, <2>6
  <2>8. \A p \in 1 .. R : t[p] = <<"record", p, records[q]>>
    BY <1>3, <1>4, <2>1, <2>7 DEF UnitAt
  <2>9. DOMAIN t = 1 .. R /\ t = [p \in DOMAIN t |-> t[p]]
    BY <2>6, <2>7, LenProperties
  <2>10. t = [p \in 1 .. R |-> <<"record", p, records[q]>>]
    BY <2>8, <2>9
  <2>11. QED
    BY <1>3, <2>1, <2>2, <2>3, <2>5, <2>10 DEF RecordUnits
<1>7. ASSUME NEW q \in 1 .. N
      PROVE  /\ Unwritten \notin ToSet(RecordUnits(records[q]))
             /\ RecordUnits(records[q])[1][3] = records[q]
  <2>1. PICK r \in Quads : r = records[q]
    BY <1>1
  <2>2. PICK u : u = RecordUnits(r)
    OBVIOUS
  <2>3. u = [p \in 1 .. R |-> <<"record", p, r>>]
    BY <1>3, <2>2 DEF RecordUnits
  <2>4. 1 \in 1 .. R
    OBVIOUS
  <2>5. u[1][3] = r
    BY <2>3, <2>4
  <2>6. \A p \in 1 .. R : u[p] \in {"record"} \X (1 .. R) \X Quads
    BY <2>3
  <2>7. Unwritten \notin {"record"} \X (1 .. R) \X Quads
    BY <1>3, PlannerAssumption DEF Quads
  <2>8. Unwritten \notin ToSet(u)
    BY <2>3, <2>6, <2>7 DEF ToSet
  <2>9. QED
    BY <2>1, <2>2, <2>5, <2>8
<1> DEFINE Nth(n) == LET record == SubSeq(units, (n - 1) * R + 1, n * R)
                     IN IF Unwritten \notin ToSet(record) /\ record = RecordUnits(record[1][3])
                          THEN record[1][3] ELSE Unwritten
<1>8. ASSUME NEW q \in 1 .. N PROVE Nth(q) = records[q]
  BY <1>6, <1>7
<1>9. Unpacked(units) = [n \in 1 .. N |-> Nth(n)]
  BY <1>3, <1>5 DEF Unpacked
<1> HIDE DEF Nth
<1>10. Unpacked(units) = [n \in 1 .. N |-> records[n]]
  BY <1>8, <1>9
<1>11. records = [n \in 1 .. N |-> records[n]]
  BY <1>1, LenProperties
<1>12. QED
  BY <1>2, <1>10, <1>11

----------------------------------------------------------------------------
(* A selection cut into regions, and its scan. *)

\* The next multiple.
LEMMA TimesNext ==
    ASSUME NEW c \in Int, NEW W \in Int
    PROVE  (c + 1) * W = c * W + W /\ c * W \in Int
BY Times

\* A number lies between the multiples its quotient names.
LEMMA DivisionBounds ==
    ASSUME NEW W \in Nat \ {0}, NEW p \in Int, NEW c \in Int
    PROVE  p \div W = c <=> c * W <= p /\ p < c * W + W
<1>1. PICK x \in Int, r \in 0 .. W - 1 : x = p \div W /\ p = x * W + r
  BY DivisionIs
<1>2. x * W \in Int /\ c * W \in Int
  BY Times
<1>3. ASSUME p \div W = c PROVE c * W <= p /\ p < c * W + W
  BY <1>1, <1>2, <1>3
<1>4. ASSUME c * W <= p, p < c * W + W PROVE p \div W = c
  BY <1>2, <1>4, DivisionOf
<1>5. QED
  BY <1>3, <1>4

\* Quotients do not decrease.
LEMMA DivisionGrows ==
    ASSUME NEW W \in Nat \ {0}, NEW p \in Int, NEW q \in Int, p <= q
    PROVE  p \div W <= q \div W
<1>1. PICK x \in Int, y \in Int : x = p \div W /\ y = q \div W
  BY DivisionIs
<1>2. x * W <= p /\ q < y * W + W
  BY <1>1, DivisionBounds
<1>3. SUFFICES ASSUME y + 1 <= x PROVE FALSE
  BY <1>1
<1>4. (y + 1) * W <= x * W
  BY <1>3, TimesGrows
<1>5. (y + 1) * W = y * W + W /\ y * W \in Int /\ x * W \in Int
  BY TimesNext
<1>6. QED
  BY <1>2, <1>4, <1>5

\* The part of a side from l to h that is in chunk c.
Lo(l, c) == IF l >= c * ChunkWidth THEN l ELSE c * ChunkWidth
Hi(h, c) == IF h <= (c + 1) * ChunkWidth - 1 THEN h ELSE (c + 1) * ChunkWidth - 1

Clips(l, h, c) ==
    /\ Lo(l, c) \in Int /\ Hi(h, c) \in Int /\ Lo(l, c) <= Hi(h, c)
    /\ \A p \in Int : Lo(l, c) <= p /\ p <= Hi(h, c)
                        <=> l <= p /\ p <= h /\ p \div ChunkWidth = c

\* One side of a region is the side of the selection cut at the chunk's border.
LEMMA SideClips ==
    ASSUME NEW l \in Int, NEW h \in Int, l <= h, NEW c \in (l \div ChunkWidth) .. (h \div ChunkWidth)
    PROVE  Clips(l, h, c)
<1>1. PICK W \in Nat \ {0} : W = ChunkWidth
  BY PlannerAssumption
<1>2. PICK x \in Int, y \in Int : x = l \div W /\ y = h \div W
  BY DivisionIs
<1>3. c \in Int /\ x <= c /\ c <= y
  BY <1>1, <1>2
<1>4. x * W <= l /\ l < x * W + W /\ y * W <= h /\ h < y * W + W
  BY <1>2, DivisionBounds
<1>5. PICK m \in Int, n \in Int : m = c * W /\ n = m + W /\ n = (c + 1) * W
  BY <1>3, TimesNext
<1>6. m <= h
  BY <1>3, <1>4, <1>5, TimesGrows, Times
<1>7. l < n
  BY <1>3, <1>4, <1>5, TimesGrows, Times
<1>8. PICK a \in Int, b \in Int : /\ a = Lo(l, c) /\ b = Hi(h, c)
                                  /\ a = (IF l >= m THEN l ELSE m)
                                  /\ b = (IF h <= n - 1 THEN h ELSE n - 1)
  BY <1>1, <1>5 DEF Lo, Hi
<1>9. a <= b
  BY <1>5, <1>6, <1>7, <1>8
<1>10. ASSUME NEW p \in Int PROVE a <= p /\ p <= b <=> l <= p /\ p <= h /\ p \div W = c
  BY <1>3, <1>5, <1>8, DivisionBounds
<1>11. QED
  BY <1>1, <1>8, <1>9, <1>10 DEF Clips

\* Max and Min of two integers.
LEMMA MaxMin ==
    ASSUME NEW a \in Int, NEW b \in Int
    PROVE  /\ Max({a, b}) = IF a >= b THEN a ELSE b
           /\ Min({a, b}) = IF a <= b THEN a ELSE b
BY DEF Max, Min

\* The least element of an interval.
LEMMA MinOfInterval ==
    ASSUME NEW a \in Int, NEW b \in Int, a <= b
    PROVE  /\ Min(a .. b) = a /\ Cardinality(a .. b) = b - a + 1 /\ IsFiniteSet(a .. b)
<1>1. Min(a .. b) \in a .. b /\ \A y \in a .. b : Min(a .. b) <= y
  BY DEF Min
<1>2. QED
  BY <1>1, FS_Interval

\* The box from lo to hi.
BoxOf(lo, hi) == (lo[1] .. hi[1]) \X (lo[2] .. hi[2]) \X (lo[3] .. hi[3])

RegionIn(low, high, cx, cz) ==
    [chunk |-> <<cx, cz>>,
     min |-> <<Lo(low[1], cx), low[2], Lo(low[3], cz)>>,
     max |-> <<Hi(high[1], cx), high[2], Hi(high[3], cz)>>]

\* A region has the blocks of the selection that lie in its chunk.
LEMMA RegionIs ==
    ASSUME NEW low, NEW high, low[1] \in Int, low[3] \in Int, high[1] \in Int, high[3] \in Int,
           NEW cx \in Int, NEW cz \in Int
    PROVE  Region(low, high, cx, cz) = RegionIn(low, high, cx, cz)
<1>1. PICK W \in Nat \ {0} : W = ChunkWidth
  BY PlannerAssumption
<1>2. ASSUME NEW c \in Int PROVE c * W \in Int /\ (c + 1) * W - 1 \in Int
  BY TimesNext
<1>3. ASSUME NEW l \in Int, NEW h \in Int, NEW c \in Int
      PROVE  Max({l, c * ChunkWidth}) = Lo(l, c) /\ Min({h, (c + 1) * ChunkWidth - 1}) = Hi(h, c)
  BY <1>1, <1>2, MaxMin DEF Lo, Hi
<1>4. QED
  BY <1>3 DEF Region, RegionIn

\* The number whose digits are y, z and x, of the bases s3 and s1.
Radix(y, z, x, s3, s1) == (y * s3 + z) * s1 + x

\* The digits of such a number can be read off it.
LEMMA RadixOf ==
    ASSUME NEW s1 \in Nat \ {0}, NEW s3 \in Nat \ {0},
           NEW y \in Int, NEW z \in 0 .. s3 - 1, NEW x \in 0 .. s1 - 1
    PROVE  LET m == Radix(y, z, x, s3, s1)
           IN /\ m \in Int /\ m % s1 = x /\ (m \div s1) % s3 = z /\ m \div (s1 * s3) = y
<1>1. PICK v \in Int : v = y * s3 + z
  BY Times
<1>2. PICK m \in Int : m = v * s1 + x /\ m = Radix(y, z, x, s3, s1)
  BY <1>1, Times DEF Radix
<1>3. m \div s1 = v /\ m % s1 = x
  BY <1>2, DivisionOf
<1>4. v % s3 = z
  BY <1>1, DivisionOf
<1>5. PICK P \in Nat \ {0} : P = s1 * s3
  OBVIOUS
<1>6. PICK r \in Int : r = z * s1 + x
  BY Times
<1>7. m = y * P + r
  BY <1>1, <1>2, <1>5, <1>6, Times, TimesAssociate
<1>8. r \in 0 .. P - 1
  BY <1>5, <1>6, TimesGrows, TimesNext, Times
<1>9. m \div P = y
  BY <1>7, <1>8, DivisionOf
<1>10. QED
  BY <1>2, <1>3, <1>4, <1>5, <1>9

\* Every number below the product of the bases has digits.
LEMMA RadixIs ==
    ASSUME NEW s1 \in Nat \ {0}, NEW s3 \in Nat \ {0}, NEW m \in Int
    PROVE  /\ m % s1 \in 0 .. s1 - 1 /\ (m \div s1) % s3 \in 0 .. s3 - 1 /\ m \div (s1 * s3) \in Int
           /\ m = Radix(m \div (s1 * s3), (m \div s1) % s3, m % s1, s3, s1)
<1>1. PICK v \in Int, x \in 0 .. s1 - 1 : v = m \div s1 /\ x = m % s1 /\ m = v * s1 + x
  BY DivisionIs
<1>2. PICK y \in Int, z \in 0 .. s3 - 1 : y = v \div s3 /\ z = v % s3 /\ v = y * s3 + z
  BY DivisionIs
<1>3. m = Radix(y, z, x, s3, s1)
  BY <1>1, <1>2 DEF Radix
<1>4. m \div (s1 * s3) = y
  BY <1>3, RadixOf
<1>5. QED
  BY <1>1, <1>2, <1>3, <1>4

\* Digits within their bases make a number below the product.
LEMMA RadixBound ==
    ASSUME NEW s1 \in Nat \ {0}, NEW s2 \in Nat \ {0}, NEW s3 \in Nat \ {0}, NEW m \in Int
    PROVE  m \in 0 .. s1 * s2 * s3 - 1 <=> m \div (s1 * s3) \in 0 .. s2 - 1
<1>1. PICK P \in Nat \ {0} : P = s1 * s3
  OBVIOUS
<1>2. PICK T \in Int : T = s1 * s2 * s3 /\ T = s2 * P
  BY <1>1, Times, TimesAssociate
<1>3. PICK y \in Int : y = m \div P /\ y * P <= m /\ m < y * P + P
  BY DivisionIs, DivisionBounds
<1>4. y * P \in Int /\ (y + 1) * P = y * P + P /\ 0 * P = 0
  BY TimesNext, Times
<1>5. ASSUME 0 <= y PROVE 0 <= m
  BY <1>3, <1>4, <1>5, TimesGrows
<1>6. ASSUME y + 1 <= 0 PROVE m < 0
  BY <1>3, <1>4, <1>6, TimesGrows
<1>7. ASSUME y + 1 <= s2 PROVE m < T
  BY <1>2, <1>3, <1>4, <1>7, TimesGrows
<1>8. ASSUME s2 <= y PROVE T <= m
  BY <1>2, <1>3, <1>4, <1>8, TimesGrows
<1>9. m \in 0 .. T - 1 <=> y \in 0 .. s2 - 1
  BY <1>5, <1>6, <1>7, <1>8
<1>10. QED
  BY <1>1, <1>2, <1>3, <1>9

\* A sequence that lists the elements of a set, each once.
Lists(q, S) ==
    /\ \A n \in 1 .. Len(q) : q[n] \in S
    /\ \A p \in S : \E n \in 1 .. Len(q) : q[n] = p
    /\ \A m, n \in 1 .. Len(q) : q[m] = q[n] => m = n

\* A region's coordinates list its places, each once.
LEMMA CoordinatesList ==
    ASSUME NEW region, NEW lo \in Triples, NEW hi \in Triples, region.min = lo, region.max = hi,
           lo[1] <= hi[1], lo[2] <= hi[2], lo[3] <= hi[3]
    PROVE  /\ Coordinates(region) \in Seq(Triples) /\ Lists(Coordinates(region), BoxOf(lo, hi))
           /\ Len(Coordinates(region)) = (hi[1] - lo[1] + 1) * (hi[2] - lo[2] + 1) * (hi[3] - lo[3] + 1)
<1>1. PICK a1 \in Int, a2 \in Int, a3 \in Int : lo = <<a1, a2, a3>>
  BY DEF Triples
<1>2. PICK b1 \in Int, b2 \in Int, b3 \in Int : hi = <<b1, b2, b3>>
  BY DEF Triples
<1>3. a1 <= b1 /\ a2 <= b2 /\ a3 <= b3
  BY <1>1, <1>2
<1>4. PICK s1 \in Nat \ {0}, s2 \in Nat \ {0}, s3 \in Nat \ {0} :
        s1 = b1 - a1 + 1 /\ s2 = b2 - a2 + 1 /\ s3 = b3 - a3 + 1
  BY <1>3
<1>5. PICK T \in Nat : T = s1 * s2 * s3
  OBVIOUS
<1>6. PICK q : q = Coordinates(region)
  OBVIOUS
<1> DEFINE At(n) == <<a1 + ((n - 1) % s1), a2 + ((n - 1) \div (s1 * s3)),
                      a3 + (((n - 1) \div s1) % s3)>>
<1>7. q = [n \in 1 .. T |-> At(n)]
  <2>1. /\ region.min[1] = a1 /\ region.min[2] = a2 /\ region.min[3] = a3
        /\ region.max[1] = b1 /\ region.max[2] = b2 /\ region.max[3] = b3
    BY <1>1, <1>2
  <2>2. PICK s : s = [i \in 1 .. 3 |-> region.max[i] - region.min[i] + 1]
    OBVIOUS
  <2>3. s[1] = s1 /\ s[2] = s2 /\ s[3] = s3
    BY <1>4, <2>1, <2>2
  <2>4. q = [n \in 1 .. s[1] * s[2] * s[3] |->
               <<region.min[1] + ((n - 1) % s[1]),
                 region.min[2] + ((n - 1) \div (s[1] * s[3])),
                 region.min[3] + (((n - 1) \div s[1]) % s[3])>>]
    BY <1>6, <2>2 DEF Coordinates
  <2>5. QED
    BY <1>5, <2>1, <2>3, <2>4
<1>8. ASSUME NEW n \in 1 .. T
      PROVE  \E x \in 0 .. s1 - 1, y \in 0 .. s2 - 1, z \in 0 .. s3 - 1 :
               n - 1 = Radix(y, z, x, s3, s1) /\ At(n) = <<a1 + x, a2 + y, a3 + z>>
  <2>1. PICK m \in Int : m = n - 1 /\ m \in 0 .. T - 1
    OBVIOUS
  <2>2. m \div (s1 * s3) \in 0 .. s2 - 1
    BY <1>5, <2>1, RadixBound
  <2>3. PICK x \in 0 .. s1 - 1, y \in Int, z \in 0 .. s3 - 1 :
          /\ x = m % s1 /\ y = m \div (s1 * s3) /\ z = (m \div s1) % s3
          /\ m = Radix(y, z, x, s3, s1)
    <3>1. /\ m % s1 \in 0 .. s1 - 1 /\ (m \div s1) % s3 \in 0 .. s3 - 1 /\ m \div (s1 * s3) \in Int
          /\ m = Radix(m \div (s1 * s3), (m \div s1) % s3, m % s1, s3, s1)
      BY RadixIs
    <3>2. QED
      BY <3>1
  <2>4. QED
    BY <2>1, <2>2, <2>3
<1>9. ASSUME NEW x \in 0 .. s1 - 1, NEW y \in 0 .. s2 - 1, NEW z \in 0 .. s3 - 1
      PROVE  \E n \in 1 .. T : n - 1 = Radix(y, z, x, s3, s1) /\ At(n) = <<a1 + x, a2 + y, a3 + z>>
  <2>1. PICK m \in Int : /\ m = Radix(y, z, x, s3, s1)
                         /\ m % s1 = x /\ (m \div s1) % s3 = z /\ m \div (s1 * s3) = y
    <3>1. PICK m : m = Radix(y, z, x, s3, s1)
      OBVIOUS
    <3>2. m \in Int /\ m % s1 = x /\ (m \div s1) % s3 = z /\ m \div (s1 * s3) = y
      BY <3>1, RadixOf
    <3>3. QED
      BY <3>1, <3>2
  <2>2. m \in 0 .. T - 1
    BY <1>5, <2>1, RadixBound
  <2>3. PICK n \in 1 .. T : n - 1 = m
    BY <2>2
  <2>4. QED
    BY <2>1, <2>3
<1> HIDE DEF At
<1>10. \A n \in 1 .. T : At(n) \in (a1 .. b1) \X (a2 .. b2) \X (a3 .. b3)
  <2>1. SUFFICES ASSUME NEW n \in 1 .. T PROVE At(n) \in (a1 .. b1) \X (a2 .. b2) \X (a3 .. b3)
    OBVIOUS
  <2>2. PICK x \in 0 .. s1 - 1, y \in 0 .. s2 - 1, z \in 0 .. s3 - 1 :
          At(n) = <<a1 + x, a2 + y, a3 + z>>
    BY <1>8
  <2>3. a1 + x \in a1 .. b1 /\ a2 + y \in a2 .. b2 /\ a3 + z \in a3 .. b3
    BY <1>4
  <2>4. QED
    BY <2>2, <2>3
<1>11. \A n \in 1 .. T : At(n) \in Triples
  BY <1>10 DEF Triples
<1>12. q \in [1 .. T -> Triples]
  BY <1>7, <1>11
<1>13. q \in Seq(Triples) /\ Len(q) = T
  BY <1>12
<1>14. PICK box : box = BoxOf(lo, hi) /\ box = (a1 .. b1) \X (a2 .. b2) \X (a3 .. b3)
  <2>1. /\ lo[1] = a1 /\ lo[2] = a2 /\ lo[3] = a3
        /\ hi[1] = b1 /\ hi[2] = b2 /\ hi[3] = b3
    BY <1>1, <1>2
  <2>2. BoxOf(lo, hi) = (a1 .. b1) \X (a2 .. b2) \X (a3 .. b3)
    BY <2>1 DEF BoxOf
  <2>3. QED
    BY <2>2
<1>15. \A n \in 1 .. T : q[n] \in box
  BY <1>7, <1>10, <1>14
<1>16. ASSUME NEW p \in box PROVE \E n \in 1 .. T : q[n] = p
  <2>1. PICK u \in a1 .. b1, v \in a2 .. b2, w \in a3 .. b3 : p = <<u, v, w>>
    BY <1>14
  <2>2. PICK x \in 0 .. s1 - 1, y \in 0 .. s2 - 1, z \in 0 .. s3 - 1 :
          u = a1 + x /\ v = a2 + y /\ w = a3 + z
    BY <1>4
  <2>3. PICK n \in 1 .. T : At(n) = <<a1 + x, a2 + y, a3 + z>>
    BY <1>9
  <2>4. q[n] = p
    BY <1>7, <2>1, <2>2, <2>3
  <2>5. QED
    BY <2>4
<1>17. ASSUME NEW m \in 1 .. T, NEW n \in 1 .. T, q[m] = q[n] PROVE m = n
  <2>1. PICK x \in 0 .. s1 - 1, y \in 0 .. s2 - 1, z \in 0 .. s3 - 1 :
          m - 1 = Radix(y, z, x, s3, s1) /\ At(m) = <<a1 + x, a2 + y, a3 + z>>
    BY <1>8
  <2>2. PICK u \in 0 .. s1 - 1, v \in 0 .. s2 - 1, w \in 0 .. s3 - 1 :
          n - 1 = Radix(v, w, u, s3, s1) /\ At(n) = <<a1 + u, a2 + v, a3 + w>>
    BY <1>8
  <2>3. At(m) = At(n)
    BY <1>7, <1>17
  <2>4. a1 + x = a1 + u /\ a2 + y = a2 + v /\ a3 + z = a3 + w
    BY <2>1, <2>2, <2>3
  <2>5. x = u /\ y = v /\ z = w
    BY <2>4
  <2>6. m - 1 = n - 1
    BY <2>1, <2>2, <2>5
  <2>7. QED
    BY <2>6
<1>18. Lists(q, box)
  BY <1>13, <1>15, <1>16, <1>17 DEF Lists
<1>19. Len(q) = (hi[1] - lo[1] + 1) * (hi[2] - lo[2] + 1) * (hi[3] - lo[3] + 1)
  BY <1>1, <1>2, <1>4, <1>5, <1>13
<1>20. QED
  BY <1>6, <1>13, <1>14, <1>18, <1>19

\* Two sequences that list the same set are of the same length.
LEMMA ListsLength ==
    ASSUME NEW V, NEW q \in Seq(V), NEW r \in Seq(V), NEW S, Lists(q, S), Lists(r, S)
    PROVE  Len(q) = Len(r)
<1>1. PICK m \in Nat, n \in Nat : m = Len(q) /\ n = Len(r)
  BY LenProperties
<1>2. ASSUME NEW x \in Seq(V), NEW y \in Seq(V), NEW i \in Nat, NEW j \in Nat, i = Len(x), j = Len(y),
             Lists(x, S), Lists(y, S)
      PROVE  i <= j
  <2>1. \A k \in 1 .. i : \E l \in 1 .. j : y[l] = x[k]
    BY <1>2 DEF Lists
  <2>2. PICK f : f = [k \in 1 .. i |-> CHOOSE l \in 1 .. j : y[l] = x[k]]
    OBVIOUS
  <2>3. \A k \in 1 .. i : f[k] \in 1 .. j /\ y[f[k]] = x[k]
    BY <2>1, <2>2
  <2>4. \A k, l \in 1 .. i : f[k] = f[l] => k = l
    <3>1. SUFFICES ASSUME NEW k \in 1 .. i, NEW l \in 1 .. i, f[k] = f[l] PROVE k = l
      OBVIOUS
    <3>2. x[k] = x[l]
      BY <2>3, <3>1
    <3>3. QED
      BY <1>2, <3>2 DEF Lists
  <2>5. PICK I, J : I = 1 .. i /\ J = 1 .. j
    OBVIOUS
  <2>6. f \in [I -> J]
    BY <2>2, <2>3, <2>5
  <2>7. f \in Injection(I, J)
    BY <2>4, <2>5, <2>6 DEF Injection, IsInjective
  <2>8. IsFiniteSet(J) /\ Cardinality(J) = j /\ Cardinality(I) = i
    BY <2>5, FS_Interval
  <2>9. QED
    BY <2>7, <2>8, FS_Injection
<1>3. m <= n /\ n <= m
  BY <1>1, <1>2
<1>4. QED
  BY <1>1, <1>3

\* Sequences that list disjoint sets list the union of these when laid end to end.
LEMMA FlattenLists ==
    ASSUME NEW K \in Nat, NEW V, NEW seqs \in [1 .. K -> Seq(V)], NEW T,
           \A k \in 1 .. K : Lists(seqs[k], T[k]),
           \A k, l \in 1 .. K : \A p : p \in T[k] /\ p \in T[l] => k = l,
           NEW S, \A p : p \in S <=> \E k \in 1 .. K : p \in T[k]
    PROVE  Lists(FlattenSeq(seqs), S)
<1>1. PICK q \in Seq(V) : q = FlattenSeq(seqs) /\ FlatOf(q, seqs, EndsOf(Lengths(seqs)), K)
  BY FlattenIs
<1>2. PICK counts \in [1 .. K -> Nat] : counts = Lengths(seqs) /\ \A k \in 1 .. K : counts[k] = Len(seqs[k])
  <2>1. Len(seqs) = K
    OBVIOUS
  <2>2. Lengths(seqs) = [k \in 1 .. K |-> Len(seqs[k])]
    BY <2>1 DEF Lengths
  <2>3. \A k \in 1 .. K : Len(seqs[k]) \in Nat
    BY LenProperties
  <2>4. QED
    BY <2>2, <2>3
<1>3. PICK e \in [0 .. K -> Nat] : e = EndsOf(counts) /\ EndsAt(e, counts, K)
  BY EndsOfIs
<1>4. PICK n \in Nat : n = Len(q) /\ n = e[K]
  BY <1>1, <1>2, <1>3, LenProperties DEF FlatOf
<1>5. ASSUME NEW j \in 1 .. n
      PROVE  \E k \in 1 .. K : \E i \in 1 .. Len(seqs[k]) : j = e[k - 1] + i /\ q[j] = seqs[k][i]
  <2>1. PICK k \in 1 .. K : e[k - 1] < j /\ j <= e[k]
    BY <1>3, <1>4, EndsCover DEF EndsAt
  <2>2. k - 1 \in 0 .. K
    OBVIOUS
  <2>3. PICK x \in Nat, l \in Nat : x = e[k - 1] /\ l = Len(seqs[k]) /\ e[k] = x + l
    <3>1. e[k] = e[k - 1] + counts[k]
      BY <1>3 DEF EndsAt
    <3>2. QED
      BY <1>2, <2>2, <3>1
  <2>4. PICK i \in 1 .. l : j = x + i
    <3>1. j - x \in 1 .. l /\ j = x + (j - x)
      BY <2>1, <2>3
    <3>2. QED
      BY <3>1
  <2>5. q[e[k - 1] + i] = seqs[k][i]
    BY <1>1, <1>2, <1>3, <2>3 DEF FlatOf
  <2>6. QED
    BY <2>3, <2>4, <2>5
<1>6. ASSUME NEW j \in 1 .. n PROVE q[j] \in S
  BY <1>5 DEF Lists
<1>7. ASSUME NEW p \in S PROVE \E j \in 1 .. n : q[j] = p
  <2>1. PICK k \in 1 .. K : p \in T[k]
    OBVIOUS
  <2>2. PICK i \in 1 .. Len(seqs[k]) : seqs[k][i] = p
    BY <2>1 DEF Lists
  <2>3. k - 1 \in 0 .. K /\ k \in 0 .. K /\ K \in 0 .. K /\ k <= K
    OBVIOUS
  <2>4. PICK x \in Nat, l \in Nat : x = e[k - 1] /\ l = Len(seqs[k]) /\ e[k] = x + l
    <3>1. e[k] = e[k - 1] + counts[k]
      BY <1>3 DEF EndsAt
    <3>2. QED
      BY <1>2, <2>3, <3>1
  <2>5. e[k] <= e[K] /\ e[k] \in Nat
    BY <1>3, <2>3, EndsGrow
  <2>6. x + i \in 1 .. n
    <3>1. i \in 1 .. l /\ x + l <= n
      BY <1>4, <2>4, <2>5
    <3>2. QED
      BY <3>1
  <2>7. q[e[k - 1] + i] = seqs[k][i]
    BY <1>1, <1>2, <1>3 DEF FlatOf
  <2>8. QED
    BY <2>2, <2>4, <2>6, <2>7
<1>8. ASSUME NEW j \in 1 .. n, NEW o \in 1 .. n, q[j] = q[o] PROVE j = o
  <2>1. PICK k \in 1 .. K : \E i \in 1 .. Len(seqs[k]) : j = e[k - 1] + i /\ q[j] = seqs[k][i]
    BY <1>5
  <2>2. PICK i \in 1 .. Len(seqs[k]) : j = e[k - 1] + i /\ q[j] = seqs[k][i]
    BY <2>1
  <2>3. PICK l \in 1 .. K : \E h \in 1 .. Len(seqs[l]) : o = e[l - 1] + h /\ q[o] = seqs[l][h]
    BY <1>5
  <2>4. PICK h \in 1 .. Len(seqs[l]) : o = e[l - 1] + h /\ q[o] = seqs[l][h]
    BY <2>3
  <2>5. q[j] \in T[k] /\ q[o] \in T[l]
    BY <2>2, <2>4 DEF Lists
  <2>6. k = l
    BY <1>8, <2>5
  <2>7. i = h
    <3>1. PICK s : s = seqs[k]
      OBVIOUS
    <3>2. Lists(s, T[k])
      BY <3>1
    <3>3. i \in 1 .. Len(s) /\ h \in 1 .. Len(s) /\ s[i] = s[h]
      BY <1>8, <2>2, <2>4, <2>6, <3>1
    <3>4. QED
      BY <3>2, <3>3 DEF Lists
  <2>8. QED
    BY <2>2, <2>4, <2>6, <2>7
<1>9. QED
  BY <1>1, <1>4, <1>6, <1>7, <1>8 DEF Lists

Sizes3 == (Nat \ {0}) \X (Nat \ {0}) \X (Nat \ {0})

\* The selection of this size at low reaches from l to h, h being its high corner.
Reaches(low, size, high) ==
    /\ low \in Triples /\ size \in Sizes3 /\ high \in Triples
    /\ \A i \in 1 .. 3 : high[i] = low[i] + size[i] - 1

\* The sides of what a selection reaches.
LEMMA ReachIs ==
    ASSUME NEW low, NEW size, NEW high, Reaches(low, size, high)
    PROVE  /\ \A i \in 1 .. 3 : low[i] \in Int /\ high[i] \in Int /\ low[i] <= high[i]
           /\ \A i \in 1 .. 3 : size[i] \in Nat \ {0}
<1>1. PICK a1 \in Int, a2 \in Int, a3 \in Int : low = <<a1, a2, a3>>
  BY DEF Reaches, Triples
<1>2. PICK b1 \in Int, b2 \in Int, b3 \in Int : high = <<b1, b2, b3>>
  BY DEF Reaches, Triples
<1>3. PICK s1 \in Nat \ {0}, s2 \in Nat \ {0}, s3 \in Nat \ {0} : size = <<s1, s2, s3>>
  BY DEF Reaches, Sizes3
<1>4. ASSUME NEW i \in 1 .. 3
      PROVE  low[i] \in Int /\ high[i] \in Int /\ low[i] <= high[i] /\ size[i] \in Nat \ {0}
  BY <1>1, <1>2, <1>3 DEF Reaches
<1>5. QED
  BY <1>4

\* The chunks that a side of the selection reaches into.
Columns(low, high) == (low[1] \div ChunkWidth) .. (high[1] \div ChunkWidth)
Rows(low, high) == (low[3] \div ChunkWidth) .. (high[3] \div ChunkWidth)

\* A region holds what the selection has in its chunk.
LEMMA RegionHolds ==
    ASSUME NEW low, NEW size, NEW high, Reaches(low, size, high),
           NEW cx \in Columns(low, high), NEW cz \in Rows(low, high),
           NEW region, region = RegionIn(low, high, cx, cz)
    PROVE  /\ region.min \in Triples /\ region.max \in Triples
           /\ \A i \in 1 .. 3 : region.min[i] <= region.max[i]
           /\ \A p \in Triples : p \in BoxOf(region.min, region.max)
                                   <=> p \in BoxOf(low, high) /\ ChunkOf(p) = <<cx, cz>>
<1>1. PICK a1 \in Int, a2 \in Int, a3 \in Int, b1 \in Int, b2 \in Int, b3 \in Int :
        /\ low[1] = a1 /\ low[2] = a2 /\ low[3] = a3
        /\ high[1] = b1 /\ high[2] = b2 /\ high[3] = b3
        /\ a1 <= b1 /\ a2 <= b2 /\ a3 <= b3
  <2>1. 1 \in 1 .. 3 /\ 2 \in 1 .. 3 /\ 3 \in 1 .. 3
    OBVIOUS
  <2>2. QED
    BY <2>1, ReachIs
<1>2. /\ cx \in (a1 \div ChunkWidth) .. (b1 \div ChunkWidth)
      /\ cz \in (a3 \div ChunkWidth) .. (b3 \div ChunkWidth)
  BY <1>1 DEF Columns, Rows
<1>3. PICK u1 \in Int, v1 \in Int :
        /\ u1 = Lo(a1, cx) /\ v1 = Hi(b1, cx) /\ u1 <= v1
        /\ \A p \in Int : u1 <= p /\ p <= v1 <=> a1 <= p /\ p <= b1 /\ p \div ChunkWidth = cx
  <2>1. Clips(a1, b1, cx)
    BY <1>1, <1>2, SideClips
  <2>2. QED
    BY <2>1 DEF Clips
<1>4. PICK u3 \in Int, v3 \in Int :
        /\ u3 = Lo(a3, cz) /\ v3 = Hi(b3, cz) /\ u3 <= v3
        /\ \A p \in Int : u3 <= p /\ p <= v3 <=> a3 <= p /\ p <= b3 /\ p \div ChunkWidth = cz
  <2>1. Clips(a3, b3, cz)
    BY <1>1, <1>2, SideClips
  <2>2. QED
    BY <2>1 DEF Clips
<1>5. region.min = <<u1, a2, u3>> /\ region.max = <<v1, b2, v3>>
  BY <1>1, <1>3, <1>4 DEF RegionIn
<1>6. /\ region.min[1] = u1 /\ region.min[2] = a2 /\ region.min[3] = u3
      /\ region.max[1] = v1 /\ region.max[2] = b2 /\ region.max[3] = v3
  BY <1>5
<1>7. region.min \in Triples /\ region.max \in Triples
  BY <1>5 DEF Triples
<1>8. \A i \in 1 .. 3 : region.min[i] <= region.max[i]
  <2>1. SUFFICES ASSUME NEW i \in 1 .. 3 PROVE region.min[i] <= region.max[i]
    OBVIOUS
  <2>2. i = 1 \/ i = 2 \/ i = 3
    OBVIOUS
  <2>3. QED
    BY <1>1, <1>3, <1>4, <1>6, <2>2
<1>9. ASSUME NEW p \in Triples
      PROVE  p \in BoxOf(region.min, region.max) <=> p \in BoxOf(low, high) /\ ChunkOf(p) = <<cx, cz>>
  <2>1. PICK x \in Int, y \in Int, z \in Int : p = <<x, y, z>>
    BY DEF Triples
  <2>2. p \in BoxOf(region.min, region.max)
          <=> u1 <= x /\ x <= v1 /\ a2 <= y /\ y <= b2 /\ u3 <= z /\ z <= v3
    BY <1>6, <2>1 DEF BoxOf
  <2>3. p \in BoxOf(low, high) <=> a1 <= x /\ x <= b1 /\ a2 <= y /\ y <= b2 /\ a3 <= z /\ z <= b3
    BY <1>1, <2>1 DEF BoxOf
  <2>4. ChunkOf(p) = <<cx, cz>> <=> x \div ChunkWidth = cx /\ z \div ChunkWidth = cz
    BY <2>1 DEF ChunkOf
  <2>5. u1 <= x /\ x <= v1 <=> a1 <= x /\ x <= b1 /\ x \div ChunkWidth = cx
    BY <1>3
  <2>6. u3 <= z /\ z <= v3 <=> a3 <= z /\ z <= b3 /\ z \div ChunkWidth = cz
    BY <1>4
  <2>7. QED
    BY <2>2, <2>3, <2>4, <2>5, <2>6
<1>10. QED
  BY <1>7, <1>8, <1>9

\* The regions cut the selection: one for every chunk it reaches into.
Cut(regions, K, low, high) ==
    /\ K \in Nat /\ DOMAIN regions = 1 .. K /\ Len(regions) = K
    /\ \A n \in 1 .. K : \E cx \in Columns(low, high), cz \in Rows(low, high) :
         regions[n] = RegionIn(low, high, cx, cz)
    /\ \A cx \in Columns(low, high), cz \in Rows(low, high) : \E n \in 1 .. K :
         regions[n] = RegionIn(low, high, cx, cz)
    /\ \A m, n \in 1 .. K : regions[m].chunk = regions[n].chunk => m = n

\* ChunkRegions cuts the selection, column by column and row by row.
LEMMA RegionsCut ==
    ASSUME NEW low, NEW size, NEW high, Reaches(low, size, high)
    PROVE  \E K \in Nat : Cut(ChunkRegions(low, size), K, low, high)
<1>1. PICK a1 \in Int, a2 \in Int, a3 \in Int, b1 \in Int, b2 \in Int, b3 \in Int :
        /\ low[1] = a1 /\ low[2] = a2 /\ low[3] = a3
        /\ high[1] = b1 /\ high[2] = b2 /\ high[3] = b3
        /\ a1 <= b1 /\ a2 <= b2 /\ a3 <= b3
  <2>1. 1 \in 1 .. 3 /\ 2 \in 1 .. 3 /\ 3 \in 1 .. 3
    OBVIOUS
  <2>2. QED
    BY <2>1, ReachIs
<1>2. PICK x0 \in Int, x1 \in Int, z0 \in Int, z1 \in Int :
        /\ x0 = a1 \div ChunkWidth /\ x1 = b1 \div ChunkWidth /\ x0 <= x1
        /\ z0 = a3 \div ChunkWidth /\ z1 = b3 \div ChunkWidth /\ z0 <= z1
  <2>1. ChunkWidth \in Nat \ {0}
    BY PlannerAssumption
  <2>2. /\ a1 \div ChunkWidth \in Int /\ b1 \div ChunkWidth \in Int
        /\ a3 \div ChunkWidth \in Int /\ b3 \div ChunkWidth \in Int
    BY <2>1, DivisionIs
  <2>3. a1 \div ChunkWidth <= b1 \div ChunkWidth /\ a3 \div ChunkWidth <= b3 \div ChunkWidth
    BY <1>1, <2>1, DivisionGrows
  <2>4. QED
    BY <2>2, <2>3
<1>3. Columns(low, high) = x0 .. x1 /\ Rows(low, high) = z0 .. z1
  BY <1>1, <1>2 DEF Columns, Rows
<1>4. PICK nx \in Nat \ {0}, nz \in Nat \ {0} : nx = x1 - x0 + 1 /\ nz = z1 - z0 + 1
  BY <1>2
<1>5. PICK K \in Nat : K = nx * nz
  OBVIOUS
<1>6. PICK regions : regions = ChunkRegions(low, size)
  OBVIOUS
<1> DEFINE X(n) == x0 + ((n - 1) % nx)
           Y(n) == z0 + ((n - 1) \div nx)
<1>7. regions = [n \in 1 .. K |-> Region(low, high, X(n), Y(n))]
  <2>1. PICK top : top = [i \in 1 .. 3 |-> low[i] + size[i] - 1]
    OBVIOUS
  <2>2. top = high
    BY <2>1 DEF Reaches, Triples
  <2>3. PICK xs, zs : xs = Span(low[1], top[1]) /\ zs = Span(low[3], top[3])
    OBVIOUS
  <2>4. xs = x0 .. x1 /\ zs = z0 .. z1
    BY <1>1, <1>2, <2>2, <2>3 DEF Span
  <2>5. Min(xs) = x0 /\ Min(zs) = z0 /\ Cardinality(xs) = nx /\ Cardinality(zs) = nz
    BY <1>2, <1>4, <2>4, MinOfInterval
  <2>6. regions = [n \in 1 .. Cardinality(xs) * Cardinality(zs) |->
                     Region(low, top, Min(xs) + ((n - 1) % Cardinality(xs)),
                            Min(zs) + ((n - 1) \div Cardinality(xs)))]
    BY <1>6, <2>1, <2>3 DEF ChunkRegions
  <2>7. QED
    BY <1>5, <2>2, <2>5, <2>6
<1>8. ASSUME NEW n \in 1 .. K
      PROVE  \E c \in 0 .. nx - 1, r \in 0 .. nz - 1 :
               n - 1 = r * nx + c /\ X(n) = x0 + c /\ Y(n) = z0 + r
  <2>1. n - 1 \in Int /\ 0 <= n - 1 /\ n - 1 < K
    OBVIOUS
  <2>2. PICK r \in Int, c \in 0 .. nx - 1 :
          r = (n - 1) \div nx /\ c = (n - 1) % nx /\ n - 1 = r * nx + c
    BY <2>1, DivisionIs
  <2>3. r * nx \in Int /\ K = nz * nx
    BY <1>5, Times
  <2>4. 0 <= r
    <3>1. SUFFICES ASSUME r + 1 <= 0 PROVE FALSE
      BY <2>2
    <3>2. (r + 1) * nx <= 0 * nx
      BY <3>1, TimesGrows
    <3>3. (r + 1) * nx = r * nx + nx /\ 0 * nx = 0
      BY TimesNext, Times
    <3>4. QED
      BY <2>1, <2>2, <2>3, <3>2, <3>3
  <2>5. r < nz
    <3>1. SUFFICES ASSUME nz <= r PROVE FALSE
      BY <2>2
    <3>2. nz * nx <= r * nx
      BY <3>1, TimesGrows
    <3>3. QED
      BY <2>1, <2>2, <2>3, <3>2
  <2>6. r \in 0 .. nz - 1 /\ X(n) = x0 + c /\ Y(n) = z0 + r
    BY <2>2, <2>4, <2>5
  <2>7. QED
    BY <2>2, <2>6
<1>9. ASSUME NEW c \in 0 .. nx - 1, NEW r \in 0 .. nz - 1
      PROVE  \E n \in 1 .. K : X(n) = x0 + c /\ Y(n) = z0 + r
  <2>1. PICK m \in Int : m = r * nx + c
    BY Times
  <2>2. m \div nx = r /\ m % nx = c
    BY <2>1, DivisionOf
  <2>3. 0 <= m /\ m + 1 <= K
    BY <1>5, <2>1, TimesGrows, TimesNext, Times
  <2>4. PICK n \in 1 .. K : n - 1 = m
    BY <2>3
  <2>5. QED
    BY <2>2, <2>4
<1> HIDE DEF X, Y
<1>10. ASSUME NEW n \in 1 .. K
       PROVE  X(n) \in x0 .. x1 /\ Y(n) \in z0 .. z1 /\ regions[n] = RegionIn(low, high, X(n), Y(n))
  <2>1. PICK c \in 0 .. nx - 1, r \in 0 .. nz - 1 : X(n) = x0 + c /\ Y(n) = z0 + r
    BY <1>8
  <2>2. X(n) \in x0 .. x1 /\ Y(n) \in z0 .. z1
    BY <1>4, <2>1
  <2>3. PICK cx \in Int, cz \in Int : cx = X(n) /\ cz = Y(n)
    BY <2>2
  <2>4. Region(low, high, cx, cz) = RegionIn(low, high, cx, cz)
    BY <1>1, RegionIs
  <2>5. QED
    BY <1>7, <2>2, <2>3, <2>4
<1>11. \A n \in 1 .. K : \E cx \in x0 .. x1, cz \in z0 .. z1 : regions[n] = RegionIn(low, high, cx, cz)
  BY <1>10
<1>12. ASSUME NEW cx \in x0 .. x1, NEW cz \in z0 .. z1
       PROVE  \E n \in 1 .. K : regions[n] = RegionIn(low, high, cx, cz)
  <2>1. PICK c \in 0 .. nx - 1, r \in 0 .. nz - 1 : cx = x0 + c /\ cz = z0 + r
    BY <1>4
  <2>2. PICK n \in 1 .. K : X(n) = x0 + c /\ Y(n) = z0 + r
    BY <1>9
  <2>3. QED
    BY <1>10, <2>1, <2>2
<1>13. ASSUME NEW m \in 1 .. K, NEW n \in 1 .. K, regions[m].chunk = regions[n].chunk PROVE m = n
  <2>1. \A o \in 1 .. K : regions[o].chunk = <<X(o), Y(o)>>
    <3>1. ASSUME NEW cx, NEW cz PROVE RegionIn(low, high, cx, cz).chunk = <<cx, cz>>
      BY DEF RegionIn
    <3>2. ASSUME NEW o \in 1 .. K PROVE regions[o].chunk = <<X(o), Y(o)>>
      BY <1>10, <3>1
    <3>3. QED
      BY <3>2
  <2>2. X(m) = X(n) /\ Y(m) = Y(n)
    BY <1>13, <2>1
  <2>3. PICK c \in 0 .. nx - 1, r \in 0 .. nz - 1 : m - 1 = r * nx + c /\ X(m) = x0 + c /\ Y(m) = z0 + r
    BY <1>8
  <2>4. PICK d \in 0 .. nx - 1, t \in 0 .. nz - 1 : n - 1 = t * nx + d /\ X(n) = x0 + d /\ Y(n) = z0 + t
    BY <1>8
  <2>5. c = d /\ r = t
    <3>1. x0 + c = x0 + d /\ z0 + r = z0 + t
      BY <2>2, <2>3, <2>4
    <3>2. QED
      BY <3>1
  <2>6. QED
    BY <2>3, <2>4, <2>5
<1>14. DOMAIN regions = 1 .. K /\ Len(regions) = K
  BY <1>7
<1>15. Cut(regions, K, low, high)
  <2>1. /\ \A n \in 1 .. K : \E cx \in Columns(low, high), cz \in Rows(low, high) :
             regions[n] = RegionIn(low, high, cx, cz)
        /\ \A cx \in Columns(low, high), cz \in Rows(low, high) : \E n \in 1 .. K :
             regions[n] = RegionIn(low, high, cx, cz)
    <3>1. PICK xs, zs : xs = Columns(low, high) /\ zs = Rows(low, high) /\ xs = x0 .. x1 /\ zs = z0 .. z1
      BY <1>3
    <3>2. \A n \in 1 .. K : \E cx \in xs, cz \in zs : regions[n] = RegionIn(low, high, cx, cz)
      BY <1>11, <3>1
    <3>3. \A cx \in xs, cz \in zs : \E n \in 1 .. K : regions[n] = RegionIn(low, high, cx, cz)
      BY <1>12, <3>1
    <3>4. QED
      BY <3>1, <3>2, <3>3
  <2>2. \A m, n \in 1 .. K : regions[m].chunk = regions[n].chunk => m = n
    BY <1>13
  <2>3. QED
    BY <1>14, <2>1, <2>2 DEF Cut
<1>16. QED
  BY <1>6, <1>15

\* Minus, side by side.
LEMMA MinusIs ==
    ASSUME NEW x \in Int, NEW y \in Int, NEW z \in Int, NEW u \in Int, NEW v \in Int, NEW w \in Int
    PROVE  Minus(<<x, y, z>>, <<u, v, w>>) = <<x - u, y - v, z - w>>
<1>1. PICK f : f = Minus(<<x, y, z>>, <<u, v, w>>)
  OBVIOUS
<1>2. f = [i \in 1 .. 3 |-> <<x, y, z>>[i] - <<u, v, w>>[i]]
  BY <1>1 DEF Minus
<1>3. PICK t : t = <<x - u, y - v, z - w>>
  OBVIOUS
<1>4. t \in [1 .. 3 -> Int] /\ f[1] = t[1] /\ f[2] = t[2] /\ f[3] = t[3]
  BY <1>2, <1>3
<1>5. \A i \in 1 .. 3 : i = 1 \/ i = 2 \/ i = 3
  OBVIOUS
<1>6. \A i \in 1 .. 3 : f[i] = t[i]
  BY <1>4, <1>5
<1>7. f = t
  BY <1>2, <1>4, <1>6
<1>8. QED
  BY <1>1, <1>3, <1>7

BoxesOf(regions, K) == [k \in 1 .. K |-> BoxOf(regions[k].min, regions[k].max)]

\* The places between two corners are positions.
LEMMA BoxOfTriples ==
    ASSUME NEW lo \in Triples, NEW hi \in Triples, NEW p \in BoxOf(lo, hi)
    PROVE  p \in Triples
BY DEF BoxOf, Triples

\* The chunk of a position of the selection is one the selection reaches into.
LEMMA ChunkReached ==
    ASSUME NEW low, NEW size, NEW high, Reaches(low, size, high), NEW p \in BoxOf(low, high)
    PROVE  \E cx \in Columns(low, high), cz \in Rows(low, high) : ChunkOf(p) = <<cx, cz>>
<1>1. PICK a1 \in Int, a2 \in Int, a3 \in Int, b1 \in Int, b2 \in Int, b3 \in Int :
        /\ low[1] = a1 /\ low[2] = a2 /\ low[3] = a3
        /\ high[1] = b1 /\ high[2] = b2 /\ high[3] = b3
  <2>1. 1 \in 1 .. 3 /\ 2 \in 1 .. 3 /\ 3 \in 1 .. 3
    OBVIOUS
  <2>2. QED
    BY <2>1, ReachIs
<1>2. PICK x \in a1 .. b1, y \in a2 .. b2, z \in a3 .. b3 : p = <<x, y, z>>
  BY <1>1 DEF BoxOf
<1>3. PICK W \in Nat \ {0} : W = ChunkWidth
  BY PlannerAssumption
<1>4. ASSUME NEW a \in Int, NEW b \in Int, NEW c \in a .. b
      PROVE  c \div W \in (a \div W) .. (b \div W)
  BY DivisionIs, DivisionGrows
<1>5. x \div W \in Columns(low, high) /\ z \div W \in Rows(low, high)
  BY <1>1, <1>3, <1>4 DEF Columns, Rows
<1>6. ChunkOf(p) = <<x \div W, z \div W>>
  BY <1>2, <1>3 DEF ChunkOf
<1>7. QED
  BY <1>5, <1>6

\* What the regions of a selection list, end to end: its positions, each once.
LEMMA RegionsList ==
    ASSUME NEW low, NEW size, NEW high, Reaches(low, size, high),
           NEW regions, NEW K, Cut(regions, K, low, high)
    PROVE  LET seqs == [n \in DOMAIN regions |-> Coordinates(regions[n])]
           IN /\ FlattenSeq(seqs) \in Seq(Triples) /\ Lists(FlattenSeq(seqs), BoxOf(low, high))
              /\ \A n \in DOMAIN regions : \A p \in ToSet(Coordinates(regions[n])) :
                   ChunkOf(p) = regions[n].chunk
<1>1. /\ K \in Nat /\ DOMAIN regions = 1 .. K
      /\ \A m, n \in 1 .. K : regions[m].chunk = regions[n].chunk => m = n
  BY DEF Cut
<1>2. PICK T : T = BoxesOf(regions, K)
  OBVIOUS
<1>3. ASSUME NEW n \in 1 .. K
      PROVE  /\ Coordinates(regions[n]) \in Seq(Triples) /\ Lists(Coordinates(regions[n]), T[n])
             /\ \A p : p \in T[n] <=> p \in BoxOf(low, high) /\ ChunkOf(p) = regions[n].chunk
  <2>1. PICK cx \in Columns(low, high), cz \in Rows(low, high) : regions[n] = RegionIn(low, high, cx, cz)
    BY DEF Cut
  <2>2. PICK region : region = regions[n]
    OBVIOUS
  <2>3. /\ region.min \in Triples /\ region.max \in Triples
        /\ \A i \in 1 .. 3 : region.min[i] <= region.max[i]
        /\ \A p \in Triples : p \in BoxOf(region.min, region.max)
                                <=> p \in BoxOf(low, high) /\ ChunkOf(p) = <<cx, cz>>
    BY <2>1, <2>2, RegionHolds
  <2>4. T[n] = BoxOf(region.min, region.max)
    BY <1>2, <2>2 DEF BoxesOf
  <2>5. region.chunk = <<cx, cz>>
    BY <2>1, <2>2 DEF RegionIn
  <2>6. PICK lo \in Triples, hi \in Triples : lo = region.min /\ hi = region.max
    BY <2>3
  <2>7. lo[1] <= hi[1] /\ lo[2] <= hi[2] /\ lo[3] <= hi[3]
    BY <2>3, <2>6
  <2>8. Coordinates(region) \in Seq(Triples) /\ Lists(Coordinates(region), BoxOf(lo, hi))
    BY <2>6, <2>7, CoordinatesList
  <2>9. low \in Triples /\ high \in Triples
    BY DEF Reaches
  <2>10. ASSUME NEW p PROVE p \in T[n] <=> p \in BoxOf(low, high) /\ ChunkOf(p) = region.chunk
    BY <2>3, <2>4, <2>5, <2>6, <2>9, BoxOfTriples
  <2>11. QED
    BY <2>2, <2>4, <2>6, <2>8, <2>10
<1>4. PICK seqs \in [1 .. K -> Seq(Triples)] :
        /\ seqs = [n \in DOMAIN regions |-> Coordinates(regions[n])]
        /\ \A n \in 1 .. K : seqs[n] = Coordinates(regions[n])
  <2>1. DOMAIN regions = 1 .. K
    BY <1>1
  <2>2. PICK seqs : seqs = [n \in 1 .. K |-> Coordinates(regions[n])]
    OBVIOUS
  <2>3. \A n \in 1 .. K : seqs[n] = Coordinates(regions[n])
    BY <2>2
  <2>4. \A n \in 1 .. K : seqs[n] \in Seq(Triples)
    BY <1>3, <2>3
  <2>5. seqs \in [1 .. K -> Seq(Triples)]
    BY <2>2, <2>4
  <2>6. seqs = [n \in DOMAIN regions |-> Coordinates(regions[n])]
    BY <2>1, <2>2
  <2>7. QED
    BY <2>3, <2>5, <2>6
<1>5. \A k \in 1 .. K : Lists(seqs[k], T[k])
  BY <1>3, <1>4
<1>6. \A k, l \in 1 .. K : \A p : p \in T[k] /\ p \in T[l] => k = l
  <2>1. SUFFICES ASSUME NEW k \in 1 .. K, NEW l \in 1 .. K, NEW p, p \in T[k], p \in T[l] PROVE k = l
    OBVIOUS
  <2>2. ChunkOf(p) = regions[k].chunk /\ ChunkOf(p) = regions[l].chunk
    BY <1>3, <2>1
  <2>3. QED
    BY <1>1, <2>2
<1>7. PICK S : S = BoxOf(low, high)
  OBVIOUS
<1>8. \A p : p \in S <=> \E k \in 1 .. K : p \in T[k]
  <2>1. ASSUME NEW p \in S PROVE \E k \in 1 .. K : p \in T[k]
    <3>1. PICK cx \in Columns(low, high), cz \in Rows(low, high) : ChunkOf(p) = <<cx, cz>>
      BY <1>7, ChunkReached
    <3>2. PICK k \in 1 .. K : regions[k] = RegionIn(low, high, cx, cz)
      BY DEF Cut
    <3>3. regions[k].chunk = <<cx, cz>>
      BY <3>2 DEF RegionIn
    <3>4. QED
      BY <1>3, <1>7, <3>1, <3>3
  <2>2. ASSUME NEW p, NEW k \in 1 .. K, p \in T[k] PROVE p \in S
    BY <1>3, <1>7, <2>2
  <2>3. QED
    BY <2>1, <2>2
<1>9. Lists(FlattenSeq(seqs), S)
  BY <1>1, <1>5, <1>6, <1>8, FlattenLists
<1>10. FlattenSeq(seqs) \in Seq(Triples)
  BY <1>1, FlattenIs
<1>11. ASSUME NEW n \in 1 .. K, NEW p \in ToSet(Coordinates(regions[n]))
       PROVE  ChunkOf(p) = regions[n].chunk
  <2>1. PICK q : q = Coordinates(regions[n]) /\ q \in Seq(Triples) /\ Lists(q, T[n])
    BY <1>3
  <2>2. DOMAIN q = 1 .. Len(q)
    BY <2>1, LenProperties
  <2>3. p \in T[n]
    BY <2>1, <2>2 DEF ToSet, Lists
  <2>4. QED
    BY <1>3, <2>3
<1>12. QED
  BY <1>1, <1>4, <1>7, <1>9, <1>10, <1>11

\* The selection's high corner.
LEMMA HighCorner ==
    ASSUME NEW low \in Triples, NEW size \in Sizes3
    PROVE  \E high : Reaches(low, size, high)
<1>1. PICK a1 \in Int, a2 \in Int, a3 \in Int : low = <<a1, a2, a3>>
  BY DEF Triples
<1>2. PICK s1 \in Nat \ {0}, s2 \in Nat \ {0}, s3 \in Nat \ {0} : size = <<s1, s2, s3>>
  BY DEF Sizes3
<1>3. PICK high : high = <<a1 + s1 - 1, a2 + s2 - 1, a3 + s3 - 1>>
  OBVIOUS
<1>4. high \in Triples
  BY <1>3 DEF Triples
<1>5. ASSUME NEW i \in 1 .. 3 PROVE high[i] = low[i] + size[i] - 1
  BY <1>1, <1>2, <1>3
<1>6. QED
  BY <1>4, <1>5 DEF Reaches

\* A save visits every place of the selection once.
LEMMA ScanOrderLists ==
    ASSUME NEW low \in Triples, NEW size \in Sizes3
    PROVE  /\ ScanOrder(low, size) \in Seq(Triples)
           /\ Lists(ScanOrder(low, size), Box(size))
           /\ Len(ScanOrder(low, size)) = Volume(size)
           /\ \A n \in DOMAIN ChunkRegions(low, size) :
                \A p \in ToSet(Coordinates(ChunkRegions(low, size)[n])) :
                  ChunkOf(p) = ChunkRegions(low, size)[n].chunk
<1>1. PICK high : Reaches(low, size, high)
  BY HighCorner
<1>2. PICK regions, K : regions = ChunkRegions(low, size) /\ Cut(regions, K, low, high)
  BY <1>1, RegionsCut
<1>3. PICK scanned : scanned = FlattenSeq([n \in DOMAIN regions |-> Coordinates(regions[n])])
  OBVIOUS
<1>4. /\ scanned \in Seq(Triples) /\ Lists(scanned, BoxOf(low, high))
      /\ \A n \in DOMAIN regions : \A p \in ToSet(Coordinates(regions[n])) : ChunkOf(p) = regions[n].chunk
  BY <1>1, <1>2, <1>3, RegionsList
<1>5. PICK L \in Nat : L = Len(scanned) /\ DOMAIN scanned = 1 .. L
  BY <1>4, LenProperties
<1>6. PICK order : order = ScanOrder(low, size)
  OBVIOUS
<1>7. order = [n \in 1 .. L |-> Minus(scanned[n], low)]
  BY <1>2, <1>3, <1>5, <1>6 DEF ScanOrder
<1>8. PICK a1 \in Int, a2 \in Int, a3 \in Int : low = <<a1, a2, a3>>
  BY DEF Triples
<1>9. PICK s1 \in Nat \ {0}, s2 \in Nat \ {0}, s3 \in Nat \ {0} : size = <<s1, s2, s3>>
  BY DEF Sizes3
<1>10. PICK b1 \in Int, b2 \in Int, b3 \in Int : /\ high[1] = b1 /\ high[2] = b2 /\ high[3] = b3
                                                 /\ b1 = a1 + s1 - 1 /\ b2 = a2 + s2 - 1 /\ b3 = a3 + s3 - 1
  BY <1>1, <1>8, <1>9 DEF Reaches
<1>11. BoxOf(low, high) = (a1 .. b1) \X (a2 .. b2) \X (a3 .. b3)
  BY <1>8, <1>10 DEF BoxOf
<1>12. Box(size) = (0 .. s1 - 1) \X (0 .. s2 - 1) \X (0 .. s3 - 1)
  BY <1>9 DEF Box
<1>13. ASSUME NEW x \in Int, NEW y \in Int, NEW z \in Int
       PROVE  Minus(<<x, y, z>>, low) = <<x - a1, y - a2, z - a3>>
  BY <1>8, MinusIs
<1>14. ASSUME NEW n \in 1 .. L
       PROVE  \E x \in a1 .. b1, y \in a2 .. b2, z \in a3 .. b3 :
                scanned[n] = <<x, y, z>> /\ order[n] = <<x - a1, y - a2, z - a3>>
  <2>1. scanned[n] \in BoxOf(low, high)
    BY <1>4, <1>5 DEF Lists
  <2>2. PICK x \in a1 .. b1, y \in a2 .. b2, z \in a3 .. b3 : scanned[n] = <<x, y, z>>
    BY <1>11, <2>1
  <2>3. order[n] = Minus(scanned[n], low)
    BY <1>7
  <2>4. Minus(<<x, y, z>>, low) = <<x - a1, y - a2, z - a3>>
    BY <1>8, <1>10, <1>13
  <2>5. order[n] = <<x - a1, y - a2, z - a3>>
    BY <2>2, <2>3, <2>4
  <2>6. QED
    BY <2>2, <2>5
<1>15. ASSUME NEW n \in 1 .. L PROVE order[n] \in Box(size)
  <2>1. PICK x \in a1 .. b1, y \in a2 .. b2, z \in a3 .. b3 : order[n] = <<x - a1, y - a2, z - a3>>
    BY <1>14
  <2>2. x - a1 \in 0 .. s1 - 1 /\ y - a2 \in 0 .. s2 - 1 /\ z - a3 \in 0 .. s3 - 1
    BY <1>10
  <2>3. QED
    BY <1>12, <2>1, <2>2
<1>16. ASSUME NEW d \in Box(size) PROVE \E n \in 1 .. L : order[n] = d
  <2>1. PICK u \in 0 .. s1 - 1, v \in 0 .. s2 - 1, w \in 0 .. s3 - 1 : d = <<u, v, w>>
    BY <1>12
  <2>2. PICK x \in a1 .. b1, y \in a2 .. b2, z \in a3 .. b3 : u = x - a1 /\ v = y - a2 /\ w = z - a3
    BY <1>10
  <2>3. <<x, y, z>> \in BoxOf(low, high)
    BY <1>11
  <2>4. PICK n \in 1 .. L : scanned[n] = <<x, y, z>>
    BY <1>4, <1>5, <2>3 DEF Lists
  <2>5. order[n] = Minus(scanned[n], low)
    BY <1>7
  <2>6. Minus(<<x, y, z>>, low) = <<x - a1, y - a2, z - a3>>
    BY <1>8, <1>10, <1>13
  <2>7. order[n] = <<x - a1, y - a2, z - a3>>
    BY <2>4, <2>5, <2>6
  <2>8. <<x - a1, y - a2, z - a3>> = <<u, v, w>>
    BY <2>2
  <2>9. QED
    BY <2>1, <2>7, <2>8
<1>17. ASSUME NEW m \in 1 .. L, NEW n \in 1 .. L, order[m] = order[n] PROVE m = n
  <2>1. PICK x \in a1 .. b1, y \in a2 .. b2, z \in a3 .. b3 :
          scanned[m] = <<x, y, z>> /\ order[m] = <<x - a1, y - a2, z - a3>>
    BY <1>14
  <2>2. PICK u \in a1 .. b1, v \in a2 .. b2, w \in a3 .. b3 :
          scanned[n] = <<u, v, w>> /\ order[n] = <<u - a1, v - a2, w - a3>>
    BY <1>14
  <2>3. x - a1 = u - a1 /\ y - a2 = v - a2 /\ z - a3 = w - a3
    <3>1. <<x - a1, y - a2, z - a3>> = <<u - a1, v - a2, w - a3>>
      BY <1>17, <2>1, <2>2
    <3>2. QED
      BY <3>1
  <2>4. x = u /\ y = v /\ z = w
    BY <1>8, <1>10, <2>3
  <2>5. scanned[m] = scanned[n]
    BY <2>1, <2>2, <2>4
  <2>6. QED
    BY <1>4, <1>5, <2>5 DEF Lists
<1>18. order \in Seq(Triples) /\ Len(order) = L
  BY <1>7, <1>12, <1>15 DEF Triples
<1>19. Lists(order, Box(size))
  BY <1>15, <1>16, <1>17, <1>18 DEF Lists
<1>20. Len(order) = Volume(size)
  <2>1. PICK lo, hi : lo = <<0, 0, 0>> /\ hi = <<s1 - 1, s2 - 1, s3 - 1>>
    OBVIOUS
  <2>2. lo \in Triples /\ hi \in Triples
    BY <2>1 DEF Triples
  <2>3. PICK region : region = [min |-> lo, max |-> hi]
    OBVIOUS
  <2>4. region.min = lo /\ region.max = hi
    BY <2>3
  <2>5. /\ lo[1] <= hi[1] /\ lo[2] <= hi[2] /\ lo[3] <= hi[3]
        /\ hi[1] - lo[1] + 1 = s1 /\ hi[2] - lo[2] + 1 = s2 /\ hi[3] - lo[3] + 1 = s3
    BY <2>1
  <2>6. PICK q \in Seq(Triples) : Lists(q, BoxOf(lo, hi)) /\ Len(q) = s1 * s2 * s3
    BY <2>2, <2>4, <2>5, CoordinatesList
  <2>7. BoxOf(lo, hi) = Box(size)
    BY <1>12, <2>1 DEF BoxOf
  <2>8. Len(order) = Len(q)
    BY <1>18, <1>19, <2>6, <2>7, ListsLength
  <2>9. Volume(size) = s1 * s2 * s3
    BY <1>9 DEF Volume
  <2>10. QED
    BY <2>6, <2>8, <2>9
<1>21. QED
  BY <1>2, <1>4, <1>6, <1>18, <1>19, <1>20

----------------------------------------------------------------------------
(* Block states that turn. *)

\* The side that a turn takes a side to.
TurnedSide(side, r) == Cycle(Cardinals, side, r \div 90)

SidesOfWorld == {"north", "east", "south", "west"}

\* The quarter turns of the rotations.
LEMMA QuarterTurns ==
    /\ 0 \div 90 = 0 /\ 90 \div 90 = 1 /\ 180 \div 90 = 2 /\ 270 \div 90 = 3
OBVIOUS

\* A cycle of four values: the place of a value in it decides where it goes.
Cycles(a, b, c, d, q) ==
    /\ Cycle(<<a, b, c, d>>, a, q) = <<a, b, c, d>>[q + 1]
    /\ Cycle(<<a, b, c, d>>, b, q) = <<b, c, d, a>>[q + 1]
    /\ Cycle(<<a, b, c, d>>, c, q) = <<c, d, a, b>>[q + 1]
    /\ Cycle(<<a, b, c, d>>, d, q) = <<d, a, b, c>>[q + 1]
    /\ \A v : v \notin {a, b, c, d} => Cycle(<<a, b, c, d>>, v, q) = v

\* A value of a cycle of four moves on by q places; another value stays.
LEMMA CycleIs ==
    ASSUME NEW a, NEW b, NEW c, NEW d, a # b, a # c, a # d, b # c, b # d, c # d,
           NEW q \in 0 .. 3
    PROVE  Cycles(a, b, c, d, q)
<1>1. PICK order : order = <<a, b, c, d>>
  OBVIOUS
<1>2. /\ DOMAIN order = 1 .. 4
      /\ order[1] = a /\ order[2] = b /\ order[3] = c /\ order[4] = d
  BY <1>1
<1>3. ASSUME NEW i \in 1 .. 4, NEW n \in 1 .. 4, n = ((i - 1 + q) % 4) + 1
      PROVE  Cycle(order, order[i], q) = order[n]
  BY <1>2, <1>3 DEF Cycle
<1>4. q = 0 \/ q = 1 \/ q = 2 \/ q = 3
  OBVIOUS
<1>5. Cycle(order, a, q) = <<a, b, c, d>>[q + 1]
  BY <1>2, <1>3, <1>4
<1>6. Cycle(order, b, q) = <<b, c, d, a>>[q + 1]
  BY <1>2, <1>3, <1>4
<1>7. Cycle(order, c, q) = <<c, d, a, b>>[q + 1]
  BY <1>2, <1>3, <1>4
<1>8. Cycle(order, d, q) = <<d, a, b, c>>[q + 1]
  BY <1>2, <1>3, <1>4
<1>9. ASSUME NEW v, v \notin {a, b, c, d} PROVE Cycle(order, v, q) = v
  BY <1>2, <1>9 DEF Cycle
<1>10. QED
  BY <1>1, <1>5, <1>6, <1>7, <1>8, <1>9 DEF Cycles

\* Turned sides are the next ones clockwise.
LEMMA TurnedSides ==
    /\ \A s \in SidesOfWorld : TurnedSide(s, 0) = s
    /\ TurnedSide("north", 90) = "east" /\ TurnedSide("east", 90) = "south"
    /\ TurnedSide("south", 90) = "west" /\ TurnedSide("west", 90) = "north"
    /\ TurnedSide("north", 180) = "south" /\ TurnedSide("east", 180) = "west"
    /\ TurnedSide("south", 180) = "north" /\ TurnedSide("west", 180) = "east"
    /\ TurnedSide("north", 270) = "west" /\ TurnedSide("east", 270) = "north"
    /\ TurnedSide("south", 270) = "east" /\ TurnedSide("west", 270) = "south"
BY CycleIs, QuarterTurns DEF Cycles, Cardinals, TurnedSide, SidesOfWorld

\* A turn of the world takes a step out of a side to the step out of the turned side.
LEMMA StepTurns ==
    ASSUME NEW r \in Rotations, NEW s \in SidesOfWorld
    PROVE  LET cube == <<3, 3, 3>>
               centre == <<1, 1, 1>>
           IN /\ Step(TurnedSide(s, r))
                   = Minus(RotateCoord(Plus(centre, Step(s)), cube, r), RotateCoord(centre, cube, r))
              /\ TurnedSide(s, r) \in SidesOfWorld
<1>1. PICK cube, centre : cube = <<3, 3, 3>> /\ centre = <<1, 1, 1>>
  OBVIOUS
<1>2. /\ cube[1] = 3 /\ cube[2] = 3 /\ cube[3] = 3 /\ centre[1] = 1 /\ centre[2] = 1 /\ centre[3] = 1
  BY <1>1
<1>3. ASSUME NEW a \in Int, NEW b \in Int, NEW c \in Int,
             NEW x \in Int, NEW y \in Int, NEW z \in Int
      PROVE  Minus(<<a, b, c>>, <<x, y, z>>) = <<a - x, b - y, c - z>>
  BY DEF Minus
<1>4. ASSUME NEW a \in Int, NEW b \in Int, NEW c \in Int
      PROVE  Plus(centre, <<a, b, c>>) = <<1 + a, 1 + b, 1 + c>>
  BY <1>1 DEF Plus
<1>5. ASSUME NEW x \in Int, NEW y \in Int, NEW z \in Int
      PROVE  /\ RotateCoord(<<x, y, z>>, cube, 0) = <<x, y, z>>
             /\ RotateCoord(<<x, y, z>>, cube, 90) = <<2 - z, y, x>>
             /\ RotateCoord(<<x, y, z>>, cube, 180) = <<2 - x, y, 2 - z>>
             /\ RotateCoord(<<x, y, z>>, cube, 270) = <<z, y, 2 - x>>
  BY <1>2 DEF RotateCoord
<1>6. RotateCoord(centre, cube, r) = <<1, 1, 1>>
  BY <1>1, <1>5 DEF Rotations
<1>7. /\ Step("north") = <<0, 0, -1>> /\ Step("east") = <<1, 0, 0>>
      /\ Step("south") = <<0, 0, 1>> /\ Step("west") = <<-1, 0, 0>>
  BY DEF Step
<1>8. /\ Plus(centre, Step("north")) = <<1, 1, 0>> /\ Plus(centre, Step("east")) = <<2, 1, 1>>
      /\ Plus(centre, Step("south")) = <<1, 1, 2>> /\ Plus(centre, Step("west")) = <<0, 1, 1>>
  BY <1>4, <1>7
<1>9. /\ Minus(<<1, 1, 0>>, <<1, 1, 1>>) = Step("north")
      /\ Minus(<<2, 1, 1>>, <<1, 1, 1>>) = Step("east")
      /\ Minus(<<1, 1, 2>>, <<1, 1, 1>>) = Step("south")
      /\ Minus(<<0, 1, 1>>, <<1, 1, 1>>) = Step("west")
  BY <1>3, <1>7
<1>10. CASE r = 0
  BY <1>1, <1>5, <1>6, <1>8, <1>9, <1>10, TurnedSides DEF SidesOfWorld
<1>11. CASE r = 90
  BY <1>1, <1>5, <1>6, <1>8, <1>9, <1>11, TurnedSides DEF SidesOfWorld
<1>12. CASE r = 180
  <2>1. /\ RotateCoord(<<1, 1, 0>>, cube, 180) = <<1, 1, 2>>
        /\ RotateCoord(<<2, 1, 1>>, cube, 180) = <<0, 1, 1>>
        /\ RotateCoord(<<1, 1, 2>>, cube, 180) = <<1, 1, 0>>
        /\ RotateCoord(<<0, 1, 1>>, cube, 180) = <<2, 1, 1>>
    BY <1>5
  <2>2. QED
    BY <1>1, <1>6, <1>8, <1>9, <1>12, <2>1, TurnedSides DEF SidesOfWorld
<1>13. CASE r = 270
  BY <1>1, <1>5, <1>6, <1>8, <1>9, <1>13, TurnedSides DEF SidesOfWorld
<1>14. QED
  BY <1>10, <1>11, <1>12, <1>13 DEF Rotations

\* The states of the family turn as the sides they stand for.
TurnsAsSides(family, r) ==
    \A value \in Values(family) :
      Sides(family, RotateState(family, value, r)) = {TurnedSide(s, r) : s \in Sides(family, value)}

\* Cardinal directions turn as the sides do.
LEMMA CardinalDirectionTurns ==
    ASSUME NEW r \in Rotations PROVE TurnsAsSides("cardinal_direction", r)
BY DEF RotateState, TurnedSide, Sides, TurnsAsSides

\* So do facing directions,
LEMMA FacingDirectionTurns ==
    ASSUME NEW r \in Rotations PROVE TurnsAsSides("facing_direction", r)
<1>1. /\ Sides("facing_direction", 0) = {} /\ Sides("facing_direction", 1) = {}
      /\ Sides("facing_direction", 2) = {"north"} /\ Sides("facing_direction", 3) = {"south"}
      /\ Sides("facing_direction", 4) = {"west"} /\ Sides("facing_direction", 5) = {"east"}
  BY DEF Sides
<1>2. ASSUME NEW value
      PROVE  RotateState("facing_direction", value, r) = Cycle(<<2, 5, 3, 4>>, value, r \div 90)
  BY DEF RotateState, FacingDirection
<1>3. ASSUME NEW q \in 0 .. 3
      PROVE  /\ Cycle(<<2, 5, 3, 4>>, 2, q) = <<2, 5, 3, 4>>[q + 1]
             /\ Cycle(<<2, 5, 3, 4>>, 5, q) = <<5, 3, 4, 2>>[q + 1]
             /\ Cycle(<<2, 5, 3, 4>>, 3, q) = <<3, 4, 2, 5>>[q + 1]
             /\ Cycle(<<2, 5, 3, 4>>, 4, q) = <<4, 2, 5, 3>>[q + 1]
             /\ Cycle(<<2, 5, 3, 4>>, 0, q) = 0 /\ Cycle(<<2, 5, 3, 4>>, 1, q) = 1
  BY CycleIs DEF Cycles
<1>4. Values("facing_direction") = {0, 1, 2, 3, 4, 5}
  BY DEF Values
<1>5. ASSUME NEW value \in {0, 1, 2, 3, 4, 5}
      PROVE  Sides("facing_direction", RotateState("facing_direction", value, r))
               = {TurnedSide(s, r) : s \in Sides("facing_direction", value)}
  BY <1>1, <1>2, <1>3, <1>5, QuarterTurns, TurnedSides DEF SidesOfWorld, Rotations
<1>6. QED
  BY <1>4, <1>5 DEF TurnsAsSides

\* the directions of stairs,
LEMMA WeirdoDirectionTurns ==
    ASSUME NEW r \in Rotations PROVE TurnsAsSides("weirdo_direction", r)
<1>1. /\ Sides("weirdo_direction", 0) = {"east"} /\ Sides("weirdo_direction", 1) = {"west"}
      /\ Sides("weirdo_direction", 2) = {"south"} /\ Sides("weirdo_direction", 3) = {"north"}
  BY DEF Sides
<1>2. ASSUME NEW value
      PROVE  RotateState("weirdo_direction", value, r) = Cycle(<<3, 0, 2, 1>>, value, r \div 90)
  BY DEF RotateState, WeirdoDirection
<1>3. ASSUME NEW q \in 0 .. 3
      PROVE  /\ Cycle(<<3, 0, 2, 1>>, 3, q) = <<3, 0, 2, 1>>[q + 1]
             /\ Cycle(<<3, 0, 2, 1>>, 0, q) = <<0, 2, 1, 3>>[q + 1]
             /\ Cycle(<<3, 0, 2, 1>>, 2, q) = <<2, 1, 3, 0>>[q + 1]
             /\ Cycle(<<3, 0, 2, 1>>, 1, q) = <<1, 3, 0, 2>>[q + 1]
  <2>1. PICK a, b, c, d : a = 3 /\ b = 0 /\ c = 2 /\ d = 1
    OBVIOUS
  <2>2. a # b /\ a # c /\ a # d /\ b # c /\ b # d /\ c # d
    BY <2>1
  <2>3. Cycles(a, b, c, d, q)
    BY <2>2, CycleIs
  <2>4. QED
    BY <2>1, <2>3 DEF Cycles
<1>4. Values("weirdo_direction") = {0, 1, 2, 3}
  BY DEF Values
<1>5. ASSUME NEW value \in {0, 1, 2, 3}
      PROVE  Sides("weirdo_direction", RotateState("weirdo_direction", value, r))
               = {TurnedSide(s, r) : s \in Sides("weirdo_direction", value)}
  BY <1>1, <1>2, <1>3, <1>5, QuarterTurns, TurnedSides DEF SidesOfWorld, Rotations
<1>6. QED
  BY <1>4, <1>5 DEF TurnsAsSides

\* A sign between two sides stays between two.
LEMMA GroundSignTurns ==
    ASSUME NEW r \in Rotations PROVE TurnsAsSides("ground_sign_direction", r)
<1>1. /\ Sides("ground_sign_direction", 0) = {"south"} /\ Sides("ground_sign_direction", 4) = {"west"}
      /\ Sides("ground_sign_direction", 8) = {"north"} /\ Sides("ground_sign_direction", 12) = {"east"}
  BY DEF Sides
<1>2. ASSUME NEW value \in 0 .. 15, value \notin {0, 4, 8, 12}
      PROVE  Sides("ground_sign_direction", value) = {}
  BY <1>2 DEF Sides
<1>3. ASSUME NEW value
      PROVE  RotateState("ground_sign_direction", value, r) = (value + (r \div 90) * 4) % 16
  BY DEF RotateState
<1>4. Values("ground_sign_direction") = 0 .. 15
  BY DEF Values
<1>5. ASSUME NEW value \in {0, 4, 8, 12}
      PROVE  Sides("ground_sign_direction", RotateState("ground_sign_direction", value, r))
               = {TurnedSide(s, r) : s \in Sides("ground_sign_direction", value)}
  <2>1. CASE r = 0
    BY <1>1, <1>3, <1>5, <2>1, QuarterTurns, TurnedSides DEF SidesOfWorld
  <2>2. CASE r = 90
    BY <1>1, <1>3, <1>5, <2>2, QuarterTurns, TurnedSides DEF SidesOfWorld
  <2>3. CASE r = 180
    BY <1>1, <1>3, <1>5, <2>3, QuarterTurns, TurnedSides DEF SidesOfWorld
  <2>4. CASE r = 270
    BY <1>1, <1>3, <1>5, <2>4, QuarterTurns, TurnedSides DEF SidesOfWorld
  <2>5. QED
    BY <2>1, <2>2, <2>3, <2>4 DEF Rotations
<1>6. ASSUME NEW value \in 0 .. 15, value \notin {0, 4, 8, 12}
      PROVE  Sides("ground_sign_direction", RotateState("ground_sign_direction", value, r)) = {}
  <2>1. PICK q \in 0 .. 3 : q = r \div 90
    BY QuarterTurns DEF Rotations
  <2>2. PICK t : t = (value + q * 4) % 16
    OBVIOUS
  <2>3. t \in 0 .. 15 /\ t \notin {0, 4, 8, 12}
    BY <1>6, <2>2
  <2>4. QED
    BY <1>2, <1>3, <2>1, <2>2, <2>3
<1>7. ASSUME NEW value \in 0 .. 15
      PROVE  Sides("ground_sign_direction", RotateState("ground_sign_direction", value, r))
               = {TurnedSide(s, r) : s \in Sides("ground_sign_direction", value)}
  BY <1>2, <1>5, <1>6
<1>8. QED
  BY <1>4, <1>7 DEF TurnsAsSides

\* the axes of pillars,
LEMMA PillarAxisTurns ==
    ASSUME NEW r \in Rotations PROVE TurnsAsSides("pillar_axis", r)
<1>1. /\ Sides("pillar_axis", "x") = {"east", "west"} /\ Sides("pillar_axis", "z") = {"north", "south"}
      /\ Sides("pillar_axis", "y") = {}
  BY DEF Sides
<1>2. ASSUME NEW value
      PROVE  RotateState("pillar_axis", value, r)
               = IF (r \div 90) % 2 = 1 /\ value \in {"x", "z"}
                   THEN IF value = "x" THEN "z" ELSE "x"
                   ELSE value
  BY DEF RotateState
<1>3. Values("pillar_axis") = {"x", "y", "z"}
  BY DEF Values
<1>4. 0 % 2 = 0 /\ 1 % 2 = 1 /\ 2 % 2 = 0 /\ 3 % 2 = 1
  OBVIOUS
<1>5. ASSUME NEW value \in {"x", "y", "z"}
      PROVE  Sides("pillar_axis", RotateState("pillar_axis", value, r))
               = {TurnedSide(s, r) : s \in Sides("pillar_axis", value)}
  BY <1>1, <1>2, <1>4, <1>5, QuarterTurns, TurnedSides DEF SidesOfWorld, Rotations
<1>6. QED
  BY <1>3, <1>5 DEF TurnsAsSides

\* and the shapes of rails.
LEMMA RailTurns ==
    ASSUME NEW r \in Rotations PROVE TurnsAsSides("rail_direction", r)
<1>1. /\ Sides("rail_direction", 0) = {"north", "south"} /\ Sides("rail_direction", 1) = {"east", "west"}
      /\ Sides("rail_direction", 2) = {"east"} /\ Sides("rail_direction", 3) = {"west"}
      /\ Sides("rail_direction", 4) = {"north"} /\ Sides("rail_direction", 5) = {"south"}
      /\ Sides("rail_direction", 6) = {"south", "east"} /\ Sides("rail_direction", 7) = {"south", "west"}
      /\ Sides("rail_direction", 8) = {"north", "west"} /\ Sides("rail_direction", 9) = {"north", "east"}
  BY DEF Sides
<1>2. ASSUME NEW value
      PROVE  RotateState("rail_direction", value, r) = RotateRail(value, r \div 90)
  BY DEF RotateState
<1>3. ASSUME NEW q \in 0 .. 3
      PROVE  /\ Cycle(RailAscents, 2, q) = <<2, 5, 3, 4>>[q + 1]
             /\ Cycle(RailAscents, 5, q) = <<5, 3, 4, 2>>[q + 1]
             /\ Cycle(RailAscents, 3, q) = <<3, 4, 2, 5>>[q + 1]
             /\ Cycle(RailAscents, 4, q) = <<4, 2, 5, 3>>[q + 1]
             /\ \A v \in 6 .. 9 : Cycle(RailAscents, v, q) = v
  BY CycleIs DEF Cycles, RailAscents
<1>4. ASSUME NEW q \in 0 .. 3
      PROVE  /\ Cycle(RailCurves, 6, q) = <<6, 7, 8, 9>>[q + 1]
             /\ Cycle(RailCurves, 7, q) = <<7, 8, 9, 6>>[q + 1]
             /\ Cycle(RailCurves, 8, q) = <<8, 9, 6, 7>>[q + 1]
             /\ Cycle(RailCurves, 9, q) = <<9, 6, 7, 8>>[q + 1]
             /\ \A v \in 2 .. 5 : Cycle(RailCurves, v, q) = v
  <2>1. Cycles(6, 7, 8, 9, q)
    BY CycleIs
  <2>2. QED
    BY <2>1 DEF Cycles, RailCurves
<1>5. ASSUME NEW q \in 0 .. 3
      PROVE  /\ RotateRail(0, q) = <<0, 1, 0, 1>>[q + 1] /\ RotateRail(1, q) = <<1, 0, 1, 0>>[q + 1]
             /\ RotateRail(2, q) = <<2, 5, 3, 4>>[q + 1] /\ RotateRail(5, q) = <<5, 3, 4, 2>>[q + 1]
             /\ RotateRail(3, q) = <<3, 4, 2, 5>>[q + 1] /\ RotateRail(4, q) = <<4, 2, 5, 3>>[q + 1]
             /\ RotateRail(6, q) = <<6, 7, 8, 9>>[q + 1] /\ RotateRail(7, q) = <<7, 8, 9, 6>>[q + 1]
             /\ RotateRail(8, q) = <<8, 9, 6, 7>>[q + 1] /\ RotateRail(9, q) = <<9, 6, 7, 8>>[q + 1]
  BY <1>3, <1>4 DEF RotateRail
<1>6. Values("rail_direction") = {0, 1, 2, 3, 4, 5, 6, 7, 8, 9}
  BY DEF Values
<1>7. ASSUME NEW value \in {0, 1, 2, 3, 4, 5, 6, 7, 8, 9}
      PROVE  Sides("rail_direction", RotateState("rail_direction", value, r))
               = {TurnedSide(s, r) : s \in Sides("rail_direction", value)}
  BY <1>1, <1>2, <1>5, <1>7, QuarterTurns, TurnedSides DEF SidesOfWorld, Rotations
<1>8. QED
  BY <1>6, <1>7 DEF TurnsAsSides

\* The sides that a state speaks of are sides of the world.
LEMMA SidesAreSides ==
    ASSUME NEW family \in Families, NEW value \in Values(family)
    PROVE  Sides(family, value) \subseteq SidesOfWorld
<1>1. CASE family = "cardinal_direction"
  BY <1>1 DEF Sides, Values, SidesOfWorld
<1>2. CASE family = "facing_direction"
  BY <1>2 DEF Sides, Values, SidesOfWorld
<1>3. CASE family = "weirdo_direction"
  BY <1>3 DEF Sides, Values, SidesOfWorld
<1>4. CASE family = "ground_sign_direction"
  BY <1>4 DEF Values, SidesOfWorld, Sides
<1>5. CASE family = "pillar_axis"
  BY <1>5 DEF Sides, Values, SidesOfWorld
<1>6. CASE family = "rail_direction"
  BY <1>6 DEF Values, Sides, SidesOfWorld
<1>7. QED
  BY <1>1, <1>2, <1>3, <1>4, <1>5, <1>6 DEF Families

\* In a rotation of the planner, every state of a family turns with the blocks around it.
LEMMA FamilyTurns ==
    ASSUME rotation \in Rotations, NEW family \in Families
    PROVE  TurnsWithBlocks(family)
<1>1. PICK r \in Rotations : r = rotation
  OBVIOUS
<1>2. TurnsAsSides(family, r)
  BY CardinalDirectionTurns, FacingDirectionTurns, WeirdoDirectionTurns, GroundSignTurns,
     PillarAxisTurns, RailTurns DEF Families
<1>3. PICK cube, centre : cube = <<3, 3, 3>> /\ centre = <<1, 1, 1>>
  OBVIOUS
<1>4. ASSUME NEW s \in SidesOfWorld
      PROVE  Step(TurnedSide(s, r))
               = Minus(RotateCoord(Plus(centre, Step(s)), cube, r), RotateCoord(centre, cube, r))
  BY <1>3, StepTurns
<1>5. ASSUME NEW value \in Values(family)
      PROVE  {Step(s) : s \in Sides(family, RotateState(family, value, r))}
               = {Minus(RotateCoord(Plus(centre, step), cube, r), RotateCoord(centre, cube, r)) :
                    step \in {Step(s) : s \in Sides(family, value)}}
  BY <1>2, <1>4, SidesAreSides DEF TurnsAsSides
<1>6. QED
  BY <1>1, <1>3, <1>5 DEF TurnsWithBlocks

----------------------------------------------------------------------------
(* Boxes that turn, and what a planner is given. *)

\* rotate_coord stays inside the turned box.
LEMMA TurnStaysInBox ==
  ASSUME NEW size \in Sizes3, NEW r \in Rotations, NEW d \in Box(size)
  PROVE  RotateCoord(d, size, r) \in Box(RotatedSize(size, r))
<1> PICK sx \in Nat \ {0}, sy \in Nat \ {0}, sz \in Nat \ {0} : size = <<sx, sy, sz>>
  BY DEF Sizes3
<1> PICK x \in 0 .. sx - 1, y \in 0 .. sy - 1, z \in 0 .. sz - 1 : d = <<x, y, z>>
  BY DEF Box
<1>1. CASE r = 0
  BY <1>1 DEF RotateCoord, RotatedSize, Box
<1>2. CASE r = 90
  BY <1>2 DEF RotateCoord, RotatedSize, Box
<1>3. CASE r = 180
  BY <1>3 DEF RotateCoord, RotatedSize, Box
<1>4. CASE r = 270
  BY <1>4 DEF RotateCoord, RotatedSize, Box
<1> QED
  BY <1>1, <1>2, <1>3, <1>4 DEF Rotations

\* Turning back undoes a turn: the sum of the rotations decides.
LEMMA TurnsCompose ==
  ASSUME NEW size \in Sizes3, NEW r \in Rotations, NEW t \in Rotations, NEW d \in Box(size)
  PROVE  RotateCoord(RotateCoord(d, size, r), RotatedSize(size, r), t)
           = RotateCoord(d, size, NormalizeRotation(r + t))
<1> PICK sx \in Nat \ {0}, sy \in Nat \ {0}, sz \in Nat \ {0} : size = <<sx, sy, sz>>
  BY DEF Sizes3
<1> PICK x \in 0 .. sx - 1, y \in 0 .. sy - 1, z \in 0 .. sz - 1 : d = <<x, y, z>>
  BY DEF Box
<1> DEFINE n == NormalizeRotation(r + t)
<1>0. /\ r + t = 0 \/ r + t = 360 => n = 0
      /\ r + t = 90 \/ r + t = 450 => n = 90
      /\ r + t = 180 \/ r + t = 540 => n = 180
      /\ r + t = 270 => n = 270
  BY DEF NormalizeRotation, Rotations
<1> HIDE DEF n
<1> SUFFICES RotateCoord(RotateCoord(d, size, r), RotatedSize(size, r), t)
              = RotateCoord(d, size, n)
  BY DEF n
<1> HIDE DEF n
<1>1. CASE r = 0
  BY <1>0, <1>1 DEF RotateCoord, RotatedSize, Rotations
<1>2. CASE r = 90
  BY <1>0, <1>2 DEF RotateCoord, RotatedSize, Rotations
<1>3. CASE r = 180
  BY <1>0, <1>3 DEF RotateCoord, RotatedSize, Rotations
<1>4. CASE r = 270
  BY <1>0, <1>4 DEF RotateCoord, RotatedSize, Rotations
<1> QED
  BY <1>1, <1>2, <1>3, <1>4 DEF Rotations

\* The turned box is covered: every place of it is where some block goes.
LEMMA TurnCoversBox ==
  ASSUME NEW size \in Sizes3, NEW r \in Rotations, NEW e \in Box(RotatedSize(size, r))
  PROVE  \E d \in Box(size) : RotateCoord(d, size, r) = e
<1> DEFINE back == NormalizeRotation(360 - r)
           turned == RotatedSize(size, r)
           d == RotateCoord(e, turned, back)
<1>1. back \in Rotations
  BY DEF NormalizeRotation, Rotations
<1>2. turned \in Sizes3 /\ RotatedSize(turned, back) = size
  BY DEF RotatedSize, Sizes3, NormalizeRotation, Rotations
<1>3. d \in Box(size)
  BY <1>1, <1>2, TurnStaysInBox
<1>4. RotateCoord(d, size, r) = RotateCoord(e, turned, NormalizeRotation(back + r))
  BY <1>1, <1>2, TurnsCompose
<1>5. NormalizeRotation(back + r) = 0
  BY DEF NormalizeRotation, Rotations
<1>6. RotateCoord(e, turned, 0) = e
  BY DEF RotateCoord
<1> QED
  BY <1>3, <1>4, <1>5, <1>6

(* The inputs. *)

\* A palette index appended to a position.
LEMMA AppendToTriple ==
    ASSUME NEW p \in Triples, NEW b
    PROVE  Append(p, b) = <<p[1], p[2], p[3], b>>
<1>1. PICK x \in Int, y \in Int, z \in Int : p = <<x, y, z>>
  BY DEF Triples
<1>2. PICK V : V = {x, y, z, b}
  OBVIOUS
<1>3. p \in Seq(V) /\ Len(p) = 3 /\ p[1] = x /\ p[2] = y /\ p[3] = z /\ b \in V
  BY <1>1, <1>2
<1>4. PICK t : t = Append(p, b)
  OBVIOUS
<1>5. t \in Seq(V) /\ Len(t) = 4 /\ t[1] = x /\ t[2] = y /\ t[3] = z /\ t[4] = b
  <2>1. /\ t \in Seq(V) /\ Len(t) = Len(p) + 1
        /\ \A i \in 1 .. Len(p) : t[i] = p[i]
        /\ t[Len(p) + 1] = b
    <3>1. PICK q \in Seq(V), v \in V : q = p /\ v = b
      BY <1>3
    <3>2. /\ Append(q, v) \in Seq(V) /\ Len(Append(q, v)) = Len(q) + 1
          /\ \A i \in 1 .. Len(q) : Append(q, v)[i] = q[i]
          /\ Append(q, v)[Len(q) + 1] = v
      BY AppendProperties
    <3>3. QED
      BY <1>4, <3>1, <3>2
  <2>2. 1 \in 1 .. Len(p) /\ 2 \in 1 .. Len(p) /\ 3 \in 1 .. Len(p) /\ Len(p) + 1 = 4
    BY <1>3
  <2>3. QED
    BY <1>3, <2>1, <2>2
<1>6. DOMAIN t = 1 .. 4 /\ t = [i \in DOMAIN t |-> t[i]]
  BY <1>5, LenProperties
<1>7. t = <<x, y, z, b>>
  BY <1>5, <1>6
<1>8. QED
  BY <1>3, <1>4, <1>7

\* The place of a record.
LEMMA PlaceIs ==
    ASSUME NEW x, NEW y, NEW z, NEW b
    PROVE  Place(<<x, y, z, b>>) = <<x, y, z>>
<1>1. PICK r : r = <<x, y, z, b>>
  OBVIOUS
<1>2. PICK V : V = {x, y, z, b}
  OBVIOUS
<1>3. r \in Seq(V) /\ Len(r) = 4 /\ r[1] = x /\ r[2] = y /\ r[3] = z /\ \A i \in 1 .. 3 : r[i] \in V
  BY <1>1, <1>2
<1>4. PICK t : t = SubSeq(r, 1, 3)
  OBVIOUS
<1>5. t \in Seq(V) /\ Len(t) = 3 /\ t[1] = r[1] /\ t[2] = r[2] /\ t[3] = r[3]
  BY <1>3, <1>4, SubSeqProperties
<1>6. DOMAIN t = 1 .. 3 /\ t = [i \in DOMAIN t |-> t[i]]
  BY <1>5, LenProperties
<1>7. t = <<x, y, z>>
  BY <1>3, <1>5, <1>6
<1>8. QED
  BY <1>1, <1>4, <1>7 DEF Place

\* Places in a box are positions without a negative side.
LEMMA BoxHasTriples ==
    ASSUME NEW size \in Sizes3, NEW d \in Box(size)
    PROVE  d \in Triples /\ d[1] \in Nat /\ d[2] \in Nat /\ d[3] \in Nat /\ d = <<d[1], d[2], d[3]>>
BY DEF Sizes3, Box, Triples

\* A block appended to a place is a record there.
LEMMA RecordAt ==
    ASSUME NEW size \in Sizes3, NEW d \in Box(size), NEW b \in Nat
    PROVE  Append(d, b) \in Quads /\ Place(Append(d, b)) = d /\ Append(d, b)[4] = b
<1>1. PICK x \in Nat, y \in Nat, z \in Nat : d = <<x, y, z>> /\ d \in Triples
  BY BoxHasTriples
<1>2. Append(d, b) = <<d[1], d[2], d[3], b>>
  BY <1>1, AppendToTriple
<1>3. Place(<<x, y, z, b>>) = <<x, y, z>>
  BY PlaceIs
<1>4. PICK q : q = <<x, y, z, b>>
  OBVIOUS
<1>5. q \in Quads /\ q[4] = b
  BY <1>4 DEF Quads
<1>6. Append(d, b) = q
  BY <1>1, <1>2, <1>4
<1>7. QED
  BY <1>1, <1>3, <1>4, <1>5, <1>6

\* Records of blocks in the box.
InBox(records, size) ==
    /\ records \in Seq(Quads)
    /\ \A n \in 1 .. Len(records) : Place(records[n]) \in Box(size)

\* A scan of a selection stores records of its box.
LEMMA ScannedIs ==
    ASSUME NEW size \in Sizes, NEW low \in Lows, NEW kept \in SUBSET Box(size),
           NEW palette, NEW fullVolume, NEW stray
    PROVE  /\ Scanned(size, low, kept, palette, fullVolume, stray).size = size
           /\ InBox(Scanned(size, low, kept, palette, fullVolume, stray).records, size)
<1>1. size \in Sizes3 /\ low \in Triples
  BY PlannerAssumption DEF Sizes3, Triples
<1>2. PICK order \in Seq(Triples) : order = ScanOrder(low, size)
  BY <1>1, ScanOrderLists
<1>3. PICK places : places = Selected(order, kept)
  OBVIOUS
<1>4. places \in Seq(Triples \cap kept)
  BY <1>3, SelectedElements
<1>5. PICK N \in Nat : N = Len(places) /\ DOMAIN places = 1 .. N /\ \A n \in 1 .. N : places[n] \in Box(size)
  BY <1>4, LenProperties
<1>6. PICK records : records = [n \in 1 .. N |-> Append(places[n], BlockOf(places[n]))]
  OBVIOUS
<1>7. ASSUME NEW n \in 1 .. N
      PROVE  records[n] \in Quads /\ Place(records[n]) \in Box(size)
  <2>1. PICK p \in Box(size) : p = places[n]
    BY <1>5
  <2>2. PICK b \in Nat : b = BlockOf(p)
    BY PlannerAssumption DEF Box
  <2>3. records[n] = Append(p, b)
    BY <1>6, <2>1, <2>2
  <2>4. QED
    BY <1>1, <2>3, RecordAt
<1>8. records \in [1 .. N -> Quads]
  BY <1>6, <1>7
<1>9. records \in Seq(Quads) /\ Len(records) = N
  BY <1>8
<1>10. InBox(records, size)
  BY <1>7, <1>9 DEF InBox
<1>11. Scanned(size, low, kept, palette, fullVolume, stray).records = records
  BY <1>2, <1>3, <1>5, <1>6 DEF Scanned
<1>12. QED
  BY <1>10, <1>11 DEF Scanned

\* Turned records, at the places turned.
TurnedTo(turned, records, size, r) ==
    /\ turned \in Seq(Quads) /\ Len(turned) = Len(records)
    /\ \A n \in 1 .. Len(records) : Place(turned[n]) = RotateCoord(Place(records[n]), size, r)

\* Turned records are as many, at the places turned.
LEMMA TurnedIs ==
    ASSUME NEW s, s.size \in Sizes3, InBox(s.records, s.size), NEW r \in Rotations
    PROVE  TurnedTo(Turned(s, r), s.records, s.size, r)
<1>1. PICK size \in Sizes3, records \in Seq(Quads) :
        size = s.size /\ records = s.records /\ InBox(records, size)
  BY DEF InBox
<1>2. PICK N \in Nat : N = Len(records) /\ DOMAIN records = 1 .. N
  BY LenProperties
<1>3. PICK turned :
        turned = [n \in 1 .. N |-> Append(RotateCoord(Place(records[n]), size, r), records[n][4])]
  OBVIOUS
<1>4. Turned(s, r) = turned
  BY <1>1, <1>2, <1>3 DEF Turned
<1>5. RotatedSize(size, r) \in Sizes3
  BY DEF RotatedSize, Sizes3, Rotations
<1>6. ASSUME NEW n \in 1 .. N
      PROVE  turned[n] \in Quads /\ Place(turned[n]) = RotateCoord(Place(records[n]), size, r)
  <2>1. PICK d : d = RotateCoord(Place(records[n]), size, r) /\ d \in Box(RotatedSize(size, r))
    BY <1>1, <1>2, TurnStaysInBox DEF InBox
  <2>2. PICK b \in Nat : b = records[n][4]
    BY <1>2 DEF Quads
  <2>3. turned[n] = Append(d, b)
    BY <1>3, <2>1, <2>2
  <2>4. Append(d, b) \in Quads /\ Place(Append(d, b)) = d
    BY <1>5, <2>1, RecordAt
  <2>5. QED
    BY <2>1, <2>3, <2>4
<1>7. turned \in [1 .. N -> Quads]
  BY <1>3, <1>6
<1>8. turned \in Seq(Quads) /\ Len(turned) = N
  BY <1>7
<1>9. QED
  BY <1>1, <1>2, <1>4, <1>6, <1>8 DEF TurnedTo

----------------------------------------------------------------------------
(* Scattering. *)

\* The records of the plan that the buffer holds in their place.
Good(b, M, N) == {q \in 1 .. N : Wrote(Content(b), q, M[q])}

\* The records from o on are those of the plan.
Part(records, o, M) == \A i \in 1 .. Len(records) : M[o + i] = records[i]

\* Records of the plan written to their place are there, and no other is lost.
LEMMA WrittenIsGood ==
    ASSUME NEW N \in Nat, NEW b, NEW c, NEW M \in Seq(Quads), Len(M) = N,
           NEW records \in Seq(Quads), NEW o \in Nat, o + Len(records) <= N,
           WroteRecords(b, c, N, records, o), Part(records, o, M)
    PROVE  /\ Good(b, M, N) \subseteq Good(c, M, N)
           /\ o + 1 .. o + Len(records) \subseteq Good(c, M, N)
<1>1. PICK l \in Nat : l = Len(records)
  BY LenProperties
<1>2. ASSUME NEW q \in 1 .. N, o < q, q <= o + l PROVE Wrote(Content(c), q, M[q])
  BY <1>1, <1>2 DEF Part, WroteRecords
<1>3. ASSUME NEW q \in 1 .. N, Wrote(Content(b), q, M[q]) PROVE Wrote(Content(c), q, M[q])
  BY <1>1, <1>2, <1>3 DEF WroteRecords
<1>4. \A q \in o + 1 .. o + l : q \in 1 .. N /\ o < q /\ q <= o + l
  BY <1>1
<1>5. Good(b, M, N) \subseteq Good(c, M, N)
  BY <1>3 DEF Good
<1>6. o + 1 .. o + l \subseteq Good(c, M, N)
  BY <1>2, <1>4 DEF Good
<1>7. QED
  BY <1>1, <1>5, <1>6

\* What the first n records give to the k-th chunk.
Given(s, a, c, n) == Len(Bucket(SubSeq(s, 1, n), a, c))

\* The k-th bucket of the batch that ends at m is the next part of its range.
NextPart(e, M, s, a, ch, k, n, m) ==
    /\ Bucket(SubSeq(s, n + 1, m), a, ch[k]) \in Seq(Quads)
    /\ Given(s, a, ch[k], n) \in Nat
    /\ Given(s, a, ch[k], m)
         = Given(s, a, ch[k], n) + Len(Bucket(SubSeq(s, n + 1, m), a, ch[k]))
    /\ e[k - 1] + Given(s, a, ch[k], m) <= Len(s)
    /\ Part(Bucket(SubSeq(s, n + 1, m), a, ch[k]), e[k - 1] + Given(s, a, ch[k], n), M)

\* Each batch gives each chunk the next records of its range.
LEMMA BatchContinues ==
    ASSUME NEW ch, NEW C, NEW e, NEW M, NEW s \in Seq(Quads), NEW a, Plans(ch, C, e, M, s, a),
           NEW k \in 1 .. C, NEW m \in 0 .. Len(s), NEW n \in 0 .. m
    PROVE  NextPart(e, M, s, a, ch, k, n, m)
<1>1. PICK N \in Nat : N = Len(s)
  BY LenProperties
<1>2. PICK c : c = ch[k]
  OBVIOUS
<1>3. C \in Nat /\ k \in 0 .. C /\ k - 1 \in 0 .. C /\ C \in 0 .. C /\ k <= C
  BY DEF Plans
<1>4. PICK x \in Nat, y \in Nat : x = e[k - 1] /\ y = e[k]
  BY <1>3 DEF Plans
<1>5. n \in 0 .. N /\ m \in 0 .. N /\ N \in 0 .. N
  BY <1>1
<1>6. PICK P, Q, B, R, F : /\ P = Bucket(SubSeq(s, 1, n), a, c) /\ Q = Bucket(SubSeq(s, 1, m), a, c)
                           /\ B = Bucket(SubSeq(s, n + 1, m), a, c) /\ F = Bucket(s, a, c)
                           /\ R = Bucket(SubSeq(s, m + 1, N), a, c)
  OBVIOUS
<1>7. P \in Seq(Quads) /\ B \in Seq(Quads) /\ Q = P \o B
  <2>1. SubSeq(s, 1, n) \in Seq(Quads) /\ SubSeq(s, n + 1, m) \in Seq(Quads)
    BY <1>1, <1>5, PrefixOfRecords, BucketSlice
  <2>2. Bucket(SubSeq(s, 1, m), a, c)
          = Bucket(SubSeq(s, 1, n), a, c) \o Bucket(SubSeq(s, n + 1, m), a, c)
    BY BucketSlice
  <2>3. QED
    BY <1>6, <2>1, <2>2, BucketElements
<1>8. Q \in Seq(Quads) /\ R \in Seq(Quads) /\ F = Q \o R
  <2>1. SubSeq(s, 1, m) \in Seq(Quads) /\ SubSeq(s, m + 1, N) \in Seq(Quads)
    BY <1>1, <1>5, PrefixOfRecords, BucketSlice
  <2>2. Bucket(SubSeq(s, 1, N), a, c) = Q \o R
    <3>1. PICK w \in 0 .. Len(s) : w = N /\ m \in 0 .. w
      BY <1>1, <1>5
    <3>2. Bucket(SubSeq(s, 1, w), a, c)
            = Bucket(SubSeq(s, 1, m), a, c) \o Bucket(SubSeq(s, m + 1, w), a, c)
      BY <3>1, BucketSlice
    <3>3. QED
      BY <1>6, <3>1, <3>2
  <2>3. SubSeq(s, 1, N) = s
    BY <1>1, SubSeqFull
  <2>4. QED
    BY <1>6, <2>1, <2>2, <2>3, BucketElements
<1>9. PICK p \in Nat, l \in Nat, r \in Nat : p = Len(P) /\ l = Len(B) /\ r = Len(R)
  BY <1>7, <1>8, LenProperties
<1>10. /\ Len(Q) = p + l
       /\ \A i \in 1 .. p + l : Q[i] = IF i <= p THEN P[i] ELSE B[i - p]
  BY <1>7, <1>9, ConcatProperties
<1>11. /\ Len(F) = p + l + r
       /\ \A i \in 1 .. p + l + r : F[i] = IF i <= p + l THEN Q[i] ELSE R[i - (p + l)]
  BY <1>8, <1>9, <1>10, ConcatProperties
<1>12. y = x + (p + l + r) /\ y <= N
  <2>1. e[k] = e[k - 1] + Len(Bucket(s, a, ch[k])) /\ e[C] = Len(s)
    BY DEF Plans
  <2>2. e[k] <= e[C]
    BY <1>3, PlanEndsGrow
  <2>3. QED
    BY <1>1, <1>2, <1>4, <1>6, <1>11, <2>1, <2>2
<1>13. ASSUME NEW i \in 1 .. l PROVE M[(x + p) + i] = B[i]
  <2>1. p + i \in 1 .. p + l /\ p + i \in 1 .. p + l + r /\ ~(p + i <= p) /\ (p + i) - p = i
        /\ p + i <= p + l /\ (x + p) + i = x + (p + i)
    BY <1>9
  <2>2. F[p + i] = B[i]
    BY <1>10, <1>11, <2>1
  <2>3. PICK j : j = p + i
    OBVIOUS
  <2>4. j \in 1 .. Len(Bucket(s, a, ch[k]))
    BY <1>2, <1>6, <1>11, <2>1, <2>3
  <2>5. M[e[k - 1] + j] = Bucket(s, a, ch[k])[j]
    BY <2>4 DEF Plans
  <2>6. QED
    BY <1>2, <1>4, <1>6, <2>1, <2>2, <2>3, <2>5
<1>14. Given(s, a, ch[k], n) = p /\ Given(s, a, ch[k], m) = p + l
  BY <1>2, <1>6, <1>9, <1>10 DEF Given
<1>15. Part(B, x + p, M)
  BY <1>9, <1>13 DEF Part
<1>16. x + (p + l) <= N
  BY <1>12
<1>17. QED
  BY <1>1, <1>2, <1>4, <1>6, <1>7, <1>9, <1>14, <1>15, <1>16 DEF NextPart

(* The batches, one after the other. *)

\* The buffer and the offsets once n records of s are scattered over the ranges.
Filled(out, offs, ch, C, e, M, s, a, n) ==
    /\ DOMAIN offs = {ch[k] : k \in 1 .. C}
    /\ \A k \in 1 .. C : offs[ch[k]] = e[k - 1] + Given(s, a, ch[k], n)
    /\ RecordBuffer(out, Len(s))
    /\ \A k \in 1 .. C : e[k - 1] + 1 .. e[k - 1] + Given(s, a, ch[k], n) \subseteq Good(out, M, Len(s))

RecordBuffers(N) == {b \in Buffers(PlanUnits) : RecordBuffer(b, N)}

\* The buckets written, up to that of the k-th chunk.
Writes(f, out, offs, ch, C, bucket) ==
    /\ f[0] = out
    /\ \A k \in 1 .. C :
         f[k] = WriteAt(f[k - 1], offs[ch[k]] * RecordSize, Packed(bucket[ch[k]]))

\* The buckets of a batch.
BucketsOf(bucket, s, a, ch, C, n, m) ==
    \A k \in 1 .. C : bucket[ch[k]] = Bucket(SubSeq(s, n + 1, m), a, ch[k])

\* The writes of a batch, chunk by chunk, stay within the buffer of records.
LEMMA WriteExists ==
    ASSUME NEW ch, NEW C, NEW e, NEW M, NEW s \in Seq(Quads), NEW a, Plans(ch, C, e, M, s, a),
           NEW m \in 0 .. Len(s), NEW n \in 0 .. m, NEW out, NEW offs,
           Filled(out, offs, ch, C, e, M, s, a, n),
           NEW bucket, BucketsOf(bucket, s, a, ch, C, n, m)
    PROVE  \E f \in [0 .. C -> RecordBuffers(Len(s))] : Writes(f, out, offs, ch, C, bucket)
<1>1. PICK N \in Nat : N = Len(s)
  BY LenProperties
<1>2. PICK V : V = RecordBuffers(N)
  OBVIOUS
<1>3. C \in Nat
  BY DEF Plans
<1>4. out \in V
  BY <1>1, <1>2 DEF Filled, RecordBuffers, RecordBuffer
<1>5. ASSUME NEW k \in 1 .. C, NEW b \in V
      PROVE  WriteAt(b, offs[ch[k]] * RecordSize, Packed(bucket[ch[k]])) \in V
  <2>1. NextPart(e, M, s, a, ch, k, n, m)
    BY BatchContinues
  <2>2. PICK B : B = bucket[ch[k]] /\ B = Bucket(SubSeq(s, n + 1, m), a, ch[k])
    BY DEF BucketsOf
  <2>3. k - 1 \in 0 .. C
    BY <1>3
  <2>4. PICK x \in Nat, p \in Nat, l \in Nat :
          x = e[k - 1] /\ p = Given(s, a, ch[k], n) /\ l = Len(B) /\ B \in Seq(Quads)
    BY <2>1, <2>2, <2>3, LenProperties DEF NextPart, Plans
  <2>5. x + (p + l) <= N
    BY <1>1, <2>1, <2>2, <2>4 DEF NextPart
  <2>6. PICK o \in Nat : o = offs[ch[k]] /\ o = x + p /\ o + l <= N
    <3>1. offs[ch[k]] = e[k - 1] + Given(s, a, ch[k], n)
      BY DEF Filled
    <3>2. x + p \in Nat /\ (x + p) + l <= N
      BY <2>5
    <3>3. QED
      BY <2>4, <3>1, <3>2
  <2>7. RecordBuffer(b, N)
    BY <1>2 DEF RecordBuffers
  <2>8. RecordBuffer(WriteAt(b, o * RecordSize, Packed(B)), N)
    BY <2>4, <2>6, <2>7, WriteAtRecords
  <2>9. QED
    BY <1>2, <2>2, <2>6, <2>8 DEF RecordBuffers, RecordBuffer
<1>6. PICK g : g = [k \in 1 .. C |-> [b \in V |->
                      WriteAt(b, offs[ch[k]] * RecordSize, Packed(bucket[ch[k]]))]]
  OBVIOUS
<1>7. g \in [1 .. C -> [V -> V]]
  BY <1>5, <1>6
<1>8. PICK f \in [0 .. C -> V] : Iterates(f, out, g, C)
  BY <1>3, <1>4, <1>7, IterateExists
<1>9. ASSUME NEW k \in 1 .. C
      PROVE  f[k] = WriteAt(f[k - 1], offs[ch[k]] * RecordSize, Packed(bucket[ch[k]]))
  BY <1>3, <1>6, <1>8 DEF Iterates
<1>10. Writes(f, out, offs, ch, C, bucket)
  BY <1>8, <1>9 DEF Iterates, Writes
<1>11. QED
  BY <1>1, <1>2, <1>10

\* After the batch its records are in their places too.
LEMMA WritesFill ==
    ASSUME NEW ch, NEW C, NEW e, NEW M, NEW s \in Seq(Quads), NEW a, Plans(ch, C, e, M, s, a),
           NEW m \in 0 .. Len(s), NEW n \in 0 .. m, NEW out, NEW offs,
           Filled(out, offs, ch, C, e, M, s, a, n),
           NEW bucket, BucketsOf(bucket, s, a, ch, C, n, m),
           NEW f \in [0 .. C -> RecordBuffers(Len(s))], Writes(f, out, offs, ch, C, bucket),
           NEW more, more = [c \in DOMAIN offs |-> offs[c] + Len(bucket[c])]
    PROVE  Filled(f[C], more, ch, C, e, M, s, a, m)
<1>1. PICK N \in Nat : N = Len(s)
  BY LenProperties
<1>2. C \in Nat /\ M \in Seq(Quads) /\ Len(M) = N
  BY <1>1 DEF Plans
<1>3. ASSUME NEW k \in 1 .. C
      PROVE  /\ more[ch[k]] = e[k - 1] + Given(s, a, ch[k], m)
             /\ Good(f[k - 1], M, N) \subseteq Good(f[k], M, N)
             /\ \A q \in e[k - 1] + 1 .. e[k - 1] + Given(s, a, ch[k], m) :
                  q \in Good(out, M, N) \/ q \in Good(f[k], M, N)
  <2>1. NextPart(e, M, s, a, ch, k, n, m)
    BY BatchContinues
  <2>2. PICK B : B = bucket[ch[k]] /\ B = Bucket(SubSeq(s, n + 1, m), a, ch[k])
    BY DEF BucketsOf
  <2>3. k - 1 \in 0 .. C
    BY <1>2
  <2>4. PICK x \in Nat, p \in Nat, l \in Nat :
          x = e[k - 1] /\ p = Given(s, a, ch[k], n) /\ l = Len(B) /\ B \in Seq(Quads)
    BY <2>1, <2>2, <2>3, LenProperties DEF NextPart, Plans
  <2>5. x + (p + l) <= N /\ Given(s, a, ch[k], m) = p + l /\ Part(B, x + p, M)
    BY <1>1, <2>1, <2>2, <2>4 DEF NextPart
  <2>6. PICK o \in Nat : o = offs[ch[k]] /\ o = x + p /\ o + l <= N
    <3>1. offs[ch[k]] = e[k - 1] + Given(s, a, ch[k], n)
      BY DEF Filled
    <3>2. x + p \in Nat /\ (x + p) + l <= N
      BY <2>5
    <3>3. QED
      BY <2>4, <3>1, <3>2
  <2>7. PICK b, c : b = f[k - 1] /\ c = f[k] /\ RecordBuffer(b, N)
    BY <1>1, <2>3 DEF RecordBuffers
  <2>8. c = WriteAt(b, o * RecordSize, Packed(B))
    BY <2>2, <2>6, <2>7 DEF Writes
  <2>9. WroteRecords(b, c, N, B, o)
    BY <2>4, <2>6, <2>7, <2>8, WriteAtRecords
  <2>10. Good(b, M, N) \subseteq Good(c, M, N) /\ o + 1 .. o + l \subseteq Good(c, M, N)
    <3>1. Part(B, o, M) /\ o + Len(B) <= N
      BY <2>4, <2>5, <2>6
    <3>2. /\ Good(b, M, N) \subseteq Good(c, M, N)
          /\ o + 1 .. o + Len(B) \subseteq Good(c, M, N)
      BY <1>2, <2>4, <2>9, <3>1, WrittenIsGood
    <3>3. QED
      BY <2>4, <3>2
  <2>11. x + 1 .. x + p \subseteq Good(out, M, N)
    BY <1>1, <2>4 DEF Filled
  <2>12. more[ch[k]] = o + l
    BY <2>2, <2>4, <2>6 DEF Filled
  <2>13. ASSUME NEW q \in x + 1 .. x + (p + l)
         PROVE  q \in Good(out, M, N) \/ q \in Good(c, M, N)
    BY <2>6, <2>10, <2>11
  <2>14. more[ch[k]] = x + (p + l)
    BY <2>6, <2>12
  <2>15. QED
    BY <2>4, <2>5, <2>7, <2>10, <2>13, <2>14
<1> DEFINE Z == {j \in 0 .. C : /\ Good(out, M, N) \subseteq Good(f[j], M, N)
                                /\ \A k \in 1 .. j : Good(f[k], M, N) \subseteq Good(f[j], M, N)}
<1>4. 0 \in Z
  BY <1>2 DEF Writes
<1>5. ASSUME NEW j \in 1 .. C, j - 1 \in Z PROVE j \in Z
  <2>1. Good(f[j - 1], M, N) \subseteq Good(f[j], M, N)
    BY <1>3
  <2>2. \A k \in 1 .. j : k = j \/ k \in 1 .. j - 1
    OBVIOUS
  <2>3. QED
    BY <1>2, <1>5, <2>1, <2>2
<1> HIDE DEF Z
<1>6. \A j \in 0 .. C : j \in Z
  BY <1>2, <1>4, <1>5, UpTo
<1>7. /\ Good(out, M, N) \subseteq Good(f[C], M, N)
      /\ \A k \in 1 .. C : Good(f[k], M, N) \subseteq Good(f[C], M, N)
  BY <1>2, <1>6 DEF Z
<1>8. RecordBuffer(f[C], N)
  BY <1>1, <1>2 DEF RecordBuffers
<1>9. DOMAIN more = {ch[k] : k \in 1 .. C}
  BY DEF Filled
<1>10. \A k \in 1 .. C :
         e[k - 1] + 1 .. e[k - 1] + Given(s, a, ch[k], m) \subseteq Good(f[C], M, N)
  BY <1>3, <1>7
<1>11. QED
  BY <1>1, <1>3, <1>8, <1>9, <1>10 DEF Filled

\* Every chunk starts where its range starts.
StartsOf(rs) ==
    [c \in {rs[n].chunk : n \in DOMAIN rs} |-> (CHOOSE r \in ToSet(rs) : r.chunk = c).start]

\* Before the first batch.
LEMMA ReservedIsFilled ==
    ASSUME NEW ch, NEW C, NEW e, NEW M, NEW s \in Seq(Quads), NEW a, Plans(ch, C, e, M, s, a),
           NEW rs, rs = LaidOut(ch, C, e), NEW offs, offs = StartsOf(rs)
    PROVE  Filled(Reserve(NewBuffer, Len(s) * RecordSize), offs, ch, C, e, M, s, a, 0)
<1>1. PICK N \in Nat : N = Len(s)
  BY LenProperties
<1>2. PICK out : out = Reserve(NewBuffer, N * RecordSize) /\ RecordBuffer(out, N)
  BY ReserveRecords
<1>3. C \in Nat /\ \A i, j \in 1 .. C : ch[i] = ch[j] => i = j
  BY DEF Plans, Enumerates
<1>4. /\ DOMAIN rs = 1 .. C
      /\ \A k \in 1 .. C : /\ rs[k] = [chunk |-> ch[k], start |-> e[k - 1], end |-> e[k]]
                           /\ rs[k].chunk = ch[k] /\ rs[k].start = e[k - 1]
  BY DEF LaidOut
<1>5. ToSet(rs) = {rs[k] : k \in 1 .. C} /\ {rs[n].chunk : n \in DOMAIN rs} = {ch[k] : k \in 1 .. C}
  BY <1>4 DEF ToSet
<1>6. DOMAIN offs = {ch[k] : k \in 1 .. C}
  BY <1>5 DEF StartsOf
<1>7. ASSUME NEW k \in 1 .. C PROVE offs[ch[k]] = e[k - 1]
  <2>1. offs[ch[k]] = (CHOOSE r \in ToSet(rs) : r.chunk = ch[k]).start
    BY <1>5 DEF StartsOf
  <2>2. PICK r : r = CHOOSE q \in ToSet(rs) : q.chunk = ch[k]
    OBVIOUS
  <2>3. \E q \in ToSet(rs) : q.chunk = ch[k]
    BY <1>4, <1>5
  <2>4. r \in ToSet(rs) /\ r.chunk = ch[k]
    BY <2>2, <2>3, Zenon
  <2>5. PICK l \in 1 .. C : r = rs[l]
    BY <1>5, <2>4
  <2>6. l = k
    BY <1>3, <1>4, <2>4, <2>5
  <2>7. offs[ch[k]] = r.start
    BY <2>1, <2>2
  <2>8. r.start = e[k - 1]
    BY <1>4, <2>5, <2>6
  <2>9. QED
    BY <2>7, <2>8
<1>8. ASSUME NEW k \in 1 .. C PROVE Given(s, a, ch[k], 0) = 0 /\ e[k - 1] \in Nat
  BY <1>3, BucketSteps DEF Given, Plans
<1>9. ASSUME NEW k \in 1 .. C
      PROVE  /\ offs[ch[k]] = e[k - 1] + Given(s, a, ch[k], 0)
             /\ e[k - 1] + 1 .. e[k - 1] + Given(s, a, ch[k], 0) \subseteq Good(out, M, N)
  BY <1>7, <1>8
<1>10. QED
  BY <1>1, <1>2, <1>6, <1>9 DEF Filled

\* After the last batch the buffer holds the plan.
LEMMA FilledIsPlan ==
    ASSUME NEW ch, NEW C, NEW e, NEW M, NEW s \in Seq(Quads), NEW a, Plans(ch, C, e, M, s, a),
           NEW out, NEW offs, Filled(out, offs, ch, C, e, M, s, a, Len(s))
    PROVE  Unpacked(ReadThrough(Freeze(out))) = M
<1>1. PICK N \in Nat : N = Len(s)
  BY LenProperties
<1>2. C \in Nat /\ M \in Seq(Quads) /\ Len(M) = N
  BY <1>1 DEF Plans
<1>3. \A q \in 1 .. N : q \in Good(out, M, N)
  <2>1. SUFFICES ASSUME NEW q \in 1 .. N PROVE q \in Good(out, M, N)
    OBVIOUS
  <2>2. PICK k \in 1 .. C : q \in e[k - 1] + 1 .. e[k]
    BY <1>1, PlanCovers
  <2>3. SubSeq(s, 1, N) = s
    BY <1>1, SubSeqFull
  <2>4. Given(s, a, ch[k], N) = Len(Bucket(s, a, ch[k]))
    BY <2>3 DEF Given
  <2>5. e[k] = e[k - 1] + Given(s, a, ch[k], N)
    BY <2>4 DEF Plans
  <2>6. e[k - 1] + 1 .. e[k - 1] + Given(s, a, ch[k], N) \subseteq Good(out, M, N)
    BY <1>1 DEF Filled
  <2>7. QED
    BY <2>2, <2>5, <2>6
<1>4. PICK content : content = Content(out)
  OBVIOUS
<1>5. /\ content \in Seq(PlanUnits) /\ Len(content) = N * RecordSize /\ out.length = N * RecordSize
  BY <1>1, <1>4 DEF Filled, RecordBuffer, Buffers, Content
<1>6. PICK m \in Nat : m = N * RecordSize
  BY RecordStoreAssumption
<1>7. PICK packed : packed = Packed(M)
  OBVIOUS
<1>8. /\ packed \in [1 .. m -> {"record"} \X (1 .. RecordSize) \X Quads]
      /\ \A q \in 1 .. N, p \in 1 .. RecordSize : packed[UnitAt(q, p)] = <<"record", p, M[q]>>
  BY <1>2, <1>6, <1>7, PackedIs
<1>9. ASSUME NEW n \in 1 .. m PROVE content[n] = packed[n]
  <2>1. PICK q \in 1 .. N, p \in 1 .. RecordSize : n = UnitAt(q, p)
    BY <1>6, UnitIs
  <2>2. Wrote(content, q, M[q])
    BY <1>3, <1>4 DEF Good
  <2>3. content[n] = <<"record", p, M[q]>>
    BY <2>1, <2>2 DEF Wrote
  <2>4. QED
    BY <1>8, <2>1, <2>3
<1>10. DOMAIN content = 1 .. m /\ content = [n \in DOMAIN content |-> content[n]]
  BY <1>5, <1>6, LenProperties
<1>11. packed = [n \in 1 .. m |-> packed[n]]
  BY <1>8
<1>12. content = packed
  BY <1>9, <1>10, <1>11
<1>13. PICK source : source = Freeze(out)
  OBVIOUS
<1>14. source.content = content /\ source.length = out.length
  BY <1>4, <1>13 DEF Freeze, Content
<1>15. ReadThrough(source) = content
  BY <1>5, <1>14, ReadThroughIs
<1>16. Unpacked(packed) = M
  BY <1>2, <1>7, UnpackedIs
<1>17. QED
  BY <1>12, <1>13, <1>15, <1>16

\* The writes of a batch are determined.
LEMMA WritesAgree ==
    ASSUME NEW C \in Nat, NEW f, NEW w, NEW out, NEW offs, NEW ch, NEW bucket,
           Writes(f, out, offs, ch, C, bucket), Writes(w, out, offs, ch, C, bucket)
    PROVE  w[C] = f[C]
<1> DEFINE Z == {j \in 0 .. C : w[j] = f[j]}
<1>1. 0 \in Z
  BY DEF Writes
<1>2. ASSUME NEW j \in 1 .. C, j - 1 \in Z PROVE j \in Z
  BY <1>2 DEF Writes
<1> HIDE DEF Z
<1>3. \A j \in 0 .. C : j \in Z
  BY <1>1, <1>2, UpTo
<1>4. QED
  BY <1>3 DEF Z

\* What the recursion over the ranges writes.
LEMMA BucketsWrittenIs ==
    ASSUME NEW C \in Nat, NEW ch, NEW e, ranges = LaidOut(ch, C, e), NEW V,
           NEW f \in [0 .. C -> V], NEW bucket, Writes(f, output, offsets, ch, C, bucket)
    PROVE  BucketsWritten(bucket) = f[C]
<1>1. Len(ranges) = C /\ \A k \in 1 .. C : ranges[k].chunk = ch[k]
  BY DEF LaidOut
<1> DEFINE Nth(w, n) == IF n = 0 THEN output
                          ELSE WriteAt(w[n - 1], BucketOffset(ranges[n].chunk) * RecordSize,
                                       Packed(bucket[ranges[n].chunk]))
           Through == CHOOSE written : written = [n \in 0 .. Len(ranges) |-> Nth(written, n)]
<1>2. f = [n \in 0 .. C |-> Nth(f, n)]
  <2>1. ASSUME NEW n \in 0 .. C PROVE f[n] = Nth(f, n)
    BY <1>1 DEF Writes, BucketOffset
  <2> HIDE DEF Nth
  <2>2. QED
    BY <2>1
<1>3. BucketsWritten(bucket) = Through[Len(ranges)]
  BY DEF BucketsWritten
<1>4. Through = [n \in 0 .. C |-> Nth(Through, n)]
  <2> HIDE DEF Nth
  <2>1. f = [n \in 0 .. Len(ranges) |-> Nth(f, n)]
    BY <1>1, <1>2
  <2>2. Through = [n \in 0 .. Len(ranges) |-> Nth(Through, n)]
    BY <2>1
  <2>3. QED
    BY <1>1, <2>2
<1> HIDE DEF Through
<1>5. Writes(Through, output, offsets, ch, C, bucket)
  <2>1. Through[0] = output
    BY <1>4
  <2>2. ASSUME NEW k \in 1 .. C
        PROVE  Through[k] = WriteAt(Through[k - 1], offsets[ch[k]] * RecordSize, Packed(bucket[ch[k]]))
    <3>1. k \in 0 .. C /\ k # 0
      OBVIOUS
    <3>2. Through[k] = Nth(Through, k)
      <4> HIDE DEF Nth
      <4>1. QED
        BY <1>4, <3>1
    <3>3. ranges[k].chunk = ch[k]
      BY <1>1
    <3>4. QED
      BY <3>1, <3>2, <3>3 DEF BucketOffset
  <2>3. QED
    BY <2>1, <2>2 DEF Writes
<1>6. Through[C] = f[C]
  BY <1>5, WritesAgree
<1>7. QED
  BY <1>1, <1>3, <1>6

(* The invariant. *)

InputsInv ==
    /\ schematic.size \in Sizes /\ rotation \in Rotations /\ anchor \in Triples
    /\ InBox(schematic.records, schematic.size)

\* The ranges are those of the plan, and what is scattered is in its place.
Scattered ==
    LET s == Turned(schematic, rotation)
        M == InMemoryRecords(s, anchor)
    IN \E ch, C, e : /\ Plans(ch, C, e, M, s, anchor)
                     /\ ranges = LaidOut(ch, C, e)
                     /\ Filled(output, offsets, ch, C, e, M, s, anchor, batch)

PlanInv ==
    /\ pc \in {"count", "scatter", "planned"} => Valid(schematic)
    /\ pc \in {"loaded", "validate", "count"} => output = NewBuffer /\ batch = 0
    /\ pc \in {"scatter", "planned"} => batch \in 0 .. Len(schematic.records) /\ Scattered
    /\ pc = "planned" => batch = Len(schematic.records)

\* The inputs keep what the scan gave them.
LEMMA InputsStay == Spec => []InputsInv
<1>1. Init => InputsInv
  <2> SUFFICES ASSUME Init PROVE InputsInv
    OBVIOUS
  <2>1. PICK size \in Sizes, low \in Lows, palette \in Palettes, fullVolume \in BOOLEAN,
             stray \in Strays :
          \E kept \in SUBSET Box(size) :
            schematic = Scanned(size, low, kept, palette, fullVolume, stray)
    BY DEF Init, IsScanned
  <2>2. schematic.size = size /\ InBox(schematic.records, size)
    BY <2>1, ScannedIs
  <2>3. <<0, 0, 0>> \in Triples
    BY DEF Triples
  <2>4. QED
    BY <2>2, <2>3 DEF Init, InputsInv, Unplanned, Rotations
<1>2. InputsInv /\ [Next]_vars => InputsInv'
  <2>1. Anchors \subseteq Triples
    BY PlannerAssumption DEF Triples
  <2>2. QED
    BY <2>1 DEF InputsInv, Next, Request, Validate, Count, Scatter, Finish, vars, inputs
<1>3. QED
  BY <1>1, <1>2, PTL DEF Spec

\* What is turned are records.
LEMMA RecordsTurned ==
    ASSUME InputsInv
    PROVE  TurnedTo(Turned(schematic, rotation), schematic.records, schematic.size, rotation)
BY PlannerAssumption, TurnedIs DEF InputsInv, Sizes3

\* Counting lays the ranges out and reserves them.
LEMMA CountStep ==
    ASSUME InputsInv, PlanInv, Count
    PROVE  PlanInv'
<1>1. PICK s \in Seq(Quads) : s = Turned(schematic, rotation) /\ Len(s) = Len(schematic.records)
  BY RecordsTurned DEF TurnedTo
<1>2. PICK a \in Triples : a = anchor
  BY DEF InputsInv
<1>3. PICK M : M = InMemoryRecords(s, a)
  OBVIOUS
<1>4. PICK ch, C, e : Plans(ch, C, e, M, s, a) /\ RangesOf(s, a) = LaidOut(ch, C, e)
  BY <1>3, PlanOf
<1>5. PICK rs : rs = ranges'
  OBVIOUS
<1>6. rs = LaidOut(ch, C, e)
  BY <1>1, <1>2, <1>4, <1>5 DEF Count
<1>7. PICK offs : offs = offsets'
  OBVIOUS
<1>8. offs = StartsOf(rs)
  BY <1>5, <1>7 DEF Count, StartsOf
<1>9. Filled(Reserve(NewBuffer, Len(s) * RecordSize), offs, ch, C, e, M, s, a, 0)
  BY <1>4, <1>6, <1>8, ReservedIsFilled
<1>10. pc = "count" /\ output = NewBuffer /\ batch = 0 /\ Valid(schematic)
  BY DEF Count, PlanInv
<1>11. output' = Reserve(NewBuffer, Len(s) * RecordSize) /\ batch' = 0
  BY <1>1, <1>10 DEF Count
<1>12. schematic' = schematic /\ rotation' = rotation /\ anchor' = anchor
  BY DEF Count, inputs
<1>13. Scattered'
  BY <1>1, <1>2, <1>3, <1>4, <1>5, <1>6, <1>7, <1>9, <1>11, <1>12 DEF Scattered
<1>14. batch' \in 0 .. Len(schematic.records)
  BY <1>1, <1>11, LenProperties
<1>15. pc' = "scatter"
  BY DEF Count
<1>16. QED
  BY <1>10, <1>12, <1>13, <1>14, <1>15 DEF PlanInv

\* A batch fills what it is to fill.
LEMMA ScatterStep ==
    ASSUME InputsInv, PlanInv, Scatter
    PROVE  PlanInv'
<1>1. PICK s \in Seq(Quads) : s = Turned(schematic, rotation) /\ Len(s) = Len(schematic.records)
  BY RecordsTurned DEF TurnedTo
<1>2. PICK N \in Nat : N = Len(s)
  BY LenProperties
<1>3. PICK a, M : a = anchor /\ M = InMemoryRecords(s, a)
  OBVIOUS
<1>4. /\ pc = "scatter" /\ pc' = "scatter" /\ Valid(schematic) /\ Scattered
      /\ batch \in 0 .. N /\ batch < N
  BY <1>1, <1>2 DEF Scatter, PlanInv
<1>5. PICK n \in 0 .. N : n = batch /\ n < N
  BY <1>4
<1>6. PICK m : m = Min({n + BatchRecords, N})
  OBVIOUS
<1>7. m \in 0 .. Len(s) /\ n \in 0 .. m
  <2>1. PICK b \in Nat, g \in Nat : b = BatchRecords /\ g = n + b
    BY PlannerAssumption
  <2>2. m = IF g <= N THEN g ELSE N
    <3>1. m = Min({g, N})
      BY <1>6, <2>1
    <3>2. g \in Int /\ N \in Int
      OBVIOUS
    <3>4. Min({g, N}) = IF g <= N THEN g ELSE N
      BY <3>2, MaxMin
    <3>3. QED
      BY <3>1, <3>4
  <2>3. QED
    BY <1>2, <2>1, <2>2
<1>8. PICK ch, C, e : /\ Plans(ch, C, e, M, s, a) /\ ranges = LaidOut(ch, C, e)
                      /\ Filled(output, offsets, ch, C, e, M, s, a, n)
  BY <1>1, <1>3, <1>4, <1>5 DEF Scattered
<1>9. Batch(batch) = SubSeq(s, n + 1, m) /\ batch' = m
  BY <1>1, <1>2, <1>5, <1>6 DEF Batch, Scatter
<1>10. PICK bucket : bucket = [c \in DOMAIN offsets |-> Bucket(SubSeq(s, n + 1, m), a, c)]
  OBVIOUS
<1>11. BucketsOf(bucket, s, a, ch, C, n, m)
  BY <1>8, <1>10 DEF Filled, BucketsOf
<1>12. /\ output' = BucketsWritten(bucket)
       /\ offsets' = [c \in DOMAIN offsets |-> offsets[c] + Len(bucket[c])]
  BY <1>3, <1>9, <1>10 DEF Scatter
<1>13. PICK f \in [0 .. C -> RecordBuffers(Len(s))] : Writes(f, output, offsets, ch, C, bucket)
  BY <1>7, <1>8, <1>11, WriteExists
<1>14. C \in Nat
  BY <1>8 DEF Plans
<1>15. BucketsWritten(bucket) = f[C]
  BY <1>8, <1>13, <1>14, BucketsWrittenIs
<1>16. PICK offs, more : offs = offsets /\ more = offsets'
  OBVIOUS
<1>17. PICK out : out = output
  OBVIOUS
<1>18. Filled(f[C], more, ch, C, e, M, s, a, m)
  BY <1>7, <1>8, <1>11, <1>12, <1>13, <1>16, <1>17, WritesFill
<1>19. /\ schematic' = schematic /\ rotation' = rotation /\ anchor' = anchor /\ ranges' = ranges
  BY DEF Scatter, inputs
<1>20. Scattered'
  BY <1>1, <1>3, <1>8, <1>9, <1>12, <1>15, <1>16, <1>18, <1>19 DEF Scattered
<1>21. QED
  BY <1>1, <1>4, <1>7, <1>9, <1>19, <1>20 DEF PlanInv

\* Every step keeps it.
LEMMA StepsKeepPlan ==
    ASSUME InputsInv, PlanInv, [Next]_vars
    PROVE  PlanInv'
<1>1. ASSUME NEW b \in Anchors, NEW r \in Rotations, Request(b, r) PROVE PlanInv'
  BY <1>1 DEF Request, PlanInv
<1>2. CASE Validate
  BY <1>2 DEF Validate, PlanInv, inputs
<1>3. CASE Count
  BY <1>3, CountStep
<1>4. CASE Scatter
  BY <1>4, ScatterStep
<1>5. CASE Finish
  BY <1>5 DEF Finish, inputs, PlanInv, Scattered
<1>6. CASE UNCHANGED vars
  BY <1>6 DEF vars, inputs, Scattered, PlanInv
<1>7. QED
  BY <1>1, <1>2, <1>3, <1>4, <1>5, <1>6 DEF Next

\* The invariant holds in every state of a planner.
LEMMA PlanStays == Spec => [](InputsInv /\ PlanInv)
<1>1. Init => PlanInv
  BY DEF Init, Unplanned, PlanInv
<1>2. InputsInv /\ PlanInv /\ [Next]_vars => PlanInv'
  BY StepsKeepPlan
<1>3. QED
  BY <1>1, <1>2, InputsStay, PTL DEF Spec

\* Turned block entities have their blocks.
LEMMA EntitiesHaveBlocks ==
    ASSUME InputsInv, Valid(schematic), NEW M,
           ToSet(M) = ToSet(Turned(schematic, rotation))
    PROVE  DOMAIN TurnedEntities(schematic, rotation) \subseteq Places(M)
<1>1. PICK s \in Seq(Quads) : s = Turned(schematic, rotation)
  BY RecordsTurned DEF TurnedTo
<1>2. PICK N \in Nat : N = Len(s) /\ N = Len(schematic.records)
  BY <1>1, RecordsTurned, LenProperties DEF TurnedTo
<1>3. \A n \in 1 .. N : Place(s[n]) = RotateCoord(Place(schematic.records[n]), schematic.size, rotation)
  BY <1>1, <1>2, RecordsTurned DEF TurnedTo
<1>4. DOMAIN s = 1 .. N /\ DOMAIN schematic.records = 1 .. N
  BY <1>1, <1>2, LenProperties DEF InputsInv, InBox
<1>5. DOMAIN schematic.entities \subseteq {Place(schematic.records[n]) : n \in 1 .. N}
  BY <1>4 DEF Valid, Places
<1>6. ASSUME NEW q \in DOMAIN TurnedEntities(schematic, rotation) PROVE q \in Places(M)
  <2>1. PICK p \in DOMAIN schematic.entities : q = RotateCoord(p, schematic.size, rotation)
    BY DEF TurnedEntities, Range
  <2>2. PICK n \in 1 .. N : p = Place(schematic.records[n])
    BY <1>5
  <2>3. q = Place(s[n])
    BY <1>3, <2>1, <2>2
  <2>4. s[n] \in ToSet(M)
    BY <1>1, <1>4 DEF ToSet
  <2>5. PICK i \in DOMAIN M : M[i] = s[n]
    BY <2>4 DEF ToSet
  <2>6. QED
    BY <2>3, <2>5 DEF Places
<1>7. QED
  BY <1>6

\* With the invariant, a finished plan is the one prepare_paste_plan makes.
LEMMA PlannedIsComplete == InputsInv /\ PlanInv => PlanIsComplete
<1>1. SUFFICES ASSUME InputsInv, PlanInv, pc = "planned" PROVE PlanIsComplete
  BY DEF PlanIsComplete
<1>2. PICK s \in Seq(Quads) : s = Turned(schematic, rotation) /\ Len(s) = Len(schematic.records)
  BY <1>1, RecordsTurned DEF TurnedTo
<1>3. PICK a, M : a = anchor /\ M = InMemoryRecords(s, a)
  OBVIOUS
<1>4. Scattered /\ Valid(schematic) /\ batch = Len(s)
  BY <1>1, <1>2 DEF PlanInv
<1>5. PICK ch, C, e : /\ Plans(ch, C, e, M, s, a) /\ ranges = LaidOut(ch, C, e)
                      /\ Filled(output, offsets, ch, C, e, M, s, a, Len(s))
  BY <1>2, <1>3, <1>4 DEF Scattered
<1>6. PlanRecords = M
  BY <1>5, FilledIsPlan DEF PlanRecords
<1>7. ToSet(M) = ToSet(s)
  BY <1>5, PlanHasAll
<1>8. Len(M) = Len(s) /\ C \in Nat /\ e[C] = Len(s)
  BY <1>5 DEF Plans
<1>9. DOMAIN TurnedEntities(schematic, rotation) \subseteq Places(M)
  BY <1>1, <1>2, <1>4, <1>7, EntitiesHaveBlocks
<1>10. /\ Len(ranges) = C /\ DOMAIN ranges = 1 .. C
       /\ \A k \in 1 .. C : ranges[k].chunk = ch[k] /\ ranges[k].start = e[k - 1] /\ ranges[k].end = e[k]
  BY <1>5, <1>8 DEF LaidOut
<1>11. \A i, j \in DOMAIN ranges : ranges[i].chunk = ranges[j].chunk => i = j
  <2>1. \A i, j \in 1 .. C : ch[i] = ch[j] => i = j
    BY <1>5 DEF Plans, Enumerates
  <2>2. QED
    BY <1>10, <2>1
<1>12. \A n \in DOMAIN ranges : \A i \in ranges[n].start + 1 .. ranges[n].end :
         ChunkOf(Plus(M[i], anchor)) = ranges[n].chunk
  <2>1. SUFFICES ASSUME NEW k \in 1 .. C, NEW i \in e[k - 1] + 1 .. e[k]
                 PROVE  Target(M[i], a) = ch[k]
    BY <1>3, <1>10 DEF Target
  <2>2. QED
    BY <1>5, PlanPlace
<1>13. \A n \in DOMAIN ranges :
         ranges[n].end = IF n = Len(ranges) THEN Len(s) ELSE ranges[n + 1].start
  <2>1. SUFFICES ASSUME NEW n \in 1 .. C
                 PROVE  ranges[n].end = IF n = C THEN Len(s) ELSE ranges[n + 1].start
    BY <1>10
  <2>2. CASE n = C
    BY <1>8, <1>10, <2>2
  <2>3. CASE n # C
    BY <1>8, <1>10, <2>3
  <2>4. QED
    BY <2>2, <2>3
<1>14. QED
  BY <1>2, <1>3, <1>6, <1>7, <1>8, <1>9, <1>11, <1>12, <1>13 DEF PlanIsComplete

\* For every schematic, anchor, rotation, batch size and spill threshold: a plan that
\* prepare_streaming_paste_plan finishes is the one prepare_paste_plan makes in memory,
\* has every record once and each chunk in one range, and every block entity its block.
THEOREM PlanAlwaysComplete == Spec => []PlanIsComplete
<1>1. InputsInv /\ PlanInv => PlanIsComplete
  BY PlannedIsComplete
<1>2. QED
  BY <1>1, PlanStays, PTL

\* In every state of the planner, for every rotation: the value that rotate_states gives a
\* block state points where rotate_coord takes what the old value pointed to, for every
\* family of states that it turns.
THEOREM StatesAlwaysTurn == Spec => []StatesTurnWithBlocks
<1>1. InputsInv => StatesTurnWithBlocks
  BY FamilyTurns DEF InputsInv, StatesTurnWithBlocks
<1>2. QED
  BY <1>1, InputsStay, PTL

\* For selections of every size, anywhere: the regions of build_chunk_regions, one after
\* the other, visit every block of the selection once, and none leaves its chunk.
THEOREM ScanAlwaysVisitsOnce == Spec => []ScanVisitsSelectionOnce
<1>1. InputsInv => ScanVisitsSelectionOnce
  <2>1. SUFFICES ASSUME InputsInv, NEW low \in Lows
                 PROVE  /\ Len(ScanOrder(low, schematic.size)) = Volume(schematic.size)
                        /\ ToSet(ScanOrder(low, schematic.size)) = Box(schematic.size)
                        /\ \A n \in DOMAIN ChunkRegions(low, schematic.size) :
                             \A p \in ToSet(Coordinates(ChunkRegions(low, schematic.size)[n])) :
                               ChunkOf(p) = ChunkRegions(low, schematic.size)[n].chunk
    BY DEF ScanVisitsSelectionOnce
  <2>2. PICK size \in Sizes3 : size = schematic.size
    BY <2>1, PlannerAssumption DEF InputsInv, Sizes3
  <2>3. low \in Triples
    BY PlannerAssumption DEF Triples
  <2>4. PICK order \in Seq(Triples) : order = ScanOrder(low, size)
    BY <2>3, ScanOrderLists
  <2>5. Lists(order, Box(size)) /\ Len(order) = Volume(size)
    BY <2>3, <2>4, ScanOrderLists
  <2>6. DOMAIN order = 1 .. Len(order)
    BY LenProperties
  <2>7. ToSet(order) = Box(size)
    BY <2>5, <2>6 DEF ToSet, Lists
  <2>8. \A n \in DOMAIN ChunkRegions(low, size) :
          \A p \in ToSet(Coordinates(ChunkRegions(low, size)[n])) :
            ChunkOf(p) = ChunkRegions(low, size)[n].chunk
    BY <2>3, ScanOrderLists
  <2>9. QED
    BY <2>2, <2>4, <2>5, <2>7, <2>8
<1>2. QED
  BY <1>1, InputsStay, PTL

\* In every state of the planner, for schematics of every size: turning fills the turned
\* box one to one, and turns compose (rotate_coord, rotated_size, normalize_rotation).
THEOREM RotationAlwaysTurnsBox == Spec => []RotationTurnsBox
<1>1. InputsInv => RotationTurnsBox
  <2> SUFFICES ASSUME InputsInv PROVE RotationTurnsBox
    OBVIOUS
  <2> DEFINE size == schematic.size
  <2>1. size \in Sizes3 /\ rotation \in Rotations
    BY PlannerAssumption DEF InputsInv, Sizes3
  <2> HIDE DEF size
  <2>2. {RotateCoord(d, size, rotation) : d \in Box(size)} = Box(RotatedSize(size, rotation))
    BY <2>1, TurnStaysInBox, TurnCoversBox
  <2>3. \A d \in Box(size), r \in Rotations :
          RotateCoord(RotateCoord(d, size, rotation), RotatedSize(size, rotation), r)
            = RotateCoord(d, size, NormalizeRotation(rotation + r))
    BY <2>1, TurnsCompose
  <2> QED
    BY <2>2, <2>3 DEF RotationTurnsBox, size
<1> QED
  BY <1>1, InputsStay, PTL

----------------------------------------------------------------------------
(* A payload's stream and its sections. *)

\* One sequence after another.
Joins(q, s, m, t, n) ==
    /\ Len(q) = m + n
    /\ \A i \in 1 .. m : q[i] = s[i]
    /\ \A i \in 1 .. n : q[m + i] = t[i]

\* A concatenation is the first sequence followed by the second.
LEMMA Joined ==
    ASSUME NEW V, NEW s \in Seq(V), NEW t \in Seq(V)
    PROVE  s \o t \in Seq(V) /\ Joins(s \o t, s, Len(s), t, Len(t))
<1>1. PICK m \in Nat, n \in Nat : m = Len(s) /\ n = Len(t)
  BY LenProperties
<1>2. PICK q : q = s \o t
  OBVIOUS
<1>3. /\ q \in Seq(V) /\ Len(q) = m + n
      /\ \A i \in 1 .. m + n : q[i] = IF i <= m THEN s[i] ELSE t[i - m]
  BY <1>1, <1>2, ConcatProperties
<1>4. \A i \in 1 .. m : i \in 1 .. m + n /\ i <= m
  OBVIOUS
<1>5. \A i \in 1 .. n : m + i \in 1 .. m + n /\ ~(m + i <= m) /\ (m + i) - m = i
  OBVIOUS
<1>6. \A i \in 1 .. m : q[i] = s[i]
  BY <1>3, <1>4
<1>7. \A i \in 1 .. n : q[m + i] = t[i]
  BY <1>3, <1>5
<1>8. QED
  BY <1>1, <1>2, <1>3, <1>6, <1>7 DEF Joins

\* A section of this many units of a content.
SectionOf(raw, o, name, content, size) == \A i \in 1 .. size : raw[o + i] = <<name, i, content>>

\* The stream has these four sections.
Laid(raw, p, h, e, u, R) ==
    /\ raw \in Seq(ToSet(raw))
    /\ Len(raw) = PrefixSize + HeaderSize + u + Len(R)
    /\ SectionOf(raw, 0, "prefix", p, PrefixSize)
    /\ SectionOf(raw, PrefixSize, "header", h, HeaderSize)
    /\ SectionOf(raw, PrefixSize + HeaderSize, "entities", e, u)
    /\ \A i \in 1 .. Len(R) : raw[PrefixSize + HeaderSize + u + i] = R[i]

\* The units of a section name it, number it and carry its content.
LEMMA SectionIs ==
    ASSUME NEW name, NEW content, NEW size \in Nat
    PROVE  /\ Section(name, content, size) \in Seq({name} \X Nat \X {content})
           /\ Len(Section(name, content, size)) = size
           /\ \A i \in 1 .. size : Section(name, content, size)[i] = <<name, i, content>>
BY DEF Section

\* A sequence is one of its elements.
LEMMA OfItsElements ==
    ASSUME NEW V, NEW s \in Seq(V)
    PROVE  s \in Seq(ToSet(s)) /\ ToSet(s) \subseteq V
BY LenProperties DEF ToSet

\* Four sections one after the other.
LEMMA LaidOutStream ==
    ASSUME NEW p, NEW h, NEW e, NEW u \in Nat, NEW V, NEW R \in Seq(V)
    PROVE  Laid(Section("prefix", p, PrefixSize) \o Section("header", h, HeaderSize)
                  \o Section("entities", e, u) \o R, p, h, e, u, R)
<1>1. PICK P \in Nat, H \in Nat : P = PrefixSize /\ H = HeaderSize
  BY CodecAssumption
<1>2. PICK W : W = ({"prefix", "header", "entities"} \X Nat \X {p, h, e}) \cup V
  OBVIOUS
<1>3. PICK a, b, c : /\ a = Section("prefix", p, P) /\ b = Section("header", h, H)
                     /\ c = Section("entities", e, u)
  OBVIOUS
<1>4. /\ a \in Seq(W) /\ Len(a) = P /\ \A i \in 1 .. P : a[i] = <<"prefix", i, p>>
      /\ b \in Seq(W) /\ Len(b) = H /\ \A i \in 1 .. H : b[i] = <<"header", i, h>>
      /\ c \in Seq(W) /\ Len(c) = u /\ \A i \in 1 .. u : c[i] = <<"entities", i, e>>
  <2>1. /\ {"prefix"} \X Nat \X {p} \subseteq W /\ {"header"} \X Nat \X {h} \subseteq W
        /\ {"entities"} \X Nat \X {e} \subseteq W
    BY <1>2
  <2>2. ASSUME NEW S, S \subseteq W, NEW s \in Seq(S) PROVE s \in Seq(W)
    BY <2>2
  <2>3. /\ a \in Seq({"prefix"} \X Nat \X {p}) /\ Len(a) = P /\ \A i \in 1 .. P : a[i] = <<"prefix", i, p>>
    BY <1>3, SectionIs
  <2>4. /\ b \in Seq({"header"} \X Nat \X {h}) /\ Len(b) = H /\ \A i \in 1 .. H : b[i] = <<"header", i, h>>
    BY <1>3, SectionIs
  <2>5. /\ c \in Seq({"entities"} \X Nat \X {e}) /\ Len(c) = u
        /\ \A i \in 1 .. u : c[i] = <<"entities", i, e>>
    BY <1>3, SectionIs
  <2>6. QED
    BY <2>1, <2>2, <2>3, <2>4, <2>5
<1>5. R \in Seq(W)
  BY <1>2
<1>6. PICK l \in Nat : l = Len(R)
  BY LenProperties
<1>7. PICK ab : ab = a \o b
  OBVIOUS
<1>8. /\ ab \in Seq(W) /\ Len(ab) = P + H
      /\ \A i \in 1 .. P : ab[i] = a[i]
      /\ \A i \in 1 .. H : ab[P + i] = b[i]
  <2>1. ab \in Seq(W) /\ Joins(ab, a, Len(a), b, Len(b))
    BY <1>4, <1>7, Joined
  <2>2. QED
    BY <1>4, <2>1 DEF Joins
<1>9. PICK abc : abc = ab \o c
  OBVIOUS
<1>10. /\ abc \in Seq(W) /\ Len(abc) = P + H + u
       /\ \A i \in 1 .. P + H : abc[i] = ab[i]
       /\ \A i \in 1 .. u : abc[P + H + i] = c[i]
  <2>1. abc \in Seq(W) /\ Joins(abc, ab, Len(ab), c, Len(c))
    BY <1>4, <1>8, <1>9, Joined
  <2>2. QED
    BY <1>4, <1>8, <2>1 DEF Joins
<1>11. PICK raw : raw = abc \o R
  OBVIOUS
<1>12. /\ raw \in Seq(W) /\ Len(raw) = P + H + u + l
       /\ \A i \in 1 .. P + H + u : raw[i] = abc[i]
       /\ \A i \in 1 .. l : raw[P + H + u + i] = R[i]
  <2>1. raw \in Seq(W) /\ Joins(raw, abc, Len(abc), R, Len(R))
    BY <1>5, <1>10, <1>11, Joined
  <2>2. QED
    BY <1>6, <1>10, <2>1 DEF Joins
<1>13. raw \in Seq(ToSet(raw))
  BY <1>12, OfItsElements
<1>14. ASSUME NEW i \in 1 .. P PROVE raw[0 + i] = <<"prefix", i, p>>
  BY <1>4, <1>8, <1>10, <1>12
<1>15. ASSUME NEW i \in 1 .. H PROVE raw[P + i] = <<"header", i, h>>
  <2>1. P + i \in 1 .. P + H /\ P + i \in 1 .. P + H + u
    OBVIOUS
  <2>2. raw[P + i] = b[i]
    BY <1>8, <1>10, <1>12, <2>1
  <2>3. QED
    BY <1>4, <2>2
<1>16. ASSUME NEW i \in 1 .. u PROVE raw[P + H + i] = <<"entities", i, e>>
  <2>1. P + H + i \in 1 .. P + H + u
    OBVIOUS
  <2>2. QED
    BY <1>4, <1>10, <1>12, <2>1
<1>17. Laid(raw, p, h, e, u, R)
  BY <1>1, <1>6, <1>12, <1>13, <1>14, <1>15, <1>16 DEF Laid, SectionOf
<1>18. QED
  BY <1>1, <1>3, <1>7, <1>9, <1>11, <1>17

\* A single sequence flattened, and two.
LEMMA FlattenOne ==
    ASSUME NEW V, NEW s \in Seq(V)
    PROVE  FlattenSeq(<<s>>) = s
<1>1. PICK seqs : seqs = <<s>>
  OBVIOUS
<1>2. seqs \in [1 .. 1 -> Seq(V)] /\ Len(seqs) = 1 /\ seqs[1] = s
  BY <1>1
<1>3. PICK counts : counts = Lengths(seqs)
  OBVIOUS
<1>4. counts \in [1 .. 1 -> Nat] /\ counts[1] = Len(s)
  BY <1>2, <1>3, LenProperties DEF Lengths
<1>5. PICK ends : ends = EndsOf(counts)
  OBVIOUS
<1>6. ends[0] = 0 /\ ends[1] = Len(s)
  <2>1. EndsAt(ends, counts, 1)
    BY <1>4, <1>5, EndsOfIs
  <2>2. ends[0] = 0 /\ ends[1] = ends[1 - 1] + counts[1]
    BY <2>1 DEF EndsAt
  <2>3. Len(s) \in Nat
    BY LenProperties
  <2>4. QED
    BY <1>4, <2>2, <2>3
<1>7. PICK q : q = FlattenSeq(seqs)
  OBVIOUS
<1>8. q \in Seq(V) /\ FlatOf(q, seqs, ends, 1)
  BY <1>2, <1>3, <1>5, <1>7, FlattenIs
<1>9. Len(q) = Len(s) /\ \A i \in 1 .. Len(s) : q[ends[1 - 1] + i] = s[i]
  BY <1>2, <1>6, <1>8 DEF FlatOf
<1>10. \A i \in 1 .. Len(s) : q[i] = s[i]
  BY <1>6, <1>9
<1>11. q = s
  BY <1>8, <1>9, <1>10, SeqEqual
<1>12. QED
  BY <1>1, <1>7, <1>11

\* Two sequences flattened are their concatenation.
LEMMA FlattenTwo ==
    ASSUME NEW V, NEW s \in Seq(V), NEW t \in Seq(V)
    PROVE  FlattenSeq(<<s, t>>) = s \o t
<1>1. PICK seqs : seqs = <<s, t>>
  OBVIOUS
<1>2. seqs \in [1 .. 2 -> Seq(V)] /\ Len(seqs) = 2 /\ seqs[1] = s /\ seqs[2] = t
  BY <1>1
<1>3. PICK m \in Nat, n \in Nat : m = Len(s) /\ n = Len(t)
  BY LenProperties
<1>4. PICK counts : counts = Lengths(seqs)
  OBVIOUS
<1>5. counts \in [1 .. 2 -> Nat] /\ counts[1] = m /\ counts[2] = n
  BY <1>2, <1>3, <1>4 DEF Lengths
<1>6. PICK ends : ends = EndsOf(counts)
  OBVIOUS
<1>7. ends[0] = 0 /\ ends[1] = m /\ ends[2] = m + n
  <2>1. EndsAt(ends, counts, 2)
    BY <1>5, <1>6, EndsOfIs
  <2>2. ends[0] = 0 /\ ends[1] = ends[1 - 1] + counts[1] /\ ends[2] = ends[2 - 1] + counts[2]
    BY <2>1 DEF EndsAt
  <2>3. QED
    BY <1>5, <2>2
<1>8. PICK q : q = FlattenSeq(seqs)
  OBVIOUS
<1>9. q \in Seq(V) /\ FlatOf(q, seqs, ends, 2)
  BY <1>2, <1>4, <1>6, <1>8, FlattenIs
<1>10. /\ Len(q) = m + n
       /\ \A i \in 1 .. m : q[ends[1 - 1] + i] = s[i]
       /\ \A i \in 1 .. n : q[ends[2 - 1] + i] = t[i]
  BY <1>2, <1>3, <1>7, <1>9 DEF FlatOf
<1>11. PICK st \in Seq(V) : st = s \o t /\ Joins(st, s, m, t, n)
  BY <1>3, Joined
<1>12. \A i \in 1 .. m + n : q[i] = st[i]
  <2>1. SUFFICES ASSUME NEW i \in 1 .. m + n PROVE q[i] = st[i]
    OBVIOUS
  <2>2. CASE i <= m
    <3>1. i \in 1 .. m /\ 0 + i = i /\ 1 - 1 = 0
      BY <2>2
    <3>2. q[i] = s[i]
      BY <1>7, <1>10, <3>1
    <3>3. st[i] = s[i]
      BY <1>11, <3>1 DEF Joins
    <3>4. QED
      BY <3>2, <3>3
  <2>3. CASE i > m
    <3>1. PICK j \in 1 .. n : i = m + j
      BY <2>3
    <3>2. q[i] = t[j]
      <4>1. q[ends[2 - 1] + j] = t[j] /\ 2 - 1 = 1
        BY <1>10, <3>1
      <4>2. QED
        BY <1>7, <3>1, <4>1
    <3>3. st[i] = t[j]
      BY <1>11, <3>1 DEF Joins
    <3>4. QED
      BY <3>2, <3>3
  <2>4. QED
    BY <2>2, <2>3
<1>13. Len(st) = m + n
  BY <1>11 DEF Joins
<1>14. q = st
  BY <1>9, <1>10, <1>11, <1>12, <1>13, SeqEqual
<1>15. QED
  BY <1>1, <1>8, <1>11, <1>14

\* The pieces of a length: the last one reaches its end, the one before does not.
LEMMA PiecesReach ==
    ASSUME NEW L \in Nat, NEW size \in Nat \ {0}, NEW K, K = (L + size - 1) \div size
    PROVE  /\ K \in Nat /\ L <= K * size
           /\ \A k \in 1 .. K : (k - 1) * size < L
<1>1. PICK r \in 0 .. size - 1 : K \in Int /\ L + size - 1 = K * size + r
  <2>1. PICK a \in Int : a = L + size - 1
    OBVIOUS
  <2>2. K = a \div size
    BY <2>1
  <2>3. PICK d \in Int : d = a \div size
    BY DivisionIs
  <2>4. PICK r \in 0 .. size - 1 : a = d * size + r
    BY <2>3, DivisionIs
  <2>5. QED
    BY <2>1, <2>2, <2>3, <2>4
<1>2. K * size \in Int
  BY <1>1, Times
<1>3. L <= K * size /\ K * size < L + size
  BY <1>1, <1>2
<1>4. K \in Nat
  BY <1>1
<1>5. ASSUME NEW k \in 1 .. K PROVE (k - 1) * size < L
  BY <1>2, <1>3, <1>4
<1>6. QED
  BY <1>3, <1>4, <1>5

\* Pieces put together are what was cut.
LEMMA FlattenPieces ==
    ASSUME NEW V, NEW content \in Seq(V), NEW source, source.content = content,
           source.length = Len(content), NEW size \in Nat \ {0}
    PROVE  FlattenSeq(ChunksOf(source, size)) = content
<1>1. PICK L \in Nat : L = Len(content) /\ \A i \in 1 .. L : content[i] \in V
  BY LenProperties
<1>2. PICK K : K = (L + size - 1) \div size
  OBVIOUS
<1>3. K \in Nat /\ L <= K * size /\ \A k \in 1 .. K : (k - 1) * size < L
  BY <1>2, PiecesReach
<1> DEFINE Upto(k) == Least(k * size, L)
<1>4. \A k \in 0 .. K : /\ Upto(k) \in 0 .. L
                        /\ Upto(k) = IF k * size < L THEN k * size ELSE L
  BY DEF Least
<1>5. PICK seqs : seqs = [k \in 1 .. K |-> SubSeq(content, (k - 1) * size + 1, Upto(k))]
  OBVIOUS
<1>6. ChunksOf(source, size) = seqs
  BY <1>1, <1>2, <1>5 DEF ChunksOf, PieceAt
<1>7. ASSUME NEW k \in 1 .. K
      PROVE  /\ Upto(k - 1) = (k - 1) * size /\ Upto(k - 1) <= Upto(k)
             /\ Upto(k - 1) \in Nat /\ Upto(k) \in 0 .. L
  <2>1. PICK a \in Int, b \in Int : a = (k - 1) * size /\ b = k * size /\ a + size = b
    OBVIOUS
  <2>2. a < L /\ k - 1 \in 0 .. K /\ k \in 0 .. K
    BY <1>3, <2>1
  <2>3. Upto(k - 1) = a
    BY <1>4, <2>1, <2>2
  <2>4. Upto(k) = IF b < L THEN b ELSE L
    BY <1>4, <2>1, <2>2
  <2>5. QED
    BY <1>4, <2>1, <2>2, <2>3, <2>4
<1> HIDE DEF Upto
<1>8. ASSUME NEW k \in 1 .. K
      PROVE  /\ seqs[k] \in Seq(V) /\ Len(seqs[k]) = Upto(k) - Upto(k - 1)
             /\ \A i \in 1 .. Upto(k) - Upto(k - 1) : seqs[k][i] = content[Upto(k - 1) + i]
  <2>1. PICK a \in Nat, b \in 0 .. L : a = Upto(k - 1) /\ b = Upto(k) /\ a <= b
    BY <1>7
  <2>2. seqs[k] = SubSeq(content, a + 1, b)
    BY <1>5, <1>7, <2>1
  <2>3. PICK c \in Nat : c = a + 1
    OBVIOUS
  <2>4. \A i \in c .. b : content[i] \in V
    BY <1>1, <2>3
  <2>5. /\ SubSeq(content, c, b) \in Seq(V)
        /\ Len(SubSeq(content, c, b)) = IF c <= b THEN b - c + 1 ELSE 0
        /\ \A i \in 1 .. b - c + 1 : SubSeq(content, c, b)[i] = content[c + i - 1]
    BY <2>4, SubSeqProperties
  <2>6. /\ seqs[k] \in Seq(V)
        /\ Len(seqs[k]) = IF c <= b THEN b - c + 1 ELSE 0
        /\ \A i \in 1 .. b - c + 1 : seqs[k][i] = content[c + i - 1]
    BY <2>2, <2>3, <2>5
  <2>7. (IF c <= b THEN b - c + 1 ELSE 0) = b - a /\ b - c + 1 = b - a
    BY <2>1, <2>3
  <2>8. \A i \in 1 .. b - a : seqs[k][i] = content[a + i]
    <3>1. SUFFICES ASSUME NEW i \in 1 .. b - a PROVE seqs[k][i] = content[a + i]
      OBVIOUS
    <3>2. c + i - 1 = a + i
      BY <2>3
    <3>3. QED
      BY <2>6, <2>7, <3>2
  <2>9. QED
    BY <2>1, <2>6, <2>7, <2>8
<1>9. seqs \in [1 .. K -> Seq(V)] /\ Len(seqs) = K
  BY <1>3, <1>5, <1>8
<1>10. PICK counts : counts = Lengths(seqs)
  OBVIOUS
<1>11. counts \in [1 .. K -> Nat] /\ \A k \in 1 .. K : counts[k] = Len(seqs[k])
  BY <1>9, <1>10, LenProperties DEF Lengths
<1>12. PICK ends \in [0 .. K -> Nat] : ends = EndsOf(counts) /\ EndsAt(ends, counts, K)
  BY <1>3, <1>11, EndsOfIs
<1>13. \A k \in 0 .. K : ends[k] = Upto(k)
  <2> DEFINE S == {k \in 0 .. K : ends[k] = Upto(k)}
  <2>1. 0 \in S
    BY <1>3, <1>4, <1>12, Times DEF EndsAt
  <2>2. ASSUME NEW k \in 1 .. K, k - 1 \in S PROVE k \in S
    <3>1. ends[k] = ends[k - 1] + counts[k]
      BY <1>12 DEF EndsAt
    <3>2. counts[k] = Upto(k) - Upto(k - 1) /\ ends[k - 1] = Upto(k - 1)
      BY <1>8, <1>11, <2>2
    <3>3. QED
      BY <1>7, <3>1, <3>2
  <2> HIDE DEF S
  <2>3. \A k \in 0 .. K : k \in S
    BY <1>3, <2>1, <2>2, UpTo
  <2>4. QED
    BY <2>3 DEF S
<1>14. PICK q : q = FlattenSeq(seqs)
  OBVIOUS
<1>15. q \in Seq(V) /\ FlatOf(q, seqs, ends, K)
  BY <1>3, <1>9, <1>10, <1>12, <1>14, FlattenIs
<1>16. ends[K] = L
  BY <1>3, <1>4, <1>13
<1>17. Len(q) = L
  BY <1>15, <1>16 DEF FlatOf
<1>18. ASSUME NEW i \in 1 .. L PROVE q[i] = content[i]
  <2>1. ends[0] = 0
    BY <1>12 DEF EndsAt
  <2>2. PICK k \in 1 .. K : ends[k - 1] < i /\ i <= ends[k]
    BY <1>3, <1>12, <1>16, <2>1, EndsCover
  <2>3. PICK a \in Nat, b \in Nat : a = Upto(k - 1) /\ b = Upto(k)
    BY <1>7
  <2>4. ends[k - 1] = a /\ ends[k] = b
    BY <1>3, <1>13, <2>3
  <2>5. PICK j \in 1 .. b - a : j = i - a /\ a + j = i
    BY <2>2, <2>4
  <2>6. j \in 1 .. Len(seqs[k]) /\ seqs[k][j] = content[a + j]
    BY <1>8, <2>3
  <2>7. q[ends[k - 1] + j] = seqs[k][j]
    BY <1>15, <2>6 DEF FlatOf
  <2>8. QED
    BY <2>4, <2>5, <2>6, <2>7
<1>19. q = content
  BY <1>1, <1>15, <1>17, <1>18, SeqEqual
<1>20. QED
  BY <1>6, <1>14, <1>19

----------------------------------------------------------------------------
(* Pieces of a stream. *)

\* This much of s, from behind its a-th element.
IsPiece(q, s, a, n) == Len(q) = n /\ \A i \in 1 .. n : q[i] = s[a + i]

\* A piece, element by element.
LEMMA PieceIs ==
    ASSUME NEW V, NEW s \in Seq(V), NEW a \in Nat, NEW b \in a .. Len(s)
    PROVE  /\ SubSeq(s, a + 1, b) \in Seq(V)
           /\ IsPiece(SubSeq(s, a + 1, b), s, a, b - a)
<1>1. PICK l \in Nat : l = Len(s) /\ \A i \in 1 .. l : s[i] \in V
  BY LenProperties
<1>2. PICK c \in Nat, d \in Nat : c = a + 1 /\ d = b /\ d <= l /\ a <= d
  BY <1>1
<1>3. \A i \in c .. d : s[i] \in V
  BY <1>1, <1>2
<1>4. PICK q : q = SubSeq(s, c, d)
  OBVIOUS
<1>5. /\ q \in Seq(V) /\ Len(q) = IF c <= d THEN d - c + 1 ELSE 0
      /\ \A i \in 1 .. d - c + 1 : q[i] = s[c + i - 1]
  BY <1>3, <1>4, SubSeqProperties
<1>6. Len(q) = d - a
  BY <1>2, <1>5
<1>7. ASSUME NEW i \in 1 .. d - a PROVE q[i] = s[a + i]
  BY <1>2, <1>5
<1>8. QED
  BY <1>2, <1>4, <1>5, <1>6, <1>7 DEF IsPiece

\* Two pieces, one after the other, are one.
LEMMA PiecesJoin ==
    ASSUME NEW V, NEW s \in Seq(V), NEW a \in Nat, NEW b \in a .. Len(s), NEW c \in b .. Len(s)
    PROVE  SubSeq(s, a + 1, b) \o SubSeq(s, b + 1, c) = SubSeq(s, a + 1, c)
<1>1. PICK l \in Nat : /\ l = Len(s) /\ b \in 0 .. l /\ c \in 0 .. l
                       /\ a <= b /\ b <= c /\ b \in Nat /\ c \in Nat
  BY LenProperties
<1>2. PICK x \in Seq(V) : x = SubSeq(s, a + 1, b) /\ IsPiece(x, s, a, b - a)
  BY PieceIs
<1>3. PICK y \in Seq(V) : y = SubSeq(s, b + 1, c) /\ IsPiece(y, s, b, c - b)
  BY <1>1, PieceIs
<1>4. PICK z \in Seq(V) : z = SubSeq(s, a + 1, c) /\ IsPiece(z, s, a, c - a)
  <2>1. c \in a .. Len(s)
    BY <1>1
  <2>2. QED
    BY <2>1, PieceIs
<1>5. PICK w \in Seq(V) : w = x \o y /\ Joins(w, x, Len(x), y, Len(y))
  BY Joined
<1>6. Joins(w, x, b - a, y, c - b)
  BY <1>2, <1>3, <1>5 DEF IsPiece
<1>7. Len(w) = c - a /\ Len(z) = c - a
  BY <1>1, <1>4, <1>6 DEF Joins, IsPiece
<1>8. ASSUME NEW i \in 1 .. c - a PROVE w[i] = z[i]
  <2>1. z[i] = s[a + i]
    BY <1>4 DEF IsPiece
  <2>2. CASE i <= b - a
    BY <1>1, <1>2, <1>6, <2>1, <2>2 DEF Joins, IsPiece
  <2>3. CASE i > b - a
    <3>1. PICK j \in 1 .. c - b : (b - a) + j = i /\ b + j = a + i
      BY <1>1, <2>3
    <3>2. w[(b - a) + j] = y[j] /\ y[j] = s[b + j]
      BY <1>3, <1>6 DEF Joins, IsPiece
    <3>3. QED
      BY <2>1, <3>1, <3>2
  <2>4. QED
    BY <1>1, <2>2, <2>3
<1>9. w = z
  BY <1>7, <1>8, SeqEqual
<1>10. QED
  BY <1>2, <1>3, <1>4, <1>5, <1>9

\* A piece of what begins a stream is a piece of the stream.
LEMMA PieceOfPiece ==
    ASSUME NEW V, NEW s \in Seq(V), NEW t \in Seq(V), Len(t) <= Len(s),
           \A i \in 1 .. Len(t) : t[i] = s[i],
           NEW a \in Nat, NEW b \in a .. Len(t)
    PROVE  SubSeq(t, a + 1, b) = SubSeq(s, a + 1, b)
<1>1. PICK k \in Nat, l \in Nat : /\ k = Len(t) /\ l = Len(s) /\ k <= l
                                  /\ a \in Nat /\ b \in Nat /\ a <= b /\ b <= k
  BY LenProperties
<1>2. PICK x \in Seq(V) : x = SubSeq(t, a + 1, b) /\ IsPiece(x, t, a, b - a)
  BY PieceIs
<1>3. PICK y \in Seq(V) : y = SubSeq(s, a + 1, b) /\ IsPiece(y, s, a, b - a)
  <2>1. b \in a .. Len(s)
    BY <1>1
  <2>2. QED
    BY <2>1, PieceIs
<1>4. Len(x) = b - a /\ Len(y) = b - a
  BY <1>2, <1>3 DEF IsPiece
<1>5. ASSUME NEW i \in 1 .. b - a PROVE x[i] = y[i]
  <2>1. x[i] = t[a + i] /\ y[i] = s[a + i]
    BY <1>2, <1>3 DEF IsPiece
  <2>2. a + i \in 1 .. k
    BY <1>1
  <2>3. QED
    BY <1>1, <2>1, <2>2
<1>6. x = y
  BY <1>4, <1>5, SeqEqual
<1>7. QED
  BY <1>2, <1>3, <1>6

(* Buffers that are only extended. *)

\* The buffer has this content and, once spilled, the stream stands at its end.
Collects(b, content) ==
    /\ b \in [spilled : BOOLEAN, memory : Seq(ToSet(content)), file : Seq(ToSet(content)),
              position : Nat, length : Nat]
    /\ Content(b) = content
    /\ b.length = Len(content)
    /\ b.spilled => b.position = Len(content)
    /\ b.spilled => b.memory = <<>>
    /\ ~b.spilled => b.file = <<>>

\* What is extended has the content and the piece.
LEMMA ExtendCollects ==
    ASSUME NEW V, NEW content \in Seq(V), NEW piece \in Seq(V), NEW b, Collects(b, content)
    PROVE  Collects(Extend(b, piece), content \o piece)
<1>1. PICK m \in Nat, n \in Nat : m = Len(content) /\ n = Len(piece)
  BY LenProperties
<1>2. PICK all \in Seq(V) : all = content \o piece /\ Joins(all, content, m, piece, n)
  BY <1>1, Joined
<1>3. Len(all) = m + n
  BY <1>2 DEF Joins
<1>4. PICK U : U = ToSet(all)
  OBVIOUS
<1>5. all \in Seq(U) /\ content \in Seq(U) /\ piece \in Seq(U)
  <2>1. all \in Seq(U)
    BY <1>4, OfItsElements
  <2>2. \A i \in 1 .. m + n : all[i] \in U
    BY <1>3, <2>1, LenProperties
  <2>3. \A i \in 1 .. m : i \in 1 .. m + n
    OBVIOUS
  <2>4. \A i \in 1 .. n : m + i \in 1 .. m + n
    OBVIOUS
  <2>5. \A i \in 1 .. m : content[i] \in U
    BY <1>2, <2>2, <2>3 DEF Joins
  <2>6. \A i \in 1 .. n : piece[i] \in U
    BY <1>2, <2>2, <2>4 DEF Joins
  <2>7. content \in [1 .. m -> U] /\ piece \in [1 .. n -> U]
    BY <1>1, <2>5, <2>6, LenProperties
  <2>8. QED
    BY <2>1, <2>7
<1>6. PICK spilled, memory, disk, position, length :
        /\ spilled \in BOOLEAN /\ position \in Nat /\ length \in Nat
        /\ b = [spilled |-> spilled, memory |-> memory, file |-> disk, position |-> position,
                length |-> length]
  BY DEF Collects
<1>7. /\ length = m
      /\ spilled => disk = content /\ position = m /\ memory = <<>>
      /\ ~spilled => memory = content /\ disk = <<>>
  BY <1>1, <1>6 DEF Collects, Content
<1>8. Overwritten(content, m, piece) = all
  <2>1. /\ DOMAIN content = 1 .. m /\ DOMAIN all = 1 .. m + n
        /\ all = [i \in DOMAIN all |-> all[i]]
    BY <1>1, <1>3, LenProperties
  <2>2. (IF m + n > m THEN m + n ELSE m) = m + n
    OBVIOUS
  <2>3. ASSUME NEW i \in 1 .. m + n
        PROVE  all[i] = IF m < i /\ i <= m + n THEN piece[i - m]
                        ELSE IF i \in DOMAIN content THEN content[i] ELSE Unwritten
    BY <1>2, <2>1 DEF Joins
  <2>4. Overwritten(content, m, piece)
          = [i \in 1 .. m + n |->
               IF m < i /\ i <= m + n THEN piece[i - m]
               ELSE IF i \in DOMAIN content THEN content[i] ELSE Unwritten]
    BY <1>1, <2>2 DEF Overwritten
  <2>5. QED
    BY <2>1, <2>3, <2>4
<1>9. <<>> \in Seq(U)
  BY EmptySeq
<1>10. PICK kept : kept = [spilled |-> FALSE, memory |-> all, file |-> <<>>,
                           position |-> position, length |-> m + n]
  OBVIOUS
<1>11. PICK onDisk : onDisk = [spilled |-> TRUE, memory |-> <<>>, file |-> all,
                               position |-> m + n, length |-> m + n]
  OBVIOUS
<1>12. Extend(b, piece) = IF spilled \/ m + n > Threshold THEN onDisk ELSE kept
  <2>1. CASE spilled
    <3>1. b = [spilled |-> TRUE, memory |-> <<>>, file |-> content, position |-> m, length |-> m]
      BY <1>6, <1>7, <2>1
    <3>2. Spilled(b) = b
      BY <3>1 DEF Spilled
    <3>3. Extend(b, piece) = [b EXCEPT !.file = Overwritten(@, b.position, piece),
                                       !.position = @ + Len(piece), !.length = @ + Len(piece)]
      <4>1. (IF b.length + Len(piece) > Threshold THEN Spilled(b) ELSE b) = b /\ b.spilled
        BY <3>1, <3>2
      <4>2. QED
        BY <4>1 DEF Extend
    <3>4. QED
      BY <1>1, <1>8, <1>11, <2>1, <3>1, <3>3
  <2>2. CASE ~spilled /\ m + n > Threshold
    <3>1. b = [spilled |-> FALSE, memory |-> content, file |-> <<>>, position |-> position,
               length |-> m]
      BY <1>6, <1>7, <2>2
    <3>2. Spilled(b) = [spilled |-> TRUE, memory |-> <<>>, file |-> content, position |-> m,
                        length |-> m]
      BY <1>1, <3>1 DEF Spilled
    <3>3. PICK c : c = Spilled(b)
      OBVIOUS
    <3>4. Extend(b, piece) = [c EXCEPT !.file = Overwritten(@, c.position, piece),
                                       !.position = @ + Len(piece), !.length = @ + Len(piece)]
      <4>1. (IF b.length + Len(piece) > Threshold THEN Spilled(b) ELSE b) = c /\ c.spilled
        BY <1>1, <2>2, <3>1, <3>2, <3>3
      <4>2. QED
        BY <4>1 DEF Extend
    <3>5. c = [spilled |-> TRUE, memory |-> <<>>, file |-> content, position |-> m,
               length |-> m]
      BY <3>2, <3>3
    <3>6. QED
      BY <1>1, <1>8, <1>11, <2>2, <3>4, <3>5
  <2>3. CASE ~spilled /\ ~(m + n > Threshold)
    <3>1. b = [spilled |-> FALSE, memory |-> content, file |-> <<>>, position |-> position,
               length |-> m]
      BY <1>6, <1>7, <2>3
    <3>2. Extend(b, piece) = [b EXCEPT !.memory = @ \o piece, !.length = @ + Len(piece)]
      BY <1>1, <2>3, <3>1 DEF Extend
    <3>3. QED
      BY <1>1, <1>2, <1>10, <2>3, <3>1, <3>2
  <2>4. QED
    BY <2>1, <2>2, <2>3
<1>13. Collects(onDisk, all)
  BY <1>3, <1>4, <1>5, <1>9, <1>11 DEF Collects, Content
<1>14. Collects(kept, all)
  BY <1>3, <1>4, <1>5, <1>6, <1>9, <1>10 DEF Collects, Content
<1>15. QED
  BY <1>2, <1>12, <1>13, <1>14

\* A new buffer has nothing.
LEMMA NewBufferCollects == Collects(NewBuffer, <<>>)
BY EmptySeq DEF NewBuffer, Collects, Content

----------------------------------------------------------------------------
(* What the readers find in a stream. *)

\* The stream begins with this prefix and this header.
Begins(raw, p, h) ==
    /\ raw \in Seq(ToSet(raw)) /\ Len(raw) >= PrefixSize + HeaderSize
    /\ SectionOf(raw, 0, "prefix", p, PrefixSize)
    /\ SectionOf(raw, PrefixSize, "header", h, HeaderSize)
    /\ p.headerLength \in Nat /\ p.count \in Nat /\ h.entityUnits \in Nat

\* The first of its units.
Opens(b, k, raw) ==
    /\ b \in Seq(ToSet(raw)) /\ k \in 0 .. Len(raw) /\ Len(b) = k
    /\ \A i \in 1 .. k : b[i] = raw[i]

\* The header is as long as the prefix says and fits it.
Sound(p, h) ==
    p.headerLength = HeaderSize /\ HeaderAccepted(h, p) /\ EntityFieldsAccepted(h, p)

HeadEnd(p, h) == PrefixSize + p.headerLength + DeclaredUnits(h, p)
EntitiesAt(raw, p, h) == SubSeq(raw, PrefixSize + p.headerLength + 1, HeadEnd(p, h))

\* The units where the header is to be are a header when their number is its.
LEMMA HeaderReads ==
    ASSUME NEW raw, NEW p, NEW h, Begins(raw, p, h), NEW b, NEW k, Opens(b, k, raw),
           PrefixSize + p.headerLength <= k
    PROVE  /\ Reads("header", SubSeq(b, PrefixSize + 1, PrefixSize + p.headerLength),
                    LAMBDA x : HeaderSize) <=> p.headerLength = HeaderSize
           /\ p.headerLength = HeaderSize => HeaderOf(b) = h
<1>1. PICK P \in Nat \ {0}, H \in Nat \ {0}, l \in Nat :
        P = PrefixSize /\ H = HeaderSize /\ l = p.headerLength
  BY CodecAssumption DEF Begins
<1>2. PICK U : U = ToSet(raw)
  OBVIOUS
<1>3. b \in Seq(U) /\ Len(b) = k /\ k \in Nat /\ P + l <= k
  BY <1>1, <1>2 DEF Opens
<1>4. PICK q \in Seq(U) : q = SubSeq(b, P + 1, P + l) /\ IsPiece(q, b, P, (P + l) - P)
  <2>1. P + l \in P .. Len(b)
    BY <1>3
  <2>2. QED
    BY <1>3, <2>1, PieceIs
<1>5. (P + l) - P = l
  OBVIOUS
<1>6. Len(q) = l /\ \A i \in 1 .. l : q[i] = b[P + i]
  BY <1>4, <1>5 DEF IsPiece
<1>7. \A i \in 1 .. H : raw[P + i] = <<"header", i, h>>
  BY <1>1 DEF Begins, SectionOf
<1>8. ASSUME NEW i \in 1 .. l, i <= H PROVE q[i] = <<"header", i, h>>
  <2>1. P + i \in 1 .. k /\ i \in 1 .. H
    BY <1>3, <1>8
  <2>2. b[P + i] = raw[P + i]
    BY <2>1 DEF Opens
  <2>3. QED
    BY <1>6, <1>7, <2>1, <2>2
<1>9. PICK t : t = Section("header", h, H)
  OBVIOUS
<1>10. t \in Seq({"header"} \X Nat \X {h}) /\ Len(t) = H /\ \A i \in 1 .. H : t[i] = <<"header", i, h>>
  BY <1>9, SectionIs
<1>11. CASE l = H
  <2>1. 1 \in 1 .. l /\ 1 <= H
    BY <1>11
  <2>2. q[1] = <<"header", 1, h>> /\ q # <<>>
    BY <1>6, <1>8, <2>1, EmptySeq
  <2>3. q = t
    <3>1. DOMAIN t = 1 .. l /\ q \in [1 .. l -> U]
      BY <1>4, <1>6, <1>10, <1>11, LenProperties
    <3>2. ASSUME NEW i \in 1 .. l PROVE q[i] = t[i]
      <4>1. i \in 1 .. H /\ i <= H
        BY <1>11
      <4>2. QED
        BY <1>8, <1>10, <4>1
    <3>3. t \in Seq(U)
      <4>1. t = [i \in 1 .. l |-> t[i]]
        BY <1>10, <3>1
      <4>2. \A i \in 1 .. l : t[i] \in U
        BY <3>1, <3>2
      <4>3. t \in [1 .. l -> U]
        BY <4>1, <4>2
      <4>4. QED
        BY <4>3
    <3>4. QED
      BY <1>4, <1>6, <1>10, <1>11, <3>2, <3>3, SeqEqual
  <2>4. q[1][1] = "header" /\ q[1][3] = h
    BY <2>2
  <2>5. q = Section("header", q[1][3], HeaderSize)
    BY <1>1, <1>9, <2>3, <2>4
  <2>6. Reads("header", q, LAMBDA x : HeaderSize)
    BY <2>2, <2>4, <2>5 DEF Reads
  <2>7. b[P + 1] = q[1]
    BY <1>6, <2>1
  <2>8. HeaderOf(b) = h
    BY <1>1, <2>4, <2>7 DEF HeaderOf
  <2>9. QED
    BY <1>1, <1>4, <1>11, <2>6, <2>8
<1>12. CASE l # H
  <2>1. ASSUME Reads("header", q, LAMBDA x : HeaderSize) PROVE FALSE
    <3>1. q = Section("header", q[1][3], HeaderSize)
      BY <2>1 DEF Reads
    <3>2. PICK c : c = q[1][3]
      OBVIOUS
    <3>3. Len(Section("header", c, H)) = H
      BY SectionIs
    <3>4. QED
      BY <1>1, <1>6, <1>12, <3>1, <3>2, <3>3
  <2>2. QED
    BY <1>1, <1>4, <1>12, <2>1
<1>13. QED
  BY <1>11, <1>12

\* What a reader of the first units knows of the stream.
Knows(b, k, raw, p, h) ==
    /\ HasPrefix(b) <=> PrefixSize <= k
    /\ HasPrefix(b) => b[1][3] = p
    /\ HasHeader(b) <=> PrefixSize + p.headerLength <= k
    /\ HasHeader(b) => (HeaderSound(b) <=> Sound(p, h))
    /\ HasHeader(b) /\ Sound(p, h) => HeaderOf(b) = h
    /\ HasHead(b) <=> Sound(p, h) /\ HeadEnd(p, h) <= k
    /\ HasHead(b) => EntityEnd(b) = HeadEnd(p, h) /\ EntitiesOf(b) = EntitiesAt(raw, p, h)
    /\ Broken(b) <=> \/ PrefixSize <= k /\ ~PrefixAccepted(p)
                     \/ PrefixSize + p.headerLength <= k /\ ~Sound(p, h)
                     \/ /\ Sound(p, h) /\ HeadEnd(p, h) <= k
                        /\ ~EntitiesAccepted(EntitiesAt(raw, p, h), DeclaredCount(h, p))

\* The head ends behind the header.
LEMMA HeadEndIs ==
    ASSUME NEW raw, NEW p, NEW h, Begins(raw, p, h)
    PROVE  /\ DeclaredUnits(h, p) \in Nat
           /\ HeadEnd(p, h) \in Nat /\ PrefixSize + p.headerLength \in Nat
           /\ PrefixSize < PrefixSize + HeaderSize
           /\ PrefixSize + p.headerLength <= HeadEnd(p, h)
<1>1. DeclaredUnits(h, p) \in Nat
  BY DEF DeclaredUnits, Begins
<1>2. PICK P \in Nat \ {0}, H \in Nat \ {0}, l \in Nat, u \in Nat :
        P = PrefixSize /\ H = HeaderSize /\ l = p.headerLength /\ u = DeclaredUnits(h, p)
  BY <1>1, CodecAssumption DEF Begins
<1>3. HeadEnd(p, h) = P + l + u
  BY <1>2 DEF HeadEnd
<1>4. QED
  BY <1>2, <1>3

\* A reader of the first units finds what is in the stream.
LEMMA OpensKnows ==
    ASSUME NEW raw, NEW p, NEW h, Begins(raw, p, h), NEW b, NEW k, Opens(b, k, raw)
    PROVE  Knows(b, k, raw, p, h)
<1>1. PICK P \in Nat \ {0}, H \in Nat \ {0}, l \in Nat :
        P = PrefixSize /\ H = HeaderSize /\ l = p.headerLength
  BY CodecAssumption DEF Begins
<1>2. Len(b) = k /\ k \in Nat /\ k <= Len(raw)
  BY LenProperties DEF Begins, Opens
<1>3. HasPrefix(b) <=> P <= k
  BY <1>1, <1>2 DEF HasPrefix
<1>4. HasPrefix(b) => b[1][3] = p
  <2>1. SUFFICES ASSUME P <= k PROVE b[1][3] = p
    BY <1>3
  <2>2. 1 \in 1 .. k /\ 1 \in 1 .. P /\ 0 + 1 = 1
    BY <1>1, <1>2, <2>1
  <2>3. raw[1] = <<"prefix", 1, p>>
    BY <1>1, <2>2 DEF Begins, SectionOf
  <2>4. b[1] = raw[1]
    BY <2>2 DEF Opens
  <2>5. QED
    BY <2>3, <2>4
<1>5. HasPrefix(b) => HeaderEnd(b) = P + l
  BY <1>1, <1>4 DEF HeaderEnd
<1>6. HasHeader(b) <=> P + l <= k
  BY <1>1, <1>2, <1>3, <1>5 DEF HasHeader
<1>7. HasHeader(b) => HasPrefix(b)
  BY DEF HasHeader
<1>8. HasHeader(b) =>
        /\ Reads("header", SubSeq(b, P + 1, HeaderEnd(b)), LAMBDA x : HeaderSize) <=> l = H
        /\ l = H => HeaderOf(b) = h
  BY <1>1, <1>5, <1>6, <1>7, HeaderReads
<1>9. HasHeader(b) => (HeaderSound(b) <=> Sound(p, h))
  BY <1>1, <1>4, <1>7, <1>8 DEF HeaderSound, Sound
<1>10. HasHeader(b) /\ Sound(p, h) => HeaderOf(b) = h
  BY <1>1, <1>8 DEF Sound
<1>11. HasHeader(b) /\ Sound(p, h) => EntityEnd(b) = HeadEnd(p, h)
  BY <1>1, <1>4, <1>5, <1>7, <1>10 DEF EntityEnd, HeadEnd
<1>12. HeadEnd(p, h) \in Nat /\ P + l <= HeadEnd(p, h)
  BY <1>1, HeadEndIs
<1>13. HasHead(b) <=> Sound(p, h) /\ HeadEnd(p, h) <= k
  BY <1>2, <1>6, <1>9, <1>11, <1>12 DEF HasHead
<1>14. HasHead(b) => EntityEnd(b) = HeadEnd(p, h) /\ EntitiesOf(b) = EntitiesAt(raw, p, h)
  <2>1. SUFFICES ASSUME HasHead(b)
                 PROVE  EntityEnd(b) = HeadEnd(p, h) /\ EntitiesOf(b) = EntitiesAt(raw, p, h)
    OBVIOUS
  <2>2. HasHeader(b) /\ Sound(p, h) /\ HeadEnd(p, h) <= k
    BY <1>13, <2>1 DEF HasHead
  <2>3. PICK e \in Nat, o \in Nat : e = HeadEnd(p, h) /\ o = P + l /\ o <= e /\ e <= k
    BY <1>12, <2>2
  <2>4. EntityEnd(b) = e /\ HeaderEnd(b) = o
    BY <1>5, <1>7, <1>11, <2>2, <2>3
  <2>5. SubSeq(b, o + 1, e) = SubSeq(raw, o + 1, e)
    BY <1>2, <2>3, PieceOfPiece DEF Begins, Opens
  <2>6. QED
    BY <1>1, <2>3, <2>4, <2>5 DEF EntitiesOf, EntitiesAt
<1>16. Broken(b) <=> \/ PrefixSize <= k /\ ~PrefixAccepted(p)
                     \/ PrefixSize + p.headerLength <= k /\ ~Sound(p, h)
                     \/ /\ Sound(p, h) /\ HeadEnd(p, h) <= k
                        /\ ~EntitiesAccepted(EntitiesAt(raw, p, h), DeclaredCount(h, p))
  <2>1. (HasPrefix(b) /\ ~PrefixAccepted(b[1][3])) <=> (PrefixSize <= k /\ ~PrefixAccepted(p))
    BY <1>1, <1>3, <1>4
  <2>2. (HasHeader(b) /\ ~HeaderSound(b)) <=> (PrefixSize + p.headerLength <= k /\ ~Sound(p, h))
    BY <1>1, <1>6, <1>9
  <2>3. HasHead(b) => HeaderOf(b) = h /\ b[1][3] = p
    BY <1>4, <1>7, <1>10, <1>13 DEF HasHead
  <2>4. (HasHead(b) /\ ~EntitiesAccepted(EntitiesOf(b), DeclaredCount(HeaderOf(b), b[1][3])))
          <=> (/\ Sound(p, h) /\ HeadEnd(p, h) <= k
               /\ ~EntitiesAccepted(EntitiesAt(raw, p, h), DeclaredCount(h, p)))
    BY <1>13, <1>14, <2>3
  <2>5. QED
    BY <2>1, <2>2, <2>4 DEF Broken
<1>17. QED
  BY <1>1, <1>3, <1>4, <1>6, <1>9, <1>10, <1>13, <1>14, <1>16 DEF Knows

\* The stream is accepted.
Accepts(f, p, h) ==
    /\ f.intact /\ f.complete
    /\ PrefixAccepted(p) /\ Sound(p, h)
    /\ HeadEnd(p, h) <= Len(f.stream)
    /\ EntitiesAccepted(EntitiesAt(f.stream, p, h), DeclaredCount(h, p))
    /\ Len(f.stream) - HeadEnd(p, h) = p.count * RecordSize

Contents(f, p, h) ==
    Decoded(h, EntitiesIn(EntitiesAt(f.stream, p, h)),
            SubSeq(f.stream, HeadEnd(p, h) + 1, Len(f.stream)))

\* decode_schematic, of a stream that begins with a prefix and a header.
LEMMA DecodeWholeIs ==
    ASSUME NEW f, NEW p, NEW h, Begins(f.stream, p, h)
    PROVE  DecodeWhole(f) = IF Accepts(f, p, h) THEN Contents(f, p, h) ELSE Refused
<1>1. PICK P \in Nat \ {0}, H \in Nat \ {0}, l \in Nat :
        P = PrefixSize /\ H = HeaderSize /\ l = p.headerLength
  BY CodecAssumption DEF Begins
<1>2. PICK raw, n : /\ raw = f.stream /\ n \in Nat /\ n = Len(raw) /\ Begins(raw, p, h)
                    /\ P + H <= n
  BY <1>1, LenProperties DEF Begins
<1>3. raw[1][3] = p /\ raw[P + 1][3] = h
  BY <1>1, <1>2 DEF Begins, SectionOf
<1>4. Opens(raw, n, raw)
  BY <1>2 DEF Begins, Opens
<1>5. P + l <= n =>
        (Reads("header", SubSeq(raw, P + 1, P + l), LAMBDA x : HeaderSize) <=> l = H)
  BY <1>1, <1>2, <1>4, HeaderReads
<1>6. HeadEnd(p, h) \in Nat /\ P + l <= HeadEnd(p, h)
  BY <1>1, <1>2, HeadEndIs
<1>7. HeadEnd(p, h) = P + l + DeclaredUnits(h, p)
  BY <1>1 DEF HeadEnd
<1>8. EntitiesAt(raw, p, h) = SubSeq(raw, P + l + 1, P + l + DeclaredUnits(h, p))
  BY <1>1, <1>7 DEF EntitiesAt
<1> DEFINE Passes ==
        /\ f.intact
        /\ f.complete
        /\ n >= P /\ PrefixAccepted(p)
        /\ n >= P + l
        /\ Reads("header", SubSeq(raw, P + 1, P + l), LAMBDA x : HeaderSize)
        /\ EntityFieldsAccepted(h, p)
        /\ n >= HeadEnd(p, h)
        /\ EntitiesAccepted(EntitiesAt(raw, p, h), DeclaredCount(h, p))
        /\ n - HeadEnd(p, h) = p.count * RecordSize
        /\ HeaderAccepted(h, p)
<1>9. DecodeWhole(f) = IF Passes THEN Contents(f, p, h) ELSE Refused
  BY <1>1, <1>2, <1>3, <1>7, <1>8 DEF DecodeWhole, Contents
<1>10. Passes <=> Accepts(f, p, h)
  BY <1>1, <1>2, <1>5, <1>6 DEF Accepts, Sound
<1> HIDE DEF Passes
<1>11. QED
  BY <1>9, <1>10

----------------------------------------------------------------------------
(* The decoder that reads the stream in pieces. *)

\* Something before the records is wrong.
Fails(raw, p, h) ==
    \/ ~PrefixAccepted(p)
    \/ PrefixSize + p.headerLength <= Len(raw) /\ ~Sound(p, h)
    \/ /\ Sound(p, h) /\ HeadEnd(p, h) <= Len(raw)
       /\ ~EntitiesAccepted(EntitiesAt(raw, p, h), DeclaredCount(h, p))

HasFailed(raw, p, h, d, k) ==
    /\ d = [buffer |-> d.buffer, failed |-> TRUE, head |-> <<>>, records |-> NewBuffer]
    /\ Len(d.buffer) \in 0 .. k /\ Fails(raw, p, h)

\* It has kept what it read, which is not a whole head yet.
Waits(raw, d, k) ==
    /\ d = [buffer |-> SubSeq(raw, 1, k), failed |-> FALSE, head |-> <<>>, records |-> NewBuffer]
    /\ ~Broken(SubSeq(raw, 1, k)) /\ ~HasHead(SubSeq(raw, 1, k))

\* It has the head of the stream and what follows it so far.
HasParsed(raw, p, h, d, k) ==
    /\ d = [buffer |-> <<>>, failed |-> FALSE,
            head |-> <<h, EntitiesIn(EntitiesAt(raw, p, h)), p.count>>, records |-> d.records]
    /\ PrefixAccepted(p) /\ Sound(p, h) /\ HeadEnd(p, h) <= k
    /\ EntitiesAccepted(EntitiesAt(raw, p, h), DeclaredCount(h, p))
    /\ Collects(d.records, SubSeq(raw, HeadEnd(p, h) + 1, k))

Streams(raw, p, h, d, k) ==
    /\ k \in 0 .. Len(raw)
    /\ HasFailed(raw, p, h, d, k) \/ Waits(raw, d, k) \/ HasParsed(raw, p, h, d, k)

\* The first units of a stream.
LEMMA FirstUnits ==
    ASSUME NEW raw, raw \in Seq(ToSet(raw)), NEW k \in 0 .. Len(raw)
    PROVE  Opens(SubSeq(raw, 1, k), k, raw)
<1>1. PICK U, n : U = ToSet(raw) /\ n = Len(raw)
  OBVIOUS
<1>2. n \in Nat /\ k \in Nat /\ k <= n /\ k - 0 = k /\ 0 + 1 = 1
  BY <1>1, LenProperties
<1>3. PICK b \in Seq(U) : b = SubSeq(raw, 0 + 1, k) /\ IsPiece(b, raw, 0, k - 0)
  BY <1>1, PieceIs
<1>4. Len(b) = k /\ \A i \in 1 .. k : b[i] = raw[i]
  BY <1>2, <1>3 DEF IsPiece
<1>5. Opens(b, k, raw)
  BY <1>1, <1>3, <1>4 DEF Opens
<1>6. QED
  BY <1>2, <1>3, <1>5

\* Before the first piece.
LEMMA NewDecoderStreams ==
    ASSUME NEW raw, NEW p, NEW h, Begins(raw, p, h)
    PROVE  Streams(raw, p, h, NewDecoder, 0)
<1>1. 0 \in 0 .. Len(raw)
  BY LenProperties DEF Begins
<1>2. PICK b : b = SubSeq(raw, 1, 0)
  OBVIOUS
<1>3. b = <<>>
  BY <1>2, SubSeqEmpty
<1>4. Opens(b, 0, raw)
  BY <1>1, <1>2, FirstUnits DEF Begins
<1>5. Knows(b, 0, raw, p, h)
  BY <1>4, OpensKnows
<1>6. PICK P \in Nat \ {0}, l \in Nat, e \in Nat :
        P = PrefixSize /\ l = p.headerLength /\ e = HeadEnd(p, h) /\ P + l <= e
  BY CodecAssumption, HeadEndIs DEF Begins
<1>7. ~(P <= 0) /\ ~(P + l <= 0) /\ ~(e <= 0)
  BY <1>6
<1>8. ~Broken(b) /\ ~HasHead(b)
  BY <1>5, <1>6, <1>7 DEF Knows
<1>9. NewDecoder = [buffer |-> b, failed |-> FALSE, head |-> <<>>, records |-> NewBuffer]
  BY <1>3 DEF NewDecoder
<1>10. QED
  BY <1>1, <1>2, <1>8, <1>9 DEF Streams, Waits

\* A piece more.
LEMMA ConsumedStreams ==
    ASSUME NEW raw, NEW p, NEW h, Begins(raw, p, h), NEW d, NEW k, Streams(raw, p, h, d, k),
           ~d.failed, NEW m \in k .. Len(raw)
    PROVE  Streams(raw, p, h, Consumed(d, SubSeq(raw, k + 1, m)), m)
<1>1. PICK U, n : U = ToSet(raw) /\ n = Len(raw)
  OBVIOUS
<1>2. raw \in Seq(U) /\ n \in Nat /\ k \in 0 .. n /\ k \in Nat /\ m \in 0 .. n /\ m \in Nat /\ k <= m
  BY <1>1, LenProperties DEF Begins, Streams
<1>3. PICK piece \in Seq(U) : piece = SubSeq(raw, k + 1, m)
  BY <1>1, <1>2, PieceIs
<1>4. PICK e \in Nat : e = HeadEnd(p, h) /\ PrefixSize + p.headerLength <= e /\ PrefixSize <= e
  <2>1. PICK P \in Nat, l \in Nat, e \in Nat :
          P = PrefixSize /\ l = p.headerLength /\ e = HeadEnd(p, h) /\ P + l <= e
    BY CodecAssumption, HeadEndIs DEF Begins
  <2>2. QED
    BY <2>1
<1>5. CASE HasParsed(raw, p, h, d, k)
  <2>1. PICK records : records = d.records
    OBVIOUS
  <2>2. /\ d = [buffer |-> <<>>, failed |-> FALSE,
                head |-> <<h, EntitiesIn(EntitiesAt(raw, p, h)), p.count>>, records |-> records]
        /\ e <= k /\ Collects(records, SubSeq(raw, e + 1, k))
    BY <1>4, <1>5, <2>1 DEF HasParsed
  <2>3. d.head # <<>>
    BY <2>2
  <2>4. Consumed(d, piece) = [d EXCEPT !.records = Extend(@, piece)]
    BY <2>3 DEF Consumed
  <2>5. Consumed(d, piece)
          = [buffer |-> <<>>, failed |-> FALSE,
             head |-> <<h, EntitiesIn(EntitiesAt(raw, p, h)), p.count>>,
             records |-> Extend(records, piece)]
    BY <2>2, <2>4
  <2>6. SubSeq(raw, e + 1, k) \in Seq(U)
    BY <1>1, <1>2, <2>2, PieceIs
  <2>7. SubSeq(raw, e + 1, k) \o piece = SubSeq(raw, e + 1, m)
    BY <1>1, <1>2, <1>3, <2>2, PiecesJoin
  <2>8. Collects(Extend(records, piece), SubSeq(raw, e + 1, m))
    BY <2>2, <2>6, <2>7, ExtendCollects
  <2>9. e <= m
    BY <1>2, <2>2
  <2>10. HasParsed(raw, p, h, Consumed(d, piece), m)
    BY <1>4, <1>5, <2>5, <2>8, <2>9 DEF HasParsed
  <2>11. QED
    BY <1>1, <1>2, <1>3, <2>10 DEF Streams
<1>6. CASE Waits(raw, d, k)
  <2>1. PICK b \in Seq(U) : b = SubSeq(raw, 1, m) /\ Opens(b, m, raw)
    BY <1>1, <1>2, FirstUnits DEF Opens
  <2>2. d = [buffer |-> SubSeq(raw, 1, k), failed |-> FALSE, head |-> <<>>, records |-> NewBuffer]
    BY <1>6 DEF Waits
  <2>3. d.buffer \o piece = b
    <3>1. SubSeq(raw, 0 + 1, k) \o SubSeq(raw, k + 1, m) = SubSeq(raw, 0 + 1, m) /\ 0 + 1 = 1
      BY <1>1, <1>2, PiecesJoin
    <3>2. QED
      BY <1>3, <2>1, <2>2, <3>1
  <2>4. d.head = <<>>
    BY <2>2
  <2>5. Knows(b, m, raw, p, h)
    BY <2>1, OpensKnows
  <2>6. CASE Broken(b)
    <3>1. Consumed(d, piece) = [d EXCEPT !.failed = TRUE]
      BY <2>3, <2>4, <2>6 DEF Consumed
    <3>2. Consumed(d, piece) =
            [buffer |-> SubSeq(raw, 1, k), failed |-> TRUE, head |-> <<>>, records |-> NewBuffer]
      BY <2>2, <3>1
    <3>3. Len(SubSeq(raw, 1, k)) = k
      BY <1>1, <1>2, FirstUnits DEF Opens
    <3>4. Fails(raw, p, h)
      BY <1>1, <1>2, <1>4, <2>5, <2>6, HeadEndIs DEF Knows, Fails
    <3>5. k \in 0 .. m
      BY <1>2
    <3>6. HasFailed(raw, p, h, Consumed(d, piece), m)
      BY <3>2, <3>3, <3>4, <3>5 DEF HasFailed
    <3>7. QED
      BY <1>1, <1>2, <1>3, <3>6 DEF Streams
  <2>7. CASE ~Broken(b) /\ HasHead(b)
    <3>1. Consumed(d, piece) = [d EXCEPT !.buffer = <<>>, !.head = HeadOf(b), !.records = Trailing(b)]
      BY <2>3, <2>4, <2>7 DEF Consumed
    <3>2. Sound(p, h) /\ e <= m /\ EntityEnd(b) = e /\ EntitiesOf(b) = EntitiesAt(raw, p, h)
      BY <1>4, <2>5, <2>7 DEF Knows
    <3>3. HasHeader(b) /\ HasPrefix(b)
      BY <2>7 DEF HasHead, HasHeader
    <3>4. HeaderOf(b) = h /\ b[1][3] = p /\ PrefixSize <= m
      BY <2>5, <3>2, <3>3 DEF Knows
    <3>5. PrefixAccepted(p) /\ EntitiesAccepted(EntitiesAt(raw, p, h), DeclaredCount(h, p))
      BY <1>4, <2>5, <2>7, <3>2, <3>4 DEF Knows
    <3>6. HeadOf(b) = <<h, EntitiesIn(EntitiesAt(raw, p, h)), p.count>>
      BY <3>2, <3>4 DEF HeadOf
    <3>7. Len(b) = m /\ \A i \in 1 .. m : b[i] = raw[i]
      BY <2>1 DEF Opens
    <3>8. SubSeq(b, e + 1, m) = SubSeq(raw, e + 1, m)
      BY <1>1, <1>2, <3>2, <3>7, PieceOfPiece
    <3>9. PICK rest \in Seq(U) : rest = SubSeq(raw, e + 1, m)
      <4>1. m \in e .. Len(raw)
        BY <1>1, <1>2, <3>2
      <4>2. SubSeq(raw, e + 1, m) \in Seq(U)
        BY <1>2, <4>1, PieceIs
      <4>3. QED
        BY <4>2
    <3>10. Trailing(b) = Extend(NewBuffer, rest)
      BY <3>2, <3>7, <3>8, <3>9 DEF Trailing
    <3>11. Collects(Trailing(b), rest)
      <4>1. <<>> \in Seq(U) /\ <<>> \o rest = rest
        BY EmptySeq, ConcatEmptySeq
      <4>2. Collects(Extend(NewBuffer, rest), <<>> \o rest)
        BY <4>1, NewBufferCollects, ExtendCollects
      <4>3. QED
        BY <3>10, <4>1, <4>2
    <3>12. Consumed(d, piece)
             = [buffer |-> <<>>, failed |-> FALSE,
                head |-> <<h, EntitiesIn(EntitiesAt(raw, p, h)), p.count>>, records |-> Trailing(b)]
      BY <2>2, <3>1, <3>6
    <3>13. HasParsed(raw, p, h, Consumed(d, piece), m)
      BY <1>4, <3>2, <3>5, <3>9, <3>11, <3>12 DEF HasParsed
    <3>14. QED
      BY <1>1, <1>2, <1>3, <3>13 DEF Streams
  <2>8. CASE ~Broken(b) /\ ~HasHead(b)
    <3>1. Consumed(d, piece) = [d EXCEPT !.buffer = b]
      BY <2>3, <2>4, <2>8 DEF Consumed
    <3>2. Consumed(d, piece) = [buffer |-> b, failed |-> FALSE, head |-> <<>>, records |-> NewBuffer]
      BY <2>2, <3>1
    <3>3. Waits(raw, Consumed(d, piece), m)
      BY <2>1, <2>8, <3>2 DEF Waits
    <3>4. QED
      BY <1>1, <1>2, <1>3, <3>3 DEF Streams
  <2>9. QED
    BY <2>6, <2>7, <2>8
<1>7. ~HasFailed(raw, p, h, d, k)
  BY DEF HasFailed
<1>8. QED
  BY <1>5, <1>6, <1>7 DEF Streams

\* What has failed is refused by a reader of the whole stream too.
LEMMA FailsIsRefused ==
    ASSUME NEW f, NEW p, NEW h, Begins(f.stream, p, h), Fails(f.stream, p, h)
    PROVE  DecodeWhole(f) = Refused
<1>1. ~Accepts(f, p, h)
  <2>1. SUFFICES ASSUME Accepts(f, p, h) PROVE FALSE
    OBVIOUS
  <2>2. QED
    BY <2>1 DEF Accepts, Fails
<1>2. QED
  BY <1>1, DecodeWholeIs

\* At the end of the stream, or once it has failed, the decoder has what a reader of the
\* whole stream has.
LEMMA StreamedIsWhole ==
    ASSUME NEW f, NEW p, NEW h, Begins(f.stream, p, h), NEW d, NEW k,
           Streams(f.stream, p, h, d, k), d.failed \/ k = Len(f.stream)
    PROVE  Finished(f, d) = DecodeWhole(f)
<1>1. PICK raw, n : /\ raw = f.stream /\ n = Len(raw) /\ n \in Nat
                    /\ Begins(raw, p, h) /\ Streams(raw, p, h, d, k)
  BY LenProperties DEF Begins
<1>2. CASE HasFailed(raw, p, h, d, k)
  <2>1. d.failed = TRUE /\ Fails(raw, p, h)
    BY <1>2 DEF HasFailed
  <2>2. Finished(f, d) = Refused
    BY <2>1 DEF Finished
  <2>3. QED
    BY <1>1, <2>1, <2>2, FailsIsRefused
<1>3. CASE Waits(raw, d, k)
  <2>1. d.failed = FALSE /\ d.head = <<>>
    BY <1>3 DEF Waits
  <2>2. Finished(f, d) = Refused
    BY <2>1 DEF Finished
  <2>3. k = n
    BY <1>1, <2>1
  <2>4. PICK b : b = SubSeq(raw, 1, n)
    OBVIOUS
  <2>5. Knows(b, n, raw, p, h)
    BY <1>1, <2>4, FirstUnits, OpensKnows DEF Begins
  <2>6. ~HasHead(b)
    BY <1>3, <2>3, <2>4 DEF Waits
  <2>7. ~Accepts(f, p, h)
    BY <1>1, <2>5, <2>6 DEF Knows, Accepts
  <2>8. QED
    BY <2>2, <2>7, DecodeWholeIs
<1>4. CASE HasParsed(raw, p, h, d, k)
  <2>1. PICK records : records = d.records
    OBVIOUS
  <2>2. /\ d = [buffer |-> <<>>, failed |-> FALSE,
                head |-> <<h, EntitiesIn(EntitiesAt(raw, p, h)), p.count>>, records |-> records]
        /\ Collects(records, SubSeq(raw, HeadEnd(p, h) + 1, k))
        /\ PrefixAccepted(p) /\ Sound(p, h) /\ HeadEnd(p, h) <= k
        /\ EntitiesAccepted(EntitiesAt(raw, p, h), DeclaredCount(h, p))
    BY <1>4, <2>1 DEF HasParsed
  <2>3. k = n
    BY <1>1, <2>2
  <2>4. PICK e \in Nat, count \in Nat : e = HeadEnd(p, h) /\ count = p.count
    BY HeadEndIs DEF Begins
  <2>5. PICK content : content = SubSeq(raw, e + 1, n)
    OBVIOUS
  <2>6. content \in Seq(ToSet(raw)) /\ Len(content) = n - e
    BY <1>1, <2>2, <2>3, <2>4, <2>5, PieceIs DEF Begins, IsPiece
  <2>7. records.length = n - e /\ Content(records) = content
    BY <2>2, <2>3, <2>4, <2>5, <2>6 DEF Collects
  <2>8. Accepts(f, p, h) <=> f.intact /\ f.complete /\ n - e = count * RecordSize
    BY <1>1, <2>2, <2>3, <2>4 DEF Accepts
  <2>9. d.failed = FALSE /\ d.head # <<>> /\ d.head[1] = h
        /\ d.head[2] = EntitiesIn(EntitiesAt(raw, p, h)) /\ d.head[3] = count
    BY <2>2, <2>4
  <2>10. CASE Accepts(f, p, h)
    <3>1. PICK source : source = Freeze(records)
      OBVIOUS
    <3>2. source.content = content /\ source.length = n - e
      BY <2>7, <3>1 DEF Freeze, Content
    <3>3. n - e = count * RecordSize
      BY <2>8, <2>10
    <3>4. ReadThrough(source) = content
      BY <2>6, <3>2, <3>3, ReadThroughIs
    <3>5. Finished(f, d) = Decoded(h, EntitiesIn(EntitiesAt(raw, p, h)), content)
      BY <2>1, <2>2, <2>7, <2>8, <2>9, <2>10, <3>1, <3>4 DEF Finished
    <3>6. Contents(f, p, h) = Decoded(h, EntitiesIn(EntitiesAt(raw, p, h)), content)
      BY <1>1, <2>4, <2>5 DEF Contents
    <3>7. QED
      BY <2>10, <3>5, <3>6, DecodeWholeIs
  <2>11. CASE ~Accepts(f, p, h)
    BY <2>1, <2>7, <2>8, <2>9, <2>11, DecodeWholeIs DEF Finished
  <2>12. QED
    BY <2>10, <2>11
<1>5. QED
  BY <1>1, <1>2, <1>3, <1>4 DEF Streams

----------------------------------------------------------------------------
(* What was saved, and the payloads made of it. *)

\* A schematic as a scan leaves it.
SavedOk(s) ==
    /\ s = [size |-> s.size, palette |-> s.palette, fullVolume |-> s.fullVolume,
            records |-> s.records, entities |-> s.entities]
    /\ s.size \in Sizes /\ s.fullVolume \in BOOLEAN /\ InBox(s.records, s.size)
    /\ IsFiniteSet(DOMAIN s.entities)
    /\ s.entities = [x \in DOMAIN s.entities |-> s.entities[x]]

\* A box has finitely many places.
LEMMA BoxIsFinite ==
    ASSUME NEW size \in Sizes3
    PROVE  IsFiniteSet(Box(size))
<1>1. <<0, 0, 0>> \in Triples
  BY DEF Triples
<1>2. PICK order \in Seq(Triples) : Lists(order, Box(size))
  BY <1>1, ScanOrderLists
<1>3. PICK n \in Nat : n = Len(order) /\ DOMAIN order = 1 .. n /\ order \in [1 .. n -> Triples]
  BY LenProperties
<1>4. /\ \A i \in 1 .. n : order[i] \in Box(size)
      /\ \A d \in Box(size) : \E i \in 1 .. n : order[i] = d
  BY <1>2, <1>3 DEF Lists
<1>5. order \in [1 .. n -> Box(size)]
  BY <1>3, <1>4
<1>6. order \in Surjection(1 .. n, Box(size))
  BY <1>4, <1>5 DEF Surjection
<1>7. ExistsSurjection(1 .. n, Box(size))
  BY <1>6 DEF ExistsSurjection
<1>8. QED
  BY <1>7, FS_NatSurjection

\* What a scan stores is such a schematic.
LEMMA ScannedOk ==
    ASSUME NEW s, IsScanned(s)
    PROVE  SavedOk(s)
<1>1. PICK size, low, palette, fullVolume, stray, kept :
        /\ fullVolume \in BOOLEAN /\ size \in Sizes /\ low \in Lows
        /\ stray \in Strays /\ kept \in SUBSET Box(size)
        /\ s = Scanned(size, low, kept, palette, fullVolume, stray)
  BY DEF IsScanned
<1>2. s.size = size /\ InBox(s.records, size)
  BY <1>1, ScannedIs
<1>3. PICK D : D = {q \in kept : BlockOf(q) \in WithEntity} \cup stray
  OBVIOUS
<1>4. s.entities = [p \in D |-> EntityAt(p)]
  BY <1>1, <1>3 DEF Scanned
<1>5. IsFiniteSet(D)
  BY <1>1, <1>3, PlannerAssumption, BoxIsFinite, FS_Subset, FS_Union DEF Sizes3
<1>6. PICK e : e = [p \in D |-> EntityAt(p)]
  OBVIOUS
<1>7. DOMAIN e = D /\ e = [x \in DOMAIN e |-> e[x]]
  BY <1>6
<1>8. s = [size |-> s.size, palette |-> s.palette, fullVolume |-> s.fullVolume,
           records |-> s.records, entities |-> s.entities]
  BY <1>1 DEF Scanned
<1>9. s.entities = e /\ s.fullVolume \in BOOLEAN
  BY <1>1, <1>4, <1>6 DEF Scanned
<1>10. QED
  BY <1>1, <1>2, <1>5, <1>7, <1>8, <1>9 DEF SavedOk

\* The units of entities.
LEMMA EntityUnitsIs ==
    ASSUME NEW e, IsFiniteSet(DOMAIN e), e = [x \in DOMAIN e |-> e[x]]
    PROVE  /\ EntityUnits(e) \in Nat /\ Cardinality(DOMAIN e) \in Nat
           /\ EntityUnits(e) = 0 <=> e = <<>>
           /\ Cardinality(DOMAIN e) = 0 <=> e = <<>>
           /\ EntityUnits(e) # 0 => EntityUnits(e) = Cardinality(DOMAIN e) + 1
<1>1. Cardinality(DOMAIN e) \in Nat
  BY FS_CardinalityType
<1>2. DOMAIN e = {} => e = <<>>
  OBVIOUS
<1>3. e = <<>> => DOMAIN e = {}
  OBVIOUS
<1>4. Cardinality(DOMAIN e) = 0 <=> e = <<>>
  BY <1>2, <1>3, FS_EmptySet
<1>5. QED
  BY <1>1, <1>4 DEF EntityUnits

\* The sections of a payload are laid out in this order.
LEMMA PayloadIs ==
    ASSUME NEW p, NEW h, NEW e, IsFiniteSet(DOMAIN e), e = [x \in DOMAIN e |-> e[x]],
           NEW pieces, NEW V, NEW R \in Seq(V), FlattenSeq(pieces) = R
    PROVE  /\ Laid(Payload(p, h, e, pieces).stream, p, h, e, EntityUnits(e), R)
           /\ Payload(p, h, e, pieces).intact = TRUE /\ Payload(p, h, e, pieces).complete = TRUE
BY EntityUnitsIs, LaidOutStream DEF Payload

UnitsOfRecords == {"record"} \X (1 .. RecordSize) \X Quads

\* The units of what was saved.
LEMMA UnitsIs ==
    ASSUME NEW s, SavedOk(s)
    PROVE  /\ Units(s) \in Seq(UnitsOfRecords)
           /\ Len(s.records) \in Nat /\ Len(s.records) * RecordSize \in Nat
           /\ Len(Units(s)) = Len(s.records) * RecordSize
<1>1. PICK records \in Seq(Quads) : records = s.records
  BY DEF SavedOk, InBox
<1>2. PICK N, m : N = Len(records) /\ N \in Nat /\ m = N * RecordSize
  BY LenProperties
<1>3. m \in Nat
  BY <1>2, RecordStoreAssumption
<1>4. PICK f : f = Packed(records)
  OBVIOUS
<1>5. f \in [1 .. m -> UnitsOfRecords] /\ Len(f) = m
  BY <1>2, <1>4, PackedIs DEF UnitsOfRecords
<1>6. f \in Seq(UnitsOfRecords)
  BY <1>3, <1>5
<1>7. Units(s) = f
  BY <1>1, <1>4 DEF Units
<1>8. QED
  BY <1>1, <1>2, <1>3, <1>5, <1>6, <1>7

\* encode_schematic_to_file writes the records whole, in whatever pieces.
LEMMA EncodedIs ==
    ASSUME NEW s, SavedOk(s)
    PROVE  \E pieces :
             /\ FlattenSeq(pieces) = Units(s)
             /\ Encoded(s, Source(s))
                  = Payload(Prefix(Len(s.records)), Header(s, Len(s.records)), s.entities, pieces)
<1>1. PICK units \in Seq(UnitsOfRecords) : units = Units(s) /\ Len(units) = Len(s.records) * RecordSize
  BY UnitsIs
<1>2. PICK N \in Nat : N = Len(s.records)
  BY UnitsIs
<1>3. PICK b : b = Extend(NewBuffer, units)
  OBVIOUS
<1>4. Collects(b, units)
  <2>1. <<>> \in Seq(UnitsOfRecords) /\ <<>> \o units = units
    BY EmptySeq, ConcatEmptySeq
  <2>2. Collects(Extend(NewBuffer, units), <<>> \o units)
    BY <2>1, NewBufferCollects, ExtendCollects
  <2>3. QED
    BY <1>3, <2>1, <2>2
<1>5. PICK source : source = Source(s)
  OBVIOUS
<1>6. source = Freeze(b)
  BY <1>1, <1>3, <1>5 DEF Source, Units
<1>7. source.content = units /\ source.length = Len(units)
  BY <1>4, <1>6 DEF Freeze, Collects, Content
<1>8. PICK pieces : pieces = ChunksOf(source, ChunkSize)
  OBVIOUS
<1>9. FlattenSeq(pieces) = units
  BY <1>7, <1>8, CodecAssumption, FlattenPieces
<1>10. RecordCount(source) = N
  BY <1>1, <1>2, <1>7, RecordsCount DEF RecordCount
<1>11. Encoded(s, source) = Payload(Prefix(N), Header(s, N), s.entities, pieces)
  BY <1>8, <1>10 DEF Encoded
<1>12. QED
  BY <1>1, <1>2, <1>5, <1>9, <1>11

----------------------------------------------------------------------------
(* The payload of every damage. *)

\* The prefix, by what is wrong.
PrefixFor(s, kind) ==
    [magic |-> kind # "magic",
     version |-> IF kind = "version" THEN FormatVersion + 1
                 ELSE IF kind \in {"legacyPrefix", "legacy"} THEN LegacyFormatVersion
                 ELSE FormatVersion,
     headerLength |-> IF kind = "headerLong" THEN HeaderSize + 1
                      ELSE IF kind = "headerShort" THEN HeaderSize - 1 ELSE HeaderSize,
     count |-> IF kind = "fewer" THEN Len(s.records) - 1 ELSE Len(s.records)]

\* The units that the header claims for the entities.
ClaimedUnits(u, kind) ==
    IF kind = "entitiesLong" THEN u + 1
    ELSE IF kind = "entitiesShort" THEN (IF u = 0 THEN MaxEntityUnits + 1 ELSE u - 1)
    ELSE IF kind = "entitiesMissing" THEN 0 ELSE u

\* The header.
HeaderFor(s, kind) ==
    [version |-> IF kind \in {"legacyHeader", "legacy"} THEN LegacyFormatVersion
                 ELSE FormatVersion,
     count |-> IF kind = "headerCount" THEN Len(s.records) + 1 ELSE Len(s.records),
     palette |-> s.palette, hasPalette |-> kind # "noPalette",
     jsonEntities |-> kind # "encoding",
     entityUnits |-> ClaimedUnits(EntityUnits(s.entities), kind),
     entityCount |-> IF kind = "entitiesMore" THEN Cardinality(DOMAIN s.entities) + 1
                     ELSE Cardinality(DOMAIN s.entities),
     size |-> s.size, fullVolume |-> s.fullVolume]

EntitiesFor(s, kind) == IF kind = "legacy" THEN <<>> ELSE s.entities

\* What follows the entities.
UnitsFor(s, kind) ==
    IF kind = "partialRecord" THEN SubSeq(Units(s), 1, Len(Units(s)) - 1)
    ELSE IF kind = "extraRecord" THEN Units(s) \o SubSeq(Units(s), 1, RecordSize)
    ELSE Units(s)

\* The file is whole and is this.
IsPayload(f, p, h, e, R) ==
    /\ Laid(f.stream, p, h, e, EntityUnits(e), R)
    /\ f.intact = TRUE /\ f.complete = TRUE

NoPrefixDamage(kind) == kind \notin PrefixDamages /\ kind # "legacy"
NoHeaderDamage(kind) == kind \notin HeaderDamages /\ kind # "legacy"

\* The prefix and header of a payload that is sound in them.
LEMMA SoundParts ==
    ASSUME NEW s, NEW kind
    PROVE  /\ NoPrefixDamage(kind) => PrefixFor(s, kind) = Prefix(Len(s.records))
           /\ NoHeaderDamage(kind) => HeaderFor(s, kind) = Header(s, Len(s.records))
<1>1. NoPrefixDamage(kind) => PrefixFor(s, kind) = Prefix(Len(s.records))
  BY DEF NoPrefixDamage, PrefixDamages, PrefixFor, Prefix
<1>2. NoHeaderDamage(kind) => HeaderFor(s, kind) = Header(s, Len(s.records))
  BY DEF NoHeaderDamage, HeaderDamages, HeaderFor, Header, ClaimedUnits
<1>3. QED
  BY <1>1, <1>2

\* Damaged prefixes.
LEMMA PrefixesDamaged ==
    ASSUME NEW s, NEW kind \in PrefixDamages
    PROVE  DamagedPrefix(Prefix(Len(s.records)), kind) = PrefixFor(s, kind)
<1>1. PICK N : N = Len(s.records)
  OBVIOUS
<1>2. PICK p : p = [magic |-> TRUE, version |-> FormatVersion, headerLength |-> HeaderSize, count |-> N]
  OBVIOUS
<1>3. CASE kind = "magic"
  BY <1>1, <1>2, <1>3 DEF DamagedPrefix, PrefixFor, Prefix
<1>4. CASE kind = "version"
  BY <1>1, <1>2, <1>4 DEF DamagedPrefix, PrefixFor, Prefix
<1>5. CASE kind = "legacyPrefix"
  BY <1>1, <1>2, <1>5 DEF DamagedPrefix, PrefixFor, Prefix
<1>6. CASE kind = "headerLong"
  BY <1>1, <1>2, <1>6 DEF DamagedPrefix, PrefixFor, Prefix
<1>7. CASE kind = "headerShort"
  BY <1>1, <1>2, <1>7 DEF DamagedPrefix, PrefixFor, Prefix
<1>8. CASE kind = "fewer"
  BY <1>1, <1>2, <1>8 DEF DamagedPrefix, PrefixFor, Prefix
<1>9. QED
  BY <1>3, <1>4, <1>5, <1>6, <1>7, <1>8 DEF PrefixDamages

\* Damaged headers.
LEMMA HeadersDamaged ==
    ASSUME NEW s, NEW kind \in HeaderDamages
    PROVE  DamagedHeader(Header(s, Len(s.records)), kind) = HeaderFor(s, kind)
<1>1. CASE kind = "legacyHeader"
  BY <1>1 DEF DamagedHeader, HeaderFor, Header, ClaimedUnits
<1>2. CASE kind = "noPalette"
  BY <1>2 DEF DamagedHeader, HeaderFor, Header, ClaimedUnits
<1>3. CASE kind = "encoding"
  BY <1>3 DEF DamagedHeader, HeaderFor, Header, ClaimedUnits
<1>4. CASE kind = "headerCount"
  BY <1>4 DEF DamagedHeader, HeaderFor, Header, ClaimedUnits
<1>5. CASE kind = "entitiesLong"
  BY <1>5 DEF DamagedHeader, HeaderFor, Header, ClaimedUnits
<1>6. CASE kind = "entitiesShort"
  BY <1>6 DEF DamagedHeader, HeaderFor, Header, ClaimedUnits
<1>7. CASE kind = "entitiesMissing"
  BY <1>7 DEF DamagedHeader, HeaderFor, Header, ClaimedUnits
<1>8. CASE kind = "entitiesMore"
  BY <1>8 DEF DamagedHeader, HeaderFor, Header, ClaimedUnits
<1>9. QED
  BY <1>1, <1>2, <1>3, <1>4, <1>5, <1>6, <1>7, <1>8 DEF HeaderDamages

\* A payload of these sections.
LEMMA PayloadHas ==
    ASSUME NEW p, NEW h, NEW e, IsFiniteSet(DOMAIN e), e = [x \in DOMAIN e |-> e[x]],
           NEW pieces, NEW V, NEW R \in Seq(V), FlattenSeq(pieces) = R
    PROVE  IsPayload(Payload(p, h, e, pieces), p, h, e, R)
BY PayloadIs DEF IsPayload

\* Only a payload with records is damaged.
DamageOk(s, kind) ==
    kind \in Damages /\ (kind # "none" => Valid(s) /\ s.records # <<>>)

\* The units of the first record.
LEMMA FirstRecord ==
    ASSUME NEW s, SavedOk(s), s.records # <<>>
    PROVE  /\ RecordSize <= Len(s.records) * RecordSize
           /\ SubSeq(Units(s), 1, RecordSize) \in Seq(UnitsOfRecords)
           /\ Len(SubSeq(Units(s), 1, RecordSize)) = RecordSize
<1>1. PICK N \in Nat, K \in Nat, R \in Nat \ {0} :
        N = Len(s.records) /\ R = RecordSize /\ K = N * R
  BY UnitsIs, RecordStoreAssumption
<1>2. N # 0
  BY <1>1, EmptySeq DEF SavedOk, InBox
<1>3. R <= K
  BY <1>1, <1>2, TimesGrows
<1>4. PICK units \in Seq(UnitsOfRecords) : units = Units(s) /\ Len(units) = K
  BY <1>1, UnitsIs
<1>5. PICK x : x = SubSeq(units, 0 + 1, R)
  OBVIOUS
<1>6. R \in 0 .. Len(units) /\ R - 0 = R /\ 0 + 1 = 1
  BY <1>1, <1>3, <1>4
<1>7. x \in Seq(UnitsOfRecords) /\ IsPiece(x, units, 0, R - 0)
  BY <1>4, <1>5, <1>6, PieceIs
<1>8. QED
  BY <1>1, <1>3, <1>4, <1>5, <1>6, <1>7 DEF IsPiece

\* Every damage but a cut and a wrong hash leaves a payload of some sections.
LEMMA DamagedIsPayload ==
    ASSUME NEW s, SavedOk(s), NEW kind, DamageOk(s, kind), kind \notin {"cut", "checksum"}
    PROVE  IsPayload(Damaged(s, kind), PrefixFor(s, kind), HeaderFor(s, kind),
                     EntitiesFor(s, kind), UnitsFor(s, kind))
<1>1. PICK units \in Seq(UnitsOfRecords) : units = Units(s)
  BY UnitsIs
<1>2. PICK N : N = Len(s.records)
  OBVIOUS
<1>3. PICK e : /\ e = s.entities /\ IsFiniteSet(DOMAIN e)
               /\ e = [x \in DOMAIN e |-> e[x]]
  BY DEF SavedOk
<1>4. FlattenSeq(<<units>>) = units
  BY FlattenOne
<1>5. CASE kind \in {"none", "row"}
  <2>1. PICK pieces : /\ FlattenSeq(pieces) = units
                      /\ Encoded(s, Source(s)) = Payload(Prefix(N), Header(s, N), e, pieces)
    BY <1>1, <1>2, <1>3, EncodedIs
  <2>2. Damaged(s, kind) = Encoded(s, Source(s))
    BY <1>5 DEF Damaged, PrefixDamages, HeaderDamages
  <2>3. NoPrefixDamage(kind) /\ NoHeaderDamage(kind)
    BY <1>5 DEF NoPrefixDamage, NoHeaderDamage, PrefixDamages, HeaderDamages
  <2>4. PrefixFor(s, kind) = Prefix(N) /\ HeaderFor(s, kind) = Header(s, N)
    BY <1>2, <2>3, SoundParts
  <2>5. EntitiesFor(s, kind) = e /\ UnitsFor(s, kind) = units
    BY <1>1, <1>3, <1>5 DEF EntitiesFor, UnitsFor
  <2>6. IsPayload(Payload(Prefix(N), Header(s, N), e, pieces), Prefix(N), Header(s, N), e, units)
    BY <1>3, <2>1, PayloadHas
  <2>7. QED
    BY <2>1, <2>2, <2>4, <2>5, <2>6
<1>6. CASE kind = "legacy"
  <2>1. PICK p, h : /\ p = [Prefix(N) EXCEPT !.version = LegacyFormatVersion]
                    /\ h = [Header(s, N) EXCEPT !.version = LegacyFormatVersion]
    OBVIOUS
  <2>2. Damaged(s, kind) = Payload(p, h, <<>>, <<units>>)
    BY <1>1, <1>2, <1>6, <2>1 DEF Damaged, Legacy, PrefixDamages, HeaderDamages
  <2>3. p = PrefixFor(s, kind) /\ h = HeaderFor(s, kind)
    BY <1>2, <1>6, <2>1 DEF PrefixFor, HeaderFor, Prefix, Header, ClaimedUnits
  <2>4. EntitiesFor(s, kind) = <<>> /\ UnitsFor(s, kind) = units
    BY <1>1, <1>6 DEF EntitiesFor, UnitsFor
  <2>5. PICK n : n = <<>>
    OBVIOUS
  <2>6. IsFiniteSet(DOMAIN n) /\ n = [x \in DOMAIN n |-> n[x]]
    BY <2>5, FS_EmptySet
  <2>7. IsPayload(Payload(p, h, n, <<units>>), p, h, n, units)
    BY <1>4, <2>6, PayloadHas
  <2>8. QED
    BY <2>2, <2>3, <2>4, <2>5, <2>7
<1>7. CASE kind = "partialRecord"
  <2>1. PICK R : R = SubSeq(units, 1, Len(units) - 1)
    OBVIOUS
  <2>2. R \in Seq(UnitsOfRecords)
    BY <2>1, LenProperties, SubSeqProperties
  <2>3. FlattenSeq(<<R>>) = R
    BY <2>2, FlattenOne
  <2>4. Damaged(s, kind) = Payload(Prefix(N), Header(s, N), e, <<R>>)
    BY <1>1, <1>2, <1>3, <1>7, <2>1 DEF Damaged, PrefixDamages, HeaderDamages
  <2>5. NoPrefixDamage(kind) /\ NoHeaderDamage(kind)
    BY <1>7 DEF NoPrefixDamage, NoHeaderDamage, PrefixDamages, HeaderDamages
  <2>6. PrefixFor(s, kind) = Prefix(N) /\ HeaderFor(s, kind) = Header(s, N)
    BY <1>2, <2>5, SoundParts
  <2>7. EntitiesFor(s, kind) = e /\ UnitsFor(s, kind) = R
    BY <1>1, <1>3, <1>7, <2>1 DEF EntitiesFor, UnitsFor
  <2>8. IsPayload(Payload(Prefix(N), Header(s, N), e, <<R>>), Prefix(N), Header(s, N), e, R)
    BY <1>3, <2>2, <2>3, PayloadHas
  <2>9. QED
    BY <2>4, <2>6, <2>7, <2>8
<1>8. CASE kind = "extraRecord"
  <2>1. PICK t \in Seq(UnitsOfRecords) : t = SubSeq(units, 1, RecordSize)
    BY <1>1, <1>8, FirstRecord DEF DamageOk
  <2>2. PICK R \in Seq(UnitsOfRecords) : R = units \o t
    BY ConcatProperties
  <2>3. FlattenSeq(<<units, t>>) = R
    BY <2>2, FlattenTwo
  <2>4. Damaged(s, kind) = Payload(Prefix(N), Header(s, N), e, <<units, t>>)
    BY <1>1, <1>2, <1>3, <1>8, <2>1 DEF Damaged, PrefixDamages, HeaderDamages
  <2>5. NoPrefixDamage(kind) /\ NoHeaderDamage(kind)
    BY <1>8 DEF NoPrefixDamage, NoHeaderDamage, PrefixDamages, HeaderDamages
  <2>6. PrefixFor(s, kind) = Prefix(N) /\ HeaderFor(s, kind) = Header(s, N)
    BY <1>2, <2>5, SoundParts
  <2>7. EntitiesFor(s, kind) = e /\ UnitsFor(s, kind) = R
    BY <1>1, <1>3, <1>8, <2>1, <2>2 DEF EntitiesFor, UnitsFor
  <2>8. IsPayload(Payload(Prefix(N), Header(s, N), e, <<units, t>>), Prefix(N), Header(s, N), e, R)
    BY <1>3, <2>2, <2>3, PayloadHas
  <2>9. QED
    BY <2>4, <2>6, <2>7, <2>8
<1>9. CASE kind \in PrefixDamages
  <2>1. Damaged(s, kind) = Payload(DamagedPrefix(Prefix(N), kind), Header(s, N), e, <<units>>)
    BY <1>1, <1>2, <1>3, <1>9 DEF Damaged, PrefixDamages, HeaderDamages
  <2>2. NoHeaderDamage(kind)
    BY <1>9 DEF NoHeaderDamage, PrefixDamages, HeaderDamages
  <2>3. DamagedPrefix(Prefix(N), kind) = PrefixFor(s, kind) /\ HeaderFor(s, kind) = Header(s, N)
    BY <1>2, <1>9, <2>2, SoundParts, PrefixesDamaged
  <2>4. EntitiesFor(s, kind) = e /\ UnitsFor(s, kind) = units
    BY <1>1, <1>3, <1>9 DEF EntitiesFor, UnitsFor, PrefixDamages
  <2>5. PICK p, h : p = PrefixFor(s, kind) /\ h = HeaderFor(s, kind)
    OBVIOUS
  <2>6. IsPayload(Payload(p, h, e, <<units>>), p, h, e, units)
    BY <1>3, <1>4, PayloadHas
  <2>7. QED
    BY <2>1, <2>3, <2>4, <2>5, <2>6
<1>10. CASE kind \in HeaderDamages
  <2>1. Damaged(s, kind) = Payload(Prefix(N), DamagedHeader(Header(s, N), kind), e, <<units>>)
    BY <1>1, <1>2, <1>3, <1>10 DEF Damaged, PrefixDamages, HeaderDamages
  <2>2. NoPrefixDamage(kind)
    BY <1>10 DEF NoPrefixDamage, PrefixDamages, HeaderDamages
  <2>3. PrefixFor(s, kind) = Prefix(N) /\ DamagedHeader(Header(s, N), kind) = HeaderFor(s, kind)
    BY <1>2, <1>10, <2>2, SoundParts, HeadersDamaged
  <2>4. EntitiesFor(s, kind) = e /\ UnitsFor(s, kind) = units
    BY <1>1, <1>3, <1>10 DEF EntitiesFor, UnitsFor, HeaderDamages
  <2>5. PICK p, h : p = PrefixFor(s, kind) /\ h = HeaderFor(s, kind)
    OBVIOUS
  <2>6. IsPayload(Payload(p, h, e, <<units>>), p, h, e, units)
    BY <1>3, <1>4, PayloadHas
  <2>7. QED
    BY <2>1, <2>3, <2>4, <2>5, <2>6
<1>11. QED
  BY <1>5, <1>6, <1>7, <1>8, <1>9, <1>10 DEF DamageOk, Damages

\* What the damages leave of a payload can be read from its prefix and its header.
LEMMA LaidBegins ==
    ASSUME NEW raw, NEW p, NEW h, NEW e, NEW u \in Nat, NEW V, NEW R \in Seq(V),
           Laid(raw, p, h, e, u, R),
           p.headerLength \in Nat, p.count \in Nat, h.entityUnits \in Nat
    PROVE  Begins(raw, p, h)
BY CodecAssumption, LenProperties DEF Laid, Begins

\* The numbers in the prefix and the header are naturals.
LEMMA PartsAreNumbers ==
    ASSUME NEW s, SavedOk(s), NEW kind, DamageOk(s, kind)
    PROVE  /\ PrefixFor(s, kind).headerLength \in Nat /\ PrefixFor(s, kind).count \in Nat
           /\ HeaderFor(s, kind).entityUnits \in Nat
<1>1. PICK H \in Nat \ {0}, X \in Nat : H = HeaderSize /\ X = MaxEntityUnits
  BY CodecAssumption
<1>2. PICK N \in Nat : N = Len(s.records)
  BY UnitsIs
<1>3. kind # "none" => N # 0
  BY <1>2, EmptySeq DEF SavedOk, InBox, DamageOk
<1>4. PICK u \in Nat : u = EntityUnits(s.entities)
  BY EntityUnitsIs DEF SavedOk
<1>5. PICK p : p = PrefixFor(s, kind)
  OBVIOUS
<1>6. p.headerLength \in Nat
  BY <1>1, <1>5 DEF PrefixFor
<1>7. p.count \in Nat
  BY <1>2, <1>3, <1>5 DEF PrefixFor
<1>8. ClaimedUnits(u, kind) \in Nat
  BY <1>1, <1>4 DEF ClaimedUnits
<1>9. HeaderFor(s, kind).entityUnits \in Nat
  BY <1>4, <1>8 DEF HeaderFor
<1>10. QED
  BY <1>5, <1>6, <1>7, <1>9

\* The entities' units are a natural number, of a legacy file too.
LEMMA EntitiesForIs ==
    ASSUME NEW s, SavedOk(s), NEW kind
    PROVE  /\ IsFiniteSet(DOMAIN EntitiesFor(s, kind))
           /\ EntitiesFor(s, kind) = [x \in DOMAIN EntitiesFor(s, kind) |-> EntitiesFor(s, kind)[x]]
           /\ EntityUnits(EntitiesFor(s, kind)) \in Nat
<1>1. PICK e : e = EntitiesFor(s, kind)
  OBVIOUS
<1>2. IsFiniteSet(DOMAIN e) /\ e = [x \in DOMAIN e |-> e[x]]
  BY <1>1, FS_EmptySet DEF EntitiesFor, SavedOk
<1>3. EntityUnits(e) \in Nat
  BY <1>2, EntityUnitsIs
<1>4. QED
  BY <1>1, <1>2, <1>3

\* The units after the entities are units of records.
LEMMA UnitsForIs ==
    ASSUME NEW s, SavedOk(s), NEW kind, DamageOk(s, kind)
    PROVE  /\ UnitsFor(s, kind) \in Seq(UnitsOfRecords)
           /\ kind = "partialRecord" => Len(UnitsFor(s, kind)) = Len(s.records) * RecordSize - 1
           /\ kind = "extraRecord" =>
                Len(UnitsFor(s, kind)) = Len(s.records) * RecordSize + RecordSize
           /\ kind \notin {"partialRecord", "extraRecord"} => UnitsFor(s, kind) = Units(s)
<1>1. PICK units, K : /\ units \in Seq(UnitsOfRecords) /\ units = Units(s)
                      /\ K \in Nat /\ K = Len(s.records) * RecordSize /\ Len(units) = K
  BY UnitsIs
<1>2. CASE kind = "partialRecord"
  <2>1. RecordSize \in Nat \ {0} /\ RecordSize <= K
    BY <1>1, <1>2, RecordStoreAssumption, FirstRecord DEF DamageOk
  <2>2. PICK x : x = SubSeq(units, 1, K - 1)
    OBVIOUS
  <2>3. x \in Seq(UnitsOfRecords) /\ Len(x) = K - 1
    BY <1>1, <2>1, <2>2, PieceIs DEF IsPiece
  <2>4. UnitsFor(s, kind) = x
    BY <1>1, <1>2, <2>2 DEF UnitsFor
  <2>5. QED
    BY <1>1, <1>2, <2>3, <2>4
<1>3. CASE kind = "extraRecord"
  BY <1>1, <1>3, FirstRecord, ConcatProperties DEF DamageOk, UnitsFor
<1>4. CASE kind \notin {"partialRecord", "extraRecord"}
  BY <1>1, <1>4 DEF UnitsFor
<1>5. QED
  BY <1>2, <1>3, <1>4

\* Whatever is wrong, the stream begins with a prefix and a header.
LEMMA DamagedBegins ==
    ASSUME NEW s, SavedOk(s), NEW kind, DamageOk(s, kind)
    PROVE  Begins(Damaged(s, kind).stream, PrefixFor(s, kind), HeaderFor(s, kind))
<1>1. PICK p, h, e, u, R :
        /\ p = PrefixFor(s, kind) /\ h = HeaderFor(s, kind) /\ e = EntitiesFor(s, kind)
        /\ u = EntityUnits(e) /\ R = UnitsFor(s, kind)
  OBVIOUS
<1>2. p.headerLength \in Nat /\ p.count \in Nat /\ h.entityUnits \in Nat
  BY <1>1, PartsAreNumbers
<1>3. u \in Nat /\ R \in Seq(UnitsOfRecords)
  BY <1>1, EntitiesForIs, UnitsForIs
<1>4. CASE kind \notin {"cut", "checksum"}
  BY <1>1, <1>2, <1>3, <1>4, DamagedIsPayload, LaidBegins DEF IsPayload
<1>5. CASE kind \in {"cut", "checksum"}
  <2>1. PICK raw : raw = Damaged(s, "none").stream
    OBVIOUS
  <2>2. DamageOk(s, "none")
    BY DEF DamageOk, Damages
  <2>3. Laid(raw, PrefixFor(s, "none"), HeaderFor(s, "none"), EntitiesFor(s, "none"),
             EntityUnits(EntitiesFor(s, "none")), UnitsFor(s, "none"))
    BY <2>1, <2>2, DamagedIsPayload DEF IsPayload
  <2>4. /\ PrefixFor(s, "none") = p /\ HeaderFor(s, "none") = h /\ EntitiesFor(s, "none") = e
        /\ UnitsFor(s, "none") = R
    BY <1>1, <1>5 DEF PrefixFor, HeaderFor, ClaimedUnits, EntitiesFor, UnitsFor
  <2>5. Laid(raw, p, h, e, u, R)
    BY <1>1, <2>3, <2>4
  <2>6. raw = Encoded(s, Source(s)).stream
    BY <2>1 DEF Damaged, PrefixDamages, HeaderDamages
  <2>7. CASE kind = "checksum"
    <3>1. Damaged(s, kind).stream = raw
      BY <2>6, <2>7 DEF Damaged, Encoded, Payload, PrefixDamages, HeaderDamages
    <3>2. QED
      BY <1>1, <1>2, <1>3, <2>5, <3>1, LaidBegins
  <2>8. CASE kind = "cut"
    <3>1. PICK x : x = Damaged(s, kind).stream
      OBVIOUS
    <3>2. x = SubSeq(raw, 1, Len(raw) - 1)
      BY <2>6, <2>8, <3>1 DEF Damaged, Encoded, Payload, Front, PrefixDamages, HeaderDamages
    <3>3. PICK P \in Nat, H \in Nat, l \in Nat, n \in Nat :
            P = PrefixSize /\ H = HeaderSize /\ l = Len(R) /\ n = Len(raw) /\ n = P + H + u + l /\ l # 0
      <4>1. PICK P \in Nat, H \in Nat, l \in Nat : P = PrefixSize /\ H = HeaderSize /\ l = Len(R)
        BY <1>3, CodecAssumption, LenProperties
      <4>2. Len(raw) = P + H + u + l
        BY <2>5, <4>1 DEF Laid
      <4>3. l # 0
        BY <1>1, <2>8, <4>1, FirstRecord, RecordStoreAssumption, UnitsIs DEF UnitsFor, DamageOk
      <4>4. PICK n : n = P + H + u + l
        OBVIOUS
      <4>5. n \in Nat
        BY <1>3, <4>4
      <4>6. n = Len(raw)
        BY <4>2, <4>4
      <4>7. QED
        BY <4>1, <4>3, <4>4, <4>5, <4>6
    <3>4. PICK k \in Nat : k = n - 1 /\ P + H <= k
      BY <1>3, <3>3
    <3>5. raw \in Seq(ToSet(raw)) /\ k \in 0 .. Len(raw)
      BY <2>5, <3>3, <3>4 DEF Laid
    <3>6. x = SubSeq(raw, 1, k)
      BY <3>2, <3>3, <3>4
    <3>7. Opens(x, k, raw)
      BY <3>5, <3>6, FirstUnits
    <3>8. x \in Seq(ToSet(x)) /\ Len(x) = k
      BY <3>7, OfItsElements DEF Opens
    <3>9. \A i \in 1 .. P : x[0 + i] = raw[0 + i]
      BY <3>3, <3>4, <3>7 DEF Opens
    <3>10. \A i \in 1 .. H : x[P + i] = raw[P + i]
      BY <3>3, <3>4, <3>7 DEF Opens
    <3>11. SectionOf(x, 0, "prefix", p, PrefixSize) /\ SectionOf(x, PrefixSize, "header", h, HeaderSize)
      BY <2>5, <3>3, <3>9, <3>10 DEF Laid, SectionOf
    <3>12. Len(x) >= PrefixSize + HeaderSize
      BY <3>3, <3>4, <3>8
    <3>13. Begins(x, p, h)
      BY <1>2, <3>8, <3>11, <3>12 DEF Begins
    <3>14. QED
      BY <1>1, <3>1, <3>13
  <2>9. QED
    BY <1>5, <2>7, <2>8
<1>6. QED
  BY <1>4, <1>5

----------------------------------------------------------------------------
(* What a decoder makes of every payload. *)

\* The entities are found where they are claimed to be when they take the units claimed.
EntitiesRead(q, m, u, e) ==
    /\ \A dc : EntitiesAccepted(q, dc) <=> \/ m = 0 /\ dc = 0
                                           \/ m = u /\ m # 0 /\ Cardinality(DOMAIN e) = dc
    /\ m = 0 => EntitiesIn(q) = <<>>
    /\ m = u /\ m # 0 => EntitiesIn(q) = e

\* A reader of the entities' units.
LEMMA EntitiesAtIs ==
    ASSUME NEW raw, NEW p, NEW h, NEW e, NEW R \in Seq(UnitsOfRecords), NEW u \in Nat,
           u = EntityUnits(e), Laid(raw, p, h, e, u, R), NEW m \in Nat, m <= u + Len(R)
    PROVE  EntitiesRead(SubSeq(raw, PrefixSize + HeaderSize + 1, PrefixSize + HeaderSize + m),
                        m, u, e)
<1>1. PICK P \in Nat, H \in Nat, o \in Nat : P = PrefixSize /\ H = HeaderSize /\ o = P + H
  BY CodecAssumption
<1>2. PICK U, l : U = ToSet(raw) /\ l \in Nat /\ l = Len(R) /\ \A i \in 1 .. l : R[i] \in UnitsOfRecords
  BY LenProperties
<1>3. raw \in Seq(U) /\ Len(raw) = o + u + l
  BY <1>1, <1>2 DEF Laid
<1>4. PICK q \in Seq(U) : q = SubSeq(raw, o + 1, o + m) /\ IsPiece(q, raw, o, (o + m) - o)
  <2>1. o + m \in o .. Len(raw)
    BY <1>2, <1>3
  <2>2. QED
    BY <1>3, <2>1, PieceIs
<1>5. Len(q) = m /\ \A i \in 1 .. m : q[i] = raw[o + i]
  BY <1>4 DEF IsPiece
<1>6. \A i \in 1 .. u : raw[o + i] = <<"entities", i, e>>
  BY <1>1 DEF Laid, SectionOf
<1>7. CASE m = 0
  BY <1>1, <1>4, <1>5, <1>7, EmptySeq DEF EntitiesAccepted, EntitiesIn, EntitiesRead
<1>8. CASE m # 0 /\ u = 0
  <2>1. 1 \in 1 .. m /\ 1 \in 1 .. l
    BY <1>2, <1>8
  <2>2. q # <<>> /\ q[1] = raw[o + 1]
    BY <1>5, <1>8, <2>1, EmptySeq
  <2>3. raw[o + 1] = R[1]
    <3>1. raw[PrefixSize + HeaderSize + u + 1] = R[1]
      BY <1>2, <2>1 DEF Laid
    <3>2. PrefixSize + HeaderSize + u + 1 = o + 1
      BY <1>1, <1>8
    <3>3. QED
      BY <3>1, <3>2
  <2>4. q[1][1] = "record"
    BY <1>2, <2>1, <2>2, <2>3 DEF UnitsOfRecords
  <2>5. ~Reads("entities", q, EntityUnits)
    BY <2>4 DEF Reads
  <2>6. \A dc : ~EntitiesAccepted(q, dc)
    BY <2>2, <2>5 DEF EntitiesAccepted
  <2>7. EntitiesRead(q, m, u, e)
    BY <1>8, <2>6 DEF EntitiesRead
  <2>8. QED
    BY <1>1, <1>4, <2>7
<1>9. CASE m # 0 /\ u # 0
  <2>1. 1 \in 1 .. m /\ 1 \in 1 .. u
    BY <1>9
  <2>2. q # <<>> /\ q[1] = <<"entities", 1, e>>
    BY <1>5, <1>6, <1>9, <2>1, EmptySeq
  <2>3. q[1][1] = "entities" /\ q[1][3] = e
    BY <2>2
  <2>4. PICK t : t = Section("entities", e, u)
    OBVIOUS
  <2>5. /\ t \in Seq({"entities"} \X Nat \X {e}) /\ Len(t) = u
        /\ \A i \in 1 .. u : t[i] = <<"entities", i, e>>
    BY <2>4, SectionIs
  <2>6. m = u => q = t
    <3>1. SUFFICES ASSUME m = u PROVE q = t
      OBVIOUS
    <3>2. \A i \in 1 .. u : q[i] = t[i]
      BY <1>5, <1>6, <2>5, <3>1
    <3>3. t \in Seq(U)
      <4>1. DOMAIN t = 1 .. u /\ t = [i \in DOMAIN t |-> t[i]] /\ q \in [1 .. u -> U]
        BY <1>4, <1>5, <2>5, <3>1, LenProperties
      <4>2. t \in [1 .. u -> U]
        BY <3>2, <4>1
      <4>3. QED
        BY <4>2
    <3>4. QED
      BY <1>4, <1>5, <2>5, <3>1, <3>2, <3>3, SeqEqual
  <2>7. q = t => m = u
    BY <1>5, <2>5
  <2>8. Reads("entities", q, EntityUnits) <=> q = t
    BY <2>2, <2>3, <2>4 DEF Reads
  <2>9. \A dc : EntitiesAccepted(q, dc) <=> m = u /\ Cardinality(DOMAIN e) = dc
    BY <2>2, <2>3, <2>6, <2>7, <2>8 DEF EntitiesAccepted
  <2>10. EntitiesIn(q) = e
    BY <2>2, <2>3 DEF EntitiesIn
  <2>11. EntitiesRead(q, m, u, e)
    BY <1>9, <2>9, <2>10 DEF EntitiesRead
  <2>12. QED
    BY <1>1, <1>4, <2>11
<1>10. QED
  BY <1>7, <1>8, <1>9

\* The numbers of a payload fit.
Fits(p, h, e, u, R) ==
    LET m == DeclaredUnits(h, p)
    IN /\ PrefixAccepted(p) /\ Sound(p, h)
       /\ m <= u + Len(R) /\ (u + Len(R)) - m = p.count * RecordSize
       /\ \/ m = 0 /\ DeclaredCount(h, p) = 0
          \/ m = u /\ m # 0 /\ Cardinality(DOMAIN e) = DeclaredCount(h, p)

\* A payload is accepted when its numbers fit, and has then what it was made of.
LEMMA PayloadAccepted ==
    ASSUME NEW f, NEW p, NEW h, NEW e, NEW R \in Seq(UnitsOfRecords), EntityUnits(e) \in Nat,
           IsPayload(f, p, h, e, R), h.entityUnits \in Nat
    PROVE  /\ Accepts(f, p, h) <=> Fits(p, h, e, EntityUnits(e), R)
           /\ Accepts(f, p, h) /\ DeclaredUnits(h, p) = EntityUnits(e) =>
                Contents(f, p, h)
                  = Decoded(h, IF EntityUnits(e) = 0 THEN <<>> ELSE e, R)
<1>1. PICK P \in Nat, H \in Nat, o \in Nat : P = PrefixSize /\ H = HeaderSize /\ o = P + H
  BY CodecAssumption
<1>2. PICK raw, u, l, m :
        /\ raw = f.stream /\ u \in Nat /\ u = EntityUnits(e) /\ l \in Nat /\ l = Len(R)
        /\ m \in Nat /\ m = DeclaredUnits(h, p)
  BY LenProperties DEF DeclaredUnits
<1>3. Laid(raw, p, h, e, u, R) /\ f.intact = TRUE /\ f.complete = TRUE
  BY <1>2 DEF IsPayload
<1>4. Len(raw) = o + u + l
  BY <1>1, <1>2, <1>3 DEF Laid
<1>5. Sound(p, h) => HeadEnd(p, h) = o + m
  BY <1>1, <1>2 DEF Sound, HeadEnd
<1>6. PICK q : q = SubSeq(raw, o + 1, o + m)
  OBVIOUS
<1>7. Sound(p, h) => EntitiesAt(raw, p, h) = q
  BY <1>1, <1>5, <1>6 DEF Sound, EntitiesAt
<1>8. m <= u + l => EntitiesRead(q, m, u, e)
  BY <1>1, <1>2, <1>3, <1>6, EntitiesAtIs
<1>9. (o + m <= o + u + l <=> m <= u + l) /\ (o + u + l) - (o + m) = (u + l) - m
  BY <1>1, <1>2
<1>10. Accepts(f, p, h)
         <=> /\ PrefixAccepted(p) /\ Sound(p, h)
             /\ m <= u + l /\ EntitiesAccepted(q, DeclaredCount(h, p))
             /\ (u + l) - m = p.count * RecordSize
  BY <1>2, <1>3, <1>4, <1>5, <1>7, <1>9 DEF Accepts
<1>11. Accepts(f, p, h) <=> Fits(p, h, e, EntityUnits(e), R)
  BY <1>2, <1>8, <1>10 DEF EntitiesRead, Fits
<1>12. ASSUME Accepts(f, p, h), m = u
       PROVE  Contents(f, p, h) = Decoded(h, IF u = 0 THEN <<>> ELSE e, R)
  <2>1. Sound(p, h) /\ m <= u + l
    BY <1>10, <1>12
  <2>2. HeadEnd(p, h) = o + u /\ EntitiesAt(raw, p, h) = q
    BY <1>5, <1>7, <1>12, <2>1
  <2>3. EntitiesIn(q) = IF u = 0 THEN <<>> ELSE e
    BY <1>8, <1>12, <2>1 DEF EntitiesRead
  <2>4. PICK U : U = ToSet(raw) \cup UnitsOfRecords
    OBVIOUS
  <2>5. raw \in Seq(ToSet(raw))
    BY <1>3 DEF Laid
  <2>6. PICK x \in Seq(ToSet(raw)) : /\ x = SubSeq(raw, (o + u) + 1, o + u + l)
                                     /\ IsPiece(x, raw, o + u, (o + u + l) - (o + u))
    <3>1. o + u + l \in o + u .. Len(raw) /\ o + u \in Nat
      BY <1>1, <1>2, <1>4
    <3>2. PICK V, a, b : V = ToSet(raw) /\ a = o + u /\ b = o + u + l
      OBVIOUS
    <3>3. SubSeq(raw, a + 1, b) \in Seq(V) /\ IsPiece(SubSeq(raw, a + 1, b), raw, a, b - a)
      BY <2>5, <3>1, <3>2, PieceIs
    <3>4. QED
      BY <3>2, <3>3
  <2>7. (o + u + l) - (o + u) = l
    BY <1>1, <1>2
  <2>8. Len(x) = l /\ \A i \in 1 .. l : x[i] = raw[o + u + i]
    BY <2>6, <2>7 DEF IsPiece
  <2>9. \A i \in 1 .. l : raw[o + u + i] = R[i]
    BY <1>1, <1>2, <1>3 DEF Laid
  <2>10. x = R
    <3>1. \A i \in 1 .. l : x[i] = R[i]
      BY <2>8, <2>9
    <3>2. x \in Seq(U) /\ R \in Seq(U)
      <4>1. ToSet(raw) \subseteq U /\ UnitsOfRecords \subseteq U
        BY <2>4
      <4>2. ASSUME NEW S, S \subseteq U, NEW s \in Seq(S) PROVE s \in Seq(U)
        BY <4>2
      <4>3. QED
        BY <4>1, <4>2
    <3>3. QED
      BY <1>2, <2>8, <3>1, <3>2, SeqEqual
  <2>11. QED
    BY <1>2, <1>4, <2>2, <2>3, <2>6, <2>10 DEF Contents
<1>13. QED
  BY <1>2, <1>11, <1>12

----------------------------------------------------------------------------
(* Which payloads are accepted. *)

\* The damages that a decoder does not notice: a row and a legacy file are none to it, and
\* a header that misses its entities is not wrong when there are none.
Unnoticed == {"none", "row", "legacy", "entitiesMissing"}

\* The file, as a decoder meets it.
TakesIn(s, kind) == Accepts(Damaged(s, kind), PrefixFor(s, kind), HeaderFor(s, kind))

\* A payload whose file is neither cut nor altered is accepted when its numbers fit.
LEMMA TakenInIs ==
    ASSUME NEW s, SavedOk(s), NEW kind, DamageOk(s, kind), kind \notin {"cut", "checksum"}
    PROVE  /\ TakesIn(s, kind)
                <=> Fits(PrefixFor(s, kind), HeaderFor(s, kind), EntitiesFor(s, kind),
                         EntityUnits(EntitiesFor(s, kind)), UnitsFor(s, kind))
           /\ TakesIn(s, kind)
                /\ DeclaredUnits(HeaderFor(s, kind), PrefixFor(s, kind))
                     = EntityUnits(EntitiesFor(s, kind)) =>
                Contents(Damaged(s, kind), PrefixFor(s, kind), HeaderFor(s, kind))
                  = Decoded(HeaderFor(s, kind),
                            IF EntityUnits(EntitiesFor(s, kind)) = 0 THEN <<>>
                            ELSE EntitiesFor(s, kind), UnitsFor(s, kind))
BY UnitsForIs, EntitiesForIs, PartsAreNumbers, DamagedIsPayload, PayloadAccepted DEF TakesIn

\* The number of units that the entities are said to have, in a file of version 2.
LEMMA DeclaredIs ==
    ASSUME NEW s, NEW kind, kind \notin {"version", "legacyPrefix", "legacyHeader", "legacy"}
    PROVE  /\ DeclaredUnits(HeaderFor(s, kind), PrefixFor(s, kind))
                = ClaimedUnits(EntityUnits(s.entities), kind)
           /\ DeclaredCount(HeaderFor(s, kind), PrefixFor(s, kind))
                = IF kind = "entitiesMore" THEN Cardinality(DOMAIN s.entities) + 1
                  ELSE Cardinality(DOMAIN s.entities)
           /\ EntitiesFor(s, kind) = s.entities
<1>1. FormatVersion # LegacyFormatVersion
  BY DEF FormatVersion, LegacyFormatVersion
<1>2. PrefixFor(s, kind).version = FormatVersion
  BY DEF PrefixFor
<1>3. PICK c, d : /\ c = ClaimedUnits(EntityUnits(s.entities), kind)
                  /\ d = IF kind = "entitiesMore" THEN Cardinality(DOMAIN s.entities) + 1
                         ELSE Cardinality(DOMAIN s.entities)
  OBVIOUS
<1>4. HeaderFor(s, kind).entityUnits = c /\ HeaderFor(s, kind).entityCount = d
  BY <1>3 DEF HeaderFor
<1>5. EntitiesFor(s, kind) = s.entities
  BY DEF EntitiesFor
<1>6. QED
  BY <1>1, <1>2, <1>3, <1>4, <1>5 DEF DeclaredUnits, DeclaredCount

\* A prefix or a header that is wrong is refused.
LEMMA WrongHeadRefused ==
    ASSUME NEW s, SavedOk(s), NEW kind, DamageOk(s, kind),
           kind \in {"magic", "version", "legacyPrefix", "headerLong", "headerShort", "fewer",
                     "legacyHeader", "noPalette", "encoding", "headerCount"}
    PROVE  ~TakesIn(s, kind)
<1>1. PICK p, h : p = PrefixFor(s, kind) /\ h = HeaderFor(s, kind)
  OBVIOUS
<1>2. PICK N \in Nat, H \in Nat : N = Len(s.records) /\ H = HeaderSize
  BY UnitsIs, CodecAssumption
<1>3. ~(PrefixAccepted(p) /\ Sound(p, h))
  <2>1. CASE kind = "magic"
    BY <1>1, <2>1 DEF PrefixFor, PrefixAccepted
  <2>2. CASE kind = "version"
    BY <1>1, <2>2 DEF PrefixFor, PrefixAccepted, FormatVersion, LegacyFormatVersion
  <2>3. CASE kind \in {"legacyPrefix", "legacyHeader"}
    BY <1>1, <2>3 DEF PrefixFor, HeaderFor, FormatVersion, LegacyFormatVersion, Sound,
       EntityFieldsAccepted
  <2>4. CASE kind \in {"headerLong", "headerShort"}
    BY <1>1, <1>2, <2>4 DEF PrefixFor, Sound
  <2>5. CASE kind \in {"fewer", "headerCount"}
    BY <1>1, <1>2, <2>5 DEF PrefixFor, HeaderFor, Sound, HeaderAccepted
  <2>6. CASE kind = "noPalette"
    BY <1>1, <2>6 DEF HeaderFor, Sound, HeaderAccepted
  <2>7. CASE kind = "encoding"
    BY <1>1, <2>7 DEF PrefixFor, HeaderFor, Sound, EntityFieldsAccepted
  <2>8. QED
    BY <2>1, <2>2, <2>3, <2>4, <2>5, <2>6, <2>7
<1>4. QED
  BY <1>1, <1>3 DEF TakesIn, Accepts

\* A file that is cut or altered is refused.
LEMMA WrongFileRefused ==
    ASSUME NEW s, NEW kind \in {"cut", "checksum"}
    PROVE  ~TakesIn(s, kind)
<1>1. PICK good : good = Encoded(s, Source(s))
  OBVIOUS
<1>2. good = [stream |-> good.stream, complete |-> TRUE, intact |-> TRUE]
  BY <1>1 DEF Encoded, Payload
<1>3. CASE kind = "cut"
  BY <1>1, <1>2, <1>3 DEF Damaged, PrefixDamages, HeaderDamages, TakesIn, Accepts
<1>4. CASE kind = "checksum"
  BY <1>1, <1>2, <1>4 DEF Damaged, PrefixDamages, HeaderDamages, TakesIn, Accepts
<1>5. QED
  BY <1>3, <1>4

\* Entities or records of another number than the header says are refused.
LEMMA WrongBodyRefused ==
    ASSUME NEW s, SavedOk(s), NEW kind, DamageOk(s, kind),
           kind \in {"entitiesLong", "entitiesShort", "entitiesMore", "partialRecord", "extraRecord"}
    PROVE  ~TakesIn(s, kind)
<1>1. PICK u \in Nat, c \in Nat : /\ u = EntityUnits(s.entities) /\ c = Cardinality(DOMAIN s.entities)
                                  /\ u # 0 => u = c + 1
                                  /\ u = 0 <=> c = 0
  BY EntityUnitsIs DEF SavedOk
<1>2. PICK K \in Nat, r \in Nat \ {0}, X \in Nat : /\ K = Len(s.records) * RecordSize
                                                   /\ r = RecordSize /\ X = MaxEntityUnits
  BY UnitsIs, RecordStoreAssumption, CodecAssumption
<1>3. PICK p, h, m, d : /\ p = PrefixFor(s, kind) /\ h = HeaderFor(s, kind)
                        /\ m = DeclaredUnits(h, p) /\ d = DeclaredCount(h, p)
  OBVIOUS
<1>4. /\ m = ClaimedUnits(u, kind) /\ d = IF kind = "entitiesMore" THEN c + 1 ELSE c
      /\ EntitiesFor(s, kind) = s.entities
  BY <1>1, <1>3, DeclaredIs
<1>5. PICK l \in Nat : l = Len(UnitsFor(s, kind))
  BY UnitsForIs, LenProperties
<1>6. SUFFICES ASSUME TakesIn(s, kind) PROVE FALSE
  OBVIOUS
<1>7. /\ PrefixAccepted(p) /\ Sound(p, h)
      /\ m <= u + l /\ (u + l) - m = p.count * RecordSize
      /\ \/ m = 0 /\ d = 0
         \/ m = u /\ m # 0 /\ c = d
  BY <1>1, <1>3, <1>4, <1>5, <1>6, TakenInIs DEF Fits
<1>8. p.count * RecordSize = K
  BY <1>2, <1>3 DEF PrefixFor
<1>9. CASE kind = "entitiesLong"
  BY <1>1, <1>4, <1>7, <1>9 DEF ClaimedUnits
<1>10. CASE kind = "entitiesShort"
  <2>1. m = IF u = 0 THEN X + 1 ELSE u - 1
    BY <1>2, <1>4, <1>10 DEF ClaimedUnits
  <2>2. h.entityUnits = m
    BY <1>1, <1>3, <1>4 DEF HeaderFor
  <2>3. p.version = FormatVersion
    BY <1>3, <1>10 DEF PrefixFor
  <2>4. m <= X
    BY <1>2, <1>7, <2>2, <2>3 DEF Sound, EntityFieldsAccepted
  <2>5. QED
    BY <1>1, <1>2, <1>4, <1>7, <1>10, <2>1, <2>4
<1>11. CASE kind = "entitiesMore"
  BY <1>1, <1>4, <1>7, <1>11 DEF ClaimedUnits
<1>12. CASE kind = "partialRecord"
  <2>1. m = u /\ l = K - 1
    BY <1>2, <1>4, <1>5, <1>12, UnitsForIs DEF ClaimedUnits
  <2>2. QED
    BY <1>1, <1>2, <1>7, <1>8, <2>1
<1>13. CASE kind = "extraRecord"
  <2>1. m = u /\ l = K + r
    BY <1>2, <1>4, <1>5, <1>13, UnitsForIs DEF ClaimedUnits
  <2>2. QED
    BY <1>1, <1>2, <1>7, <1>8, <2>1
<1>14. QED
  BY <1>9, <1>10, <1>11, <1>12, <1>13

\* What is accepted is what was saved, without its entities in a legacy file.
LEMMA AcceptedIsSaved ==
    ASSUME NEW s, SavedOk(s), NEW kind, DamageOk(s, kind), TakesIn(s, kind)
    PROVE  /\ kind \in Unnoticed
           /\ Contents(Damaged(s, kind), PrefixFor(s, kind), HeaderFor(s, kind))
                = Decoded(HeaderFor(s, kind), EntitiesFor(s, kind), Units(s))
<1>1. kind \in Unnoticed
  BY WrongHeadRefused, WrongFileRefused, WrongBodyRefused
     DEF DamageOk, Damages, PrefixDamages, HeaderDamages, Unnoticed
<1>2. PICK p, h, e, u : /\ p = PrefixFor(s, kind) /\ h = HeaderFor(s, kind)
                        /\ e = EntitiesFor(s, kind) /\ u = EntityUnits(e)
  OBVIOUS
<1>3. u \in Nat /\ (u = 0 <=> e = <<>>) /\ (Cardinality(DOMAIN e) = 0 <=> e = <<>>)
  BY <1>2, EntitiesForIs, EntityUnitsIs
<1>4. kind \notin {"cut", "checksum", "partialRecord", "extraRecord"}
  BY <1>1 DEF Unnoticed
<1>5. UnitsFor(s, kind) = Units(s)
  BY <1>4, UnitsForIs
<1>6. Fits(p, h, e, u, Units(s))
  BY <1>2, <1>4, <1>5, TakenInIs
<1>7. DeclaredUnits(h, p) = u
  <2>1. CASE kind = "legacy"
    BY <1>2, <1>3, <2>1 DEF PrefixFor, EntitiesFor, DeclaredUnits
  <2>2. CASE kind # "legacy"
    <3>1. kind \notin {"version", "legacyPrefix", "legacyHeader", "legacy"} /\ kind # "entitiesMore"
      BY <1>1, <2>2 DEF Unnoticed
    <3>2. /\ DeclaredUnits(h, p) = ClaimedUnits(u, kind) /\ DeclaredCount(h, p) = Cardinality(DOMAIN e)
      BY <1>2, <3>1, DeclaredIs
    <3>3. kind = "entitiesMissing" => DeclaredUnits(h, p) = 0
      BY <3>2 DEF ClaimedUnits
    <3>4. kind = "entitiesMissing" => u = 0
      BY <1>3, <1>6, <3>2, <3>3 DEF Fits
    <3>5. kind \in {"none", "row"} => DeclaredUnits(h, p) = u
      BY <3>2 DEF ClaimedUnits
    <3>6. QED
      BY <1>1, <2>2, <3>3, <3>4, <3>5 DEF Unnoticed
  <2>3. QED
    BY <2>1, <2>2
<1>8. Contents(Damaged(s, kind), p, h) = Decoded(h, IF u = 0 THEN <<>> ELSE e, Units(s))
  BY <1>2, <1>4, <1>5, <1>7, TakenInIs
<1>9. (IF u = 0 THEN <<>> ELSE e) = e
  BY <1>3
<1>10. QED
  BY <1>1, <1>2, <1>8, <1>9

\* A schematic is finite, and has no more entities than records.
LEMMA FewEntities ==
    ASSUME NEW s, SavedOk(s), Valid(s)
    PROVE  Cardinality(DOMAIN s.entities) <= Len(s.records)
<1>1. PICK N \in Nat, records \in Seq(Quads) : N = Len(records) /\ records = s.records
  BY UnitsIs DEF SavedOk, InBox
<1>2. PICK places : places = {Place(records[n]) : n \in 1 .. N}
  OBVIOUS
<1>3. DOMAIN s.entities \subseteq places
  BY <1>1, <1>2, LenProperties DEF Places, Valid
<1>4. PICK f : f = [n \in 1 .. N |-> Place(records[n])]
  OBVIOUS
<1>5. f \in [1 .. N -> places] /\ \A p \in places : \E n \in 1 .. N : f[n] = p
  BY <1>2, <1>4
<1>6. ExistsSurjection(1 .. N, places)
  BY <1>5 DEF Surjection, ExistsSurjection
<1>7. Cardinality(places) <= N /\ IsFiniteSet(places)
  BY <1>6, FS_Interval, FS_Surjection, FS_SurjCardinalityBound DEF ExistsSurjection
<1>8. Cardinality(DOMAIN s.entities) <= Cardinality(places)
  BY <1>3, <1>7, FS_Subset
<1>9. Cardinality(DOMAIN s.entities) \in Nat /\ Cardinality(places) \in Nat
  BY <1>7, FS_CardinalityType DEF SavedOk
<1>10. QED
  BY <1>1, <1>7, <1>8, <1>9

\* A payload with nothing wrong is accepted, and so is that of a legacy file.
LEMMA SoundAccepted ==
    ASSUME NEW s, SavedOk(s), Encodable(s), Valid(s), NEW kind \in {"none", "row", "legacy"},
           DamageOk(s, kind)
    PROVE  TakesIn(s, kind)
<1>1. PICK p, h, e, u : /\ p = PrefixFor(s, kind) /\ h = HeaderFor(s, kind)
                        /\ e = EntitiesFor(s, kind) /\ u = EntityUnits(e)
  OBVIOUS
<1>2. u \in Nat /\ (u = 0 <=> e = <<>>) /\ (Cardinality(DOMAIN e) = 0 <=> e = <<>>)
  BY <1>1, EntitiesForIs, EntityUnitsIs
<1>3. PICK N \in Nat, K \in Nat : N = Len(s.records) /\ K = N * RecordSize /\ Len(Units(s)) = K
  BY UnitsIs
<1>4. kind \notin {"cut", "checksum", "partialRecord", "extraRecord"}
  OBVIOUS
<1>5. UnitsFor(s, kind) = Units(s)
  BY <1>4, UnitsForIs
<1>6. /\ p.magic = TRUE /\ p.headerLength = HeaderSize /\ p.count = N
      /\ p.version = IF kind = "legacy" THEN LegacyFormatVersion ELSE FormatVersion
  BY <1>1, <1>3 DEF PrefixFor
<1>7. PrefixAccepted(p)
  BY <1>6 DEF PrefixAccepted, Encodable
<1>8. /\ h.version = p.version /\ h.hasPalette = TRUE /\ h.jsonEntities = TRUE /\ h.count = N
      /\ h.entityCount = Cardinality(DOMAIN s.entities)
      /\ h.entityUnits = EntityUnits(s.entities)
  BY <1>1, <1>3, <1>6 DEF HeaderFor, ClaimedUnits
<1>9. EntityFieldsAccepted(h, p)
  BY <1>3, <1>6, <1>8, FewEntities DEF EntityFieldsAccepted, Encodable
<1>10. Sound(p, h)
  BY <1>6, <1>8, <1>9 DEF Sound, HeaderAccepted
<1>11. DeclaredUnits(h, p) = u /\ DeclaredCount(h, p) = Cardinality(DOMAIN e)
  BY <1>1, <1>2, <1>6, DeclaredIs DEF EntitiesFor, DeclaredUnits, DeclaredCount, ClaimedUnits
<1>12. u <= u + K /\ (u + K) - u = p.count * RecordSize
  BY <1>2, <1>3, <1>6
<1>13. Fits(p, h, e, u, Units(s))
  BY <1>2, <1>3, <1>7, <1>10, <1>11, <1>12 DEF Fits
<1>14. QED
  BY <1>1, <1>4, <1>5, <1>13, TakenInIs

\* The schematic that was saved, without its entities in a legacy file.
Returned(s, kind) == IF kind = "legacy" THEN [s EXCEPT !.entities = <<>>] ELSE s

\* Its decoder makes it of its units.
LEMMA SchematicIsRestored ==
    ASSUME NEW s, SavedOk(s), NEW kind
    PROVE  SchematicOf(Decoded(HeaderFor(s, kind), EntitiesFor(s, kind), Units(s)))
             = Returned(s, kind)
<1>1. PICK records \in Seq(Quads) : records = s.records
  BY DEF SavedOk, InBox
<1>2. Unpacked(Units(s)) = s.records
  BY <1>1, UnpackedIs DEF Units
<1>3. PICK h, e, R, d : /\ h = HeaderFor(s, kind) /\ e = EntitiesFor(s, kind) /\ R = Units(s)
                        /\ d = Decoded(h, e, R)
  OBVIOUS
<1>4. h.size = s.size /\ h.palette = s.palette /\ h.fullVolume = s.fullVolume
  BY <1>3 DEF HeaderFor
<1>5. d.header = h /\ d.entities = e /\ d.records = R
  BY <1>3 DEF Decoded
<1>6. SchematicOf(d) = [size |-> s.size, palette |-> s.palette, fullVolume |-> s.fullVolume,
                        records |-> s.records, entities |-> e]
  BY <1>2, <1>3, <1>4, <1>5 DEF SchematicOf
<1>7. s = [size |-> s.size, palette |-> s.palette, fullVolume |-> s.fullVolume,
           records |-> s.records, entities |-> s.entities]
  BY DEF SavedOk
<1>8. Returned(s, kind) = [size |-> s.size, palette |-> s.palette, fullVolume |-> s.fullVolume,
                           records |-> s.records, entities |-> e]
  BY <1>3, <1>7 DEF Returned, EntitiesFor
<1>9. QED
  BY <1>3, <1>6, <1>8

----------------------------------------------------------------------------
(* Loading. *)

\* The last check of a plan never fails: every range was counted for what it gets.
LEMMA FinishPlans ==
    ASSUME InputsInv, PlanInv, Finish
    PROVE  pc' = "planned"
<1>1. PICK s \in Seq(Quads) : s = Turned(schematic, rotation) /\ Len(s) = Len(schematic.records)
  BY RecordsTurned DEF TurnedTo
<1>2. PICK N \in Nat : N = Len(s)
  BY LenProperties
<1>3. PICK a, M : a = anchor /\ M = InMemoryRecords(s, a)
  OBVIOUS
<1>4. pc = "scatter" /\ batch = N /\ Scattered
  BY <1>1, <1>2 DEF Finish, PlanInv
<1>5. PICK ch, C, e : /\ Plans(ch, C, e, M, s, a) /\ ranges = LaidOut(ch, C, e)
                      /\ Filled(output, offsets, ch, C, e, M, s, a, N)
  BY <1>1, <1>3, <1>4 DEF Scattered
<1>6. \A k \in 1 .. C : offsets[ch[k]] = e[k]
  <2>1. SubSeq(s, 1, N) = s
    BY <1>2, SubSeqFull
  <2>2. \A k \in 1 .. C : Given(s, a, ch[k], N) = Len(Bucket(s, a, ch[k]))
    BY <2>1 DEF Given
  <2>3. QED
    BY <1>5, <2>2 DEF Filled, Plans
<1>7. DOMAIN ranges = 1 .. C /\ \A k \in 1 .. C : ranges[k].chunk = ch[k] /\ ranges[k].end = e[k]
  BY <1>5 DEF LaidOut
<1>8. \A n \in DOMAIN ranges : offsets[ranges[n].chunk] = ranges[n].end
  BY <1>6, <1>7
<1>9. QED
  BY <1>8 DEF Finish

\* The decoder of the file is where its stream is.
Reading ==
    Streams(file.stream, PrefixFor(saved, damage), HeaderFor(saved, damage), decoder, read)

\* What was saved is a schematic of the code, the payload is it or damaged in one place,
\* and the decoder is where the units it has read take it.
PayloadInv ==
    /\ SavedOk(saved) /\ Encodable(saved) /\ DamageOk(saved, damage)
    /\ file = Damaged(saved, damage)
    /\ Reading

\* What is refused is wrong, or its sides are too long for a Sponge file.
MayRefuse == ~(damage \in {"none", "legacy"} /\ Valid(saved))
TooLong == \E i \in 1 .. 3 : saved.size[i] >= 2 * ShortHalf

\* Without a load there is no placement and no plan; with one, it is what was saved.
PlacementInv ==
    /\ pc \in {"load", "refused", "exported", "unexported"} =>
         schematic = NoPlacement(saved) /\ Unplanned
    /\ pc \notin {"load", "refused", "exported", "unexported"} =>
         schematic = Returned(saved, damage) /\ Valid(schematic)
    /\ pc = "refused" => MayRefuse
    /\ pc = "unexported" => MayRefuse \/ TooLong

\* The stream begins with a prefix and a header.
LEMMA FileBegins ==
    ASSUME PayloadInv
    PROVE  Begins(file.stream, PrefixFor(saved, damage), HeaderFor(saved, damage))
BY DamagedBegins DEF PayloadInv

\* What a decoder that is done has.
LEMMA DoneIsWhole ==
    ASSUME PayloadInv, decoder.failed \/ read = Len(file.stream)
    PROVE  Finished(file, decoder) = DecodeWhole(file)
BY FileBegins, StreamedIsWhole DEF PayloadInv, Reading

\* A reader of the file gets what was saved, or nothing.
LEMMA WholeIsSaved ==
    ASSUME PayloadInv
    PROVE  /\ DecodeWhole(file).accepted <=> TakesIn(saved, damage)
           /\ DecodeWhole(file).accepted =>
                /\ SchematicOf(DecodeWhole(file)) = Returned(saved, damage)
                /\ DecodeWhole(file).records = Units(saved)
                /\ damage \in Unnoticed
<1>1. PICK p, h, s : p = PrefixFor(saved, damage) /\ h = HeaderFor(saved, damage) /\ s = saved
  OBVIOUS
<1>2. Begins(file.stream, p, h)
  BY <1>1, FileBegins
<1>3. DecodeWhole(file) = IF Accepts(file, p, h) THEN Contents(file, p, h) ELSE Refused
  BY <1>2, DecodeWholeIs
<1>4. Accepts(file, p, h) <=> TakesIn(saved, damage)
  BY <1>1 DEF PayloadInv, TakesIn
<1>5. CASE TakesIn(saved, damage)
  <2>1. Contents(file, p, h) = Decoded(h, EntitiesFor(saved, damage), Units(saved)) /\ damage \in Unnoticed
    BY <1>1, <1>5, AcceptedIsSaved DEF PayloadInv
  <2>2. PICK d : d = Decoded(h, EntitiesFor(saved, damage), Units(saved))
    OBVIOUS
  <2>3. DecodeWhole(file) = d
    BY <1>3, <1>4, <1>5, <2>1, <2>2
  <2>4. d.accepted = TRUE /\ d.records = Units(saved)
    BY <2>2 DEF Decoded
  <2>5. SchematicOf(d) = Returned(saved, damage)
    BY <1>1, <2>2, SchematicIsRestored DEF PayloadInv
  <2>6. QED
    BY <1>5, <2>1, <2>3, <2>4, <2>5
<1>6. CASE ~TakesIn(saved, damage)
  BY <1>3, <1>4, <1>6 DEF Refused
<1>7. QED
  BY <1>5, <1>6

\* What is restored is as large, has the same records, and is valid when it was.
LEMMA RestoredIs ==
    ASSUME NEW s, SavedOk(s), NEW kind
    PROVE  /\ Returned(s, kind).size = s.size /\ Returned(s, kind).records = s.records
           /\ Returned(s, kind).palette = s.palette
           /\ Valid(s) => Valid(Returned(s, kind))
<1>1. PICK e, t : /\ t = Returned(s, kind) /\ e = t.entities
  OBVIOUS
<1>2. s = [size |-> s.size, palette |-> s.palette, fullVolume |-> s.fullVolume,
           records |-> s.records, entities |-> s.entities]
  BY DEF SavedOk
<1>3. /\ t.size = s.size /\ t.records = s.records /\ t.palette = s.palette
      /\ t.fullVolume = s.fullVolume
      /\ t.entities = IF kind = "legacy" THEN <<>> ELSE s.entities
  BY <1>1, <1>2 DEF Returned
<1>4. DOMAIN t.entities \subseteq DOMAIN s.entities
  BY <1>3
<1>5. Valid(s) => Valid(t)
  BY <1>3, <1>4 DEF Valid
<1>6. QED
  BY <1>1, <1>3, <1>5

\* What was saved is refused for no other reason than that something is wrong with it.
LEMMA RefusalIsRight ==
    ASSUME PayloadInv,
           ~(/\ DecodeWhole(file).accepted /\ Valid(SchematicOf(DecodeWhole(file)))
             /\ Len(DecodeWhole(file).records) = RowCount * RecordSize)
    PROVE  MayRefuse
<1>1. SUFFICES ASSUME damage \in {"none", "legacy"}, Valid(saved) PROVE FALSE
  BY DEF MayRefuse
<1>2. TakesIn(saved, damage)
  BY <1>1, SoundAccepted DEF PayloadInv
<1>3. /\ DecodeWhole(file).accepted /\ SchematicOf(DecodeWhole(file)) = Returned(saved, damage)
      /\ DecodeWhole(file).records = Units(saved)
  BY <1>2, WholeIsSaved
<1>4. Valid(Returned(saved, damage))
  BY <1>1, RestoredIs DEF PayloadInv
<1>5. Len(Units(saved)) = Len(saved.records) * RecordSize
  BY UnitsIs DEF PayloadInv
<1>6. RowCount = Len(saved.records)
  BY <1>1 DEF RowCount
<1>7. QED
  BY <1>3, <1>4, <1>5, <1>6

\* Nor is a Sponge file, unless its sides are too long.
LEMMA ExportIsRight ==
    ASSUME PayloadInv,
           ~(DecodeWhole(file).accepted /\ Exportable(SchematicOf(DecodeWhole(file))))
    PROVE  MayRefuse \/ TooLong
<1>1. SUFFICES ASSUME damage \in {"none", "legacy"}, Valid(saved), ~TooLong PROVE FALSE
  BY DEF MayRefuse
<1>2. TakesIn(saved, damage)
  BY <1>1, SoundAccepted DEF PayloadInv
<1>3. PICK t : t = Returned(saved, damage)
  OBVIOUS
<1>4. DecodeWhole(file).accepted /\ SchematicOf(DecodeWhole(file)) = t
  BY <1>2, <1>3, WholeIsSaved
<1>5. Valid(t) /\ t.size = saved.size
  BY <1>1, <1>3, RestoredIs DEF PayloadInv
<1>6. \A i \in 1 .. 3 : saved.size[i] \in Nat \ {0}
  BY PlannerAssumption DEF PayloadInv, SavedOk
<1>7. \A i \in 1 .. 3 : 0 < t.size[i] /\ t.size[i] < 2 * ShortHalf
  <2>1. 2 * ShortHalf \in Nat
    BY SpongeAssumption
  <2>2. SUFFICES ASSUME NEW i \in 1 .. 3 PROVE 0 < saved.size[i] /\ saved.size[i] < 2 * ShortHalf
    BY <1>5
  <2>3. saved.size[i] \in Nat \ {0} /\ ~(saved.size[i] >= 2 * ShortHalf)
    BY <1>1, <1>6 DEF TooLong
  <2>4. QED
    BY <2>1, <2>3
<1>8. Exportable(t)
  BY <1>5, <1>7 DEF Exportable, Valid
<1>9. QED
  BY <1>4, <1>8

\* What a load accepts is what was saved.
LEMMA LoadIsRight ==
    ASSUME PayloadInv, DecodeWhole(file).accepted, Valid(SchematicOf(DecodeWhole(file))),
           Len(DecodeWhole(file).records) = RowCount * RecordSize
    PROVE  SchematicOf(DecodeWhole(file)) = Returned(saved, damage)
BY WholeIsSaved

\* The inductive invariant of loading and planning together.
LoadInv == PayloadInv /\ PlacementInv /\ InputsInv /\ PlanInv

\* The invariant holds before anything is read.
LEMMA LoadStarts == LoadInit => LoadInv
<1> SUFFICES ASSUME LoadInit PROVE LoadInv
  OBVIOUS
<1>1. SavedOk(saved) /\ Encodable(saved)
  BY ScannedOk DEF LoadInit
<1>2. DamageOk(saved, damage)
  BY DEF LoadInit, DamageOk, Damages
<1>3. file = Damaged(saved, damage) /\ decoder = NewDecoder /\ read = 0
  BY DEF LoadInit
<1>4. Reading
  BY <1>1, <1>2, <1>3, DamagedBegins, NewDecoderStreams DEF Reading
<1>5. PayloadInv
  BY <1>1, <1>2, <1>3, <1>4 DEF PayloadInv
<1>6. pc = "load" /\ schematic = NoPlacement(saved) /\ Unplanned
  BY DEF LoadInit
<1>7. PlacementInv
  BY <1>6 DEF PlacementInv
<1>8. InputsInv
  <2>1. schematic = [saved EXCEPT !.records = <<>>, !.entities = <<>>]
    BY <1>6 DEF NoPlacement
  <2>2. saved = [size |-> saved.size, palette |-> saved.palette, fullVolume |-> saved.fullVolume,
                 records |-> saved.records, entities |-> saved.entities]
    BY <1>1 DEF SavedOk
  <2>3. schematic.size = saved.size /\ schematic.records = <<>>
    BY <2>1, <2>2
  <2>4. <<>> \in Seq(Quads) /\ Len(<<>>) = 0
    BY EmptySeq
  <2>5. InBox(schematic.records, schematic.size)
    BY <2>3, <2>4 DEF InBox
  <2>6. saved.size \in Sizes
    BY <1>1 DEF SavedOk
  <2>7. <<0, 0, 0>> \in Triples
    BY DEF Triples
  <2>8. QED
    BY <1>6, <2>3, <2>5, <2>6, <2>7 DEF InputsInv, Unplanned, Rotations
<1>9. PlanInv
  BY <1>6 DEF PlanInv
<1>10. QED
  BY <1>5, <1>7, <1>8, <1>9 DEF LoadInv

\* The planner keeps its invariant while nothing of it changes.
LEMMA PlanKept ==
    ASSUME PlanInv, UNCHANGED planVars, pc' = pc
    PROVE  PlanInv'
BY DEF planVars, vars, inputs, Scattered, PlanInv

\* A piece of the stream.
LEMMA ReadStep ==
    ASSUME LoadInv, NEW size \in PieceSizes, Read(size)
    PROVE  LoadInv'
<1>1. PICK n \in Nat, k \in Nat : n = Len(file.stream) /\ k = read /\ k <= n
  BY FileBegins, LenProperties DEF LoadInv, PayloadInv, Reading, Streams, Begins
<1>2. size \in Nat /\ size <= n - k
  BY <1>1, LoadingAssumption DEF Read
<1>3. PICK m \in k .. n : m = k + size
  BY <1>1, <1>2
<1>4. PICK p, h, raw, d : /\ p = PrefixFor(saved, damage) /\ h = HeaderFor(saved, damage)
                          /\ raw = file.stream /\ d = decoder
  OBVIOUS
<1>5. Begins(raw, p, h) /\ Streams(raw, p, h, d, k) /\ ~d.failed
  BY <1>1, <1>4, FileBegins DEF LoadInv, PayloadInv, Reading, Read
<1>6. Streams(raw, p, h, Consumed(d, SubSeq(raw, k + 1, m)), m)
  BY <1>1, <1>3, <1>4, <1>5, ConsumedStreams
<1>7. decoder' = Consumed(d, SubSeq(raw, k + 1, m)) /\ read' = m
  BY <1>1, <1>3, <1>4 DEF Read
<1>8. saved' = saved /\ damage' = damage /\ file' = file /\ pc' = pc /\ UNCHANGED planVars
  BY DEF Read
<1>9. Reading'
  BY <1>4, <1>6, <1>7, <1>8 DEF Reading
<1>10. PayloadInv'
  BY <1>8, <1>9 DEF LoadInv, PayloadInv
<1>11. PlacementInv'
  BY <1>8 DEF LoadInv, PlacementInv, planVars, Unplanned, MayRefuse, TooLong
<1>12. InputsInv'
  BY <1>8 DEF LoadInv, InputsInv, planVars
<1>13. PlanInv'
  BY <1>8, PlanKept DEF LoadInv
<1>14. QED
  BY <1>10, <1>11, <1>12, <1>13 DEF LoadInv

\* Nothing of the payload changes once it is decoded.
LEMMA PayloadKept ==
    ASSUME PayloadInv, UNCHANGED <<saved, damage, file, decoder, read>>
    PROVE  PayloadInv'
BY DEF PayloadInv, Reading

\* The end of a load.
LEMMA FinishLoadStep ==
    ASSUME LoadInv, FinishLoad
    PROVE  LoadInv'
<1>1. PICK d : d = DecodeWhole(file)
  OBVIOUS
<1>2. Finished(file, decoder) = d
  BY <1>1, DoneIsWhole DEF LoadInv, FinishLoad
<1>3. PICK ok \in BOOLEAN : ok <=> /\ d.accepted /\ Valid(SchematicOf(d))
                                   /\ Len(d.records) = RowCount * RecordSize
  OBVIOUS
<1>4. /\ ok => pc' = "loaded" /\ schematic' = SchematicOf(d)
      /\ ~ok => pc' = "refused" /\ schematic' = schematic
  BY <1>2, <1>3 DEF FinishLoad
<1>5. /\ saved' = saved /\ damage' = damage /\ file' = file /\ decoder' = decoder /\ read' = read
      /\ anchor' = anchor /\ rotation' = rotation /\ ranges' = ranges /\ offsets' = offsets
      /\ output' = output /\ batch' = batch
  BY DEF FinishLoad, loadVars
<1>6. PayloadInv'
  BY <1>5, PayloadKept DEF LoadInv
<1>7. pc = "load" /\ schematic = NoPlacement(saved) /\ Unplanned
  BY DEF LoadInv, PlacementInv, FinishLoad
<1>8. output' = NewBuffer /\ batch' = 0
  BY <1>5, <1>7 DEF Unplanned
<1>9. PlanInv'
  BY <1>4, <1>8 DEF PlanInv
<1>10. CASE ok
  <2>1. schematic' = Returned(saved, damage) /\ Valid(schematic')
    BY <1>1, <1>3, <1>4, <1>10, LoadIsRight DEF LoadInv
  <2>2. PlacementInv'
    BY <1>4, <1>5, <1>10, <2>1 DEF PlacementInv
  <2>3. InputsInv'
    BY <1>5, <2>1, RestoredIs DEF LoadInv, PayloadInv, SavedOk, InputsInv
  <2>4. QED
    BY <1>6, <1>9, <2>2, <2>3 DEF LoadInv
<1>11. CASE ~ok
  <2>1. MayRefuse
    BY <1>1, <1>3, <1>11, RefusalIsRight DEF LoadInv
  <2>2. PlacementInv'
    BY <1>4, <1>5, <1>7, <1>11, <2>1 DEF PlacementInv, Unplanned, MayRefuse
  <2>3. InputsInv'
    BY <1>4, <1>5, <1>11 DEF LoadInv, InputsInv
  <2>4. QED
    BY <1>6, <1>9, <2>2, <2>3 DEF LoadInv
<1>12. QED
  BY <1>10, <1>11

\* An export.
LEMMA ExportStep ==
    ASSUME LoadInv, ExportWorldEdit
    PROVE  LoadInv'
<1>1. PICK d : d = DecodeWhole(file)
  OBVIOUS
<1>2. /\ saved' = saved /\ damage' = damage /\ file' = file /\ decoder' = decoder /\ read' = read
      /\ UNCHANGED planVars
      /\ pc' \in {"exported", "unexported"}
      /\ pc' = "unexported" => ~(d.accepted /\ Exportable(SchematicOf(d)))
  BY <1>1 DEF ExportWorldEdit
<1>3. PayloadInv'
  BY <1>2, PayloadKept DEF LoadInv
<1>4. pc = "load" /\ schematic = NoPlacement(saved) /\ Unplanned
  BY DEF LoadInv, PlacementInv, ExportWorldEdit
<1>5. pc' = "unexported" => MayRefuse \/ TooLong
  BY <1>1, <1>2, ExportIsRight DEF LoadInv
<1>6. PlacementInv'
  BY <1>2, <1>4, <1>5 DEF PlacementInv, planVars, Unplanned, MayRefuse, TooLong
<1>7. InputsInv'
  BY <1>2 DEF LoadInv, InputsInv, planVars
<1>8. PlanInv'
  BY <1>2 DEF PlanInv
<1>9. QED
  BY <1>3, <1>6, <1>7, <1>8 DEF LoadInv

\* The planner's own steps.
LEMMA PlannerStep ==
    ASSUME LoadInv, Next, UNCHANGED loadVars
    PROVE  LoadInv'
<1>1. PayloadInv'
  BY PayloadKept DEF LoadInv, loadVars
<1>2. saved' = saved /\ damage' = damage /\ schematic' = schematic
  BY DEF loadVars, Next, Request, Validate, Count, Scatter, Finish, inputs
<1>3. PlanInv'
  BY StepsKeepPlan DEF LoadInv
<1>4. InputsInv'
  <2>1. Anchors \subseteq Triples
    BY PlannerAssumption DEF Triples
  <2>2. QED
    BY <2>1 DEF LoadInv, InputsInv, Next, Request, Validate, Count, Scatter, Finish, inputs
<1>5. /\ pc \notin {"load", "refused", "exported", "unexported"}
      /\ pc' \notin {"load", "refused", "exported", "unexported"}
  <2>1. ASSUME NEW b \in Anchors, NEW r \in Rotations, Request(b, r)
        PROVE  pc = "loaded" /\ pc' = "validate"
    BY <2>1 DEF Request
  <2>2. CASE Validate
    BY <2>2 DEF Validate, LoadInv, PlacementInv
  <2>3. CASE Count
    BY <2>3 DEF Count
  <2>4. CASE Scatter
    BY <2>4 DEF Scatter
  <2>5. CASE Finish
    BY <2>5, FinishPlans DEF LoadInv, Finish
  <2>6. QED
    BY <2>1, <2>2, <2>3, <2>4, <2>5 DEF Next
<1>6. PlacementInv'
  BY <1>2, <1>5 DEF LoadInv, PlacementInv
<1>7. QED
  BY <1>1, <1>3, <1>4, <1>6 DEF LoadInv

\* The invariant holds in every state of a load.
LEMMA LoadStays == LoadSpec => []LoadInv
<1>1. LoadInv /\ [LoadNext]_<<vars, loadVars>> => LoadInv'
  <2>1. SUFFICES ASSUME LoadInv, [LoadNext]_<<vars, loadVars>> PROVE LoadInv'
    OBVIOUS
  <2>2. ASSUME NEW size \in PieceSizes, Read(size) PROVE LoadInv'
    BY <2>1, <2>2, ReadStep
  <2>3. CASE FinishLoad
    BY <2>1, <2>3, FinishLoadStep
  <2>4. CASE ExportWorldEdit
    BY <2>1, <2>4, ExportStep
  <2>5. CASE Next /\ UNCHANGED loadVars
    BY <2>1, <2>5, PlannerStep
  <2>6. CASE UNCHANGED <<vars, loadVars>>
    <3>1. /\ UNCHANGED planVars /\ pc' = pc
          /\ saved' = saved /\ damage' = damage /\ file' = file /\ decoder' = decoder /\ read' = read
      BY <2>6 DEF vars, inputs, planVars, loadVars
    <3>2. PayloadInv'
      BY <2>1, <3>1, PayloadKept DEF LoadInv
    <3>3. PlacementInv'
      BY <2>1, <3>1 DEF LoadInv, PlacementInv, planVars, Unplanned, MayRefuse, TooLong
    <3>4. InputsInv'
      BY <2>1, <3>1 DEF LoadInv, InputsInv, planVars
    <3>5. PlanInv'
      BY <2>1, <3>1, PlanKept DEF LoadInv
    <3>6. QED
      BY <3>2, <3>3, <3>4, <3>5 DEF LoadInv
  <2>7. QED
    BY <2>1, <2>2, <2>3, <2>4, <2>5, <2>6 DEF LoadNext
<1>2. QED
  BY <1>1, LoadStarts, PTL DEF LoadSpec

\* For every schematic, every damage to its payload, every way the stream falls into pieces
\* and every spill threshold: once decode_schematic_file has refused the stream or read all
\* of it, its verdict and its schematic are those of decode_schematic on the whole stream.
THEOREM StreamedAlwaysDecodes == LoadSpec => []StreamedDecodeIsDecode
<1>1. LoadInv => StreamedDecodeIsDecode
  BY DoneIsWhole DEF LoadInv, StreamedDecodeIsDecode
<1>2. QED
  BY <1>1, LoadStays, PTL

\* For every schematic that a scan saves and every damage to its payload: whatever becomes
\* the placement or is planned is what was saved (a legacy file has no block entities), so
\* every inconsistency is refused; a sound payload is refused by no load, and by an export
\* only when a side is too long for it.
THEOREM SavedAlwaysLoaded == LoadSpec => []SavedIsLoaded
<1>1. LoadInv => SavedIsLoaded
  BY DEF LoadInv, PlacementInv, SavedIsLoaded, Returned, MayRefuse, TooLong
<1>2. QED
  BY <1>1, LoadStays, PTL

\* Nothing that happens before or beside the plan spoils it: a plan made from a schematic
\* that was loaded, for every batch size, is the one prepare_paste_plan makes in memory.
THEOREM LoadedAlwaysPlanned == LoadSpec => []PlanIsComplete
<1>1. LoadInv => PlanIsComplete
  BY PlannedIsComplete DEF LoadInv
<1>2. QED
  BY <1>1, LoadStays, PTL

----------------------------------------------------------------------------
(* Types. *)

\* write_at within a buffer keeps its units among these.
LEMMA WriteAtKeeps ==
    ASSUME NEW U, NEW b \in Buffers(U), NEW piece \in Seq(U), NEW at \in Nat,
           at + Len(piece) <= b.length
    PROVE  WriteAt(b, at, piece) \in Buffers(U)
<1>1. /\ b \in [spilled : BOOLEAN, memory : Seq(U), file : Seq(U), position : Nat, length : Nat]
      /\ b.length = Len(Content(b))
  BY DEF Buffers, Content
<1>2. PICK content \in Seq(U), m \in Nat : content = Content(b) /\ m = Len(content)
  BY <1>1, LenProperties DEF Content
<1>3. PICK l \in Nat : l = Len(piece) /\ at + l <= m
  BY <1>1, <1>2, LenProperties
<1>4. PICK over : over = Overwritten(content, at, piece)
  OBVIOUS
<1>5. DOMAIN content = 1 .. m /\ DOMAIN piece = 1 .. l
  BY <1>2, <1>3, LenProperties
<1>6. over = [n \in 1 .. m |-> IF at < n /\ n <= at + l THEN piece[n - at]
                               ELSE IF n \in DOMAIN content THEN content[n] ELSE Unwritten]
  BY <1>2, <1>3, <1>4 DEF Overwritten
<1>7. ASSUME NEW n \in 1 .. m PROVE over[n] \in U
  BY <1>2, <1>3, <1>5, <1>6
<1>8. over \in Seq(U) /\ Len(over) = m
  BY <1>6, <1>7
<1>9. PICK c : c = WriteAt(b, at, piece)
  OBVIOUS
<1>10. c = IF b.spilled THEN [b EXCEPT !.file = over, !.position = b.length]
           ELSE [b EXCEPT !.memory = over]
  BY <1>2, <1>4, <1>9 DEF WriteAt, Content
<1>11. c \in Buffers(U)
  BY <1>1, <1>2, <1>8, <1>10 DEF Buffers
<1>12. QED
  BY <1>9, <1>11

\* The units of records of s are among its units.
LEMMA UnitsAmong ==
    ASSUME NEW s \in Seq(Quads), NEW B \in Seq(Quads),
           \A i \in 1 .. Len(B) : \E k \in 1 .. Len(s) : s[k] = B[i]
    PROVE  Packed(B) \in Seq(UnitsOf(s)) /\ Len(Packed(B)) = Len(B) * RecordSize
<1>1. PICK N \in Nat, l \in Nat, R \in Nat \ {0} : N = Len(s) /\ l = Len(B) /\ R = RecordSize
  BY LenProperties, RecordStoreAssumption
<1>2. PICK M \in Nat, m \in Nat : M = N * R /\ m = l * R
  BY TimesGrows, Times
<1>3. PICK f, g : f = Packed(s) /\ g = Packed(B)
  OBVIOUS
<1>4. /\ f \in [1 .. M -> {"record"} \X (1 .. R) \X Quads] /\ Len(f) = M
      /\ \A q \in 1 .. N, p \in 1 .. R : f[UnitAt(q, p)] = <<"record", p, s[q]>>
  BY <1>1, <1>2, <1>3, PackedIs
<1>5. /\ g \in [1 .. m -> {"record"} \X (1 .. R) \X Quads] /\ Len(g) = m
      /\ \A q \in 1 .. l, p \in 1 .. R : g[UnitAt(q, p)] = <<"record", p, B[q]>>
  BY <1>1, <1>2, <1>3, PackedIs
<1>6. ASSUME NEW n \in 1 .. m PROVE g[n] \in UnitsOf(s)
  <2>1. PICK q \in 1 .. l, p \in 1 .. R : n = UnitAt(q, p)
    <3>1. n \in 1 .. l * RecordSize
      BY <1>1, <1>2
    <3>2. PICK q \in 1 .. l, p \in 1 .. RecordSize : n = UnitAt(q, p)
      BY <3>1, UnitIs
    <3>3. QED
      BY <1>1, <3>2
  <2>2. PICK k \in 1 .. N : s[k] = B[q]
    BY <1>1
  <2>3. f[UnitAt(k, p)] = g[n]
    <3>1. f[UnitAt(k, p)] = <<"record", p, s[k]>>
      BY <1>4
    <3>2. g[UnitAt(q, p)] = <<"record", p, B[q]>>
      BY <1>5
    <3>3. QED
      BY <2>1, <2>2, <3>1, <3>2
  <2>4. UnitAt(k, p) \in 1 .. M
    BY <1>1, <1>2, UnitOf
  <2>5. DOMAIN f = 1 .. M
    BY <1>4
  <2>6. QED
    BY <1>3, <2>3, <2>4, <2>5 DEF UnitsOf, ToSet
<1>7. DOMAIN g = 1 .. m
  BY <1>5
<1>8. g \in Seq(UnitsOf(s))
  BY <1>5, <1>6, <1>7
<1>9. QED
  BY <1>1, <1>2, <1>3, <1>5, <1>8

\* The units of the output.
OutputUnits == UnitsOf(Turned(schematic, rotation)) \cup {Unwritten}

\* A reserved buffer has none.
LEMMA ReserveKeeps ==
    ASSUME NEW U, Unwritten \in U, NEW m \in Nat
    PROVE  Reserve(NewBuffer, m) \in Buffers(U) /\ NewBuffer \in Buffers(U)
<1>1. PICK x : x = Extent(<<>>, m)
  OBVIOUS
<1>2. x = [n \in 1 .. m |-> IF n \in DOMAIN <<>> THEN <<>>[n] ELSE Unwritten]
  BY <1>1 DEF Extent
<1>3. \A n \in 1 .. m : n \notin DOMAIN <<>>
  OBVIOUS
<1>4. \A n \in 1 .. m : x[n] = Unwritten
  BY <1>2, <1>3
<1>5. x \in [1 .. m -> U]
  BY <1>2, <1>4
<1>6. x \in Seq(U) /\ Len(x) = m /\ <<>> \in Seq(U) /\ Len(<<>>) = 0
  BY <1>5, EmptySeq
<1>7. PICK b : b = NewBuffer
  OBVIOUS
<1>8. b = [spilled |-> FALSE, memory |-> <<>>, file |-> <<>>, position |-> 0, length |-> 0]
  BY <1>7 DEF NewBuffer
<1>9. b \in Buffers(U)
  BY <1>6, <1>8 DEF Buffers
<1>10. PICK c : c = Reserve(b, m)
  OBVIOUS
<1>11. CASE m > Threshold
  <2>1. c = [spilled |-> TRUE, memory |-> <<>>, file |-> x, position |-> m, length |-> m]
    BY <1>1, <1>8, <1>10, <1>11 DEF Reserve, Spilled
  <2>2. QED
    BY <1>6, <1>7, <1>9, <1>10, <2>1 DEF Buffers
<1>12. CASE ~(m > Threshold)
  <2>1. c = [spilled |-> FALSE, memory |-> x, file |-> <<>>, position |-> 0, length |-> m]
    BY <1>1, <1>8, <1>10, <1>12 DEF Reserve
  <2>2. QED
    BY <1>6, <1>7, <1>9, <1>10, <2>1 DEF Buffers
<1>13. QED
  BY <1>11, <1>12

\* A batch writes units of the turned records.
LEMMA ScatterKeepsUnits ==
    ASSUME InputsInv, PlanInv, Scatter, output \in Buffers(OutputUnits)
    PROVE  output' \in Buffers(OutputUnits)
<1>1. PICK s \in Seq(Quads) : s = Turned(schematic, rotation) /\ Len(s) = Len(schematic.records)
  BY RecordsTurned DEF TurnedTo
<1>2. PICK N, U : N \in Nat /\ N = Len(s) /\ U = UnitsOf(s) \cup {Unwritten}
  BY LenProperties
<1>3. PICK a, M : a = anchor /\ M = InMemoryRecords(s, a)
  OBVIOUS
<1>4. /\ pc = "scatter" /\ Scattered
      /\ batch \in 0 .. N /\ batch < N
  BY <1>1, <1>2 DEF Scatter, PlanInv
<1>5. PICK n \in 0 .. N : n = batch /\ n < N
  BY <1>4
<1>6. PICK m : m = Min({n + BatchRecords, N})
  OBVIOUS
<1>7. m \in 0 .. Len(s) /\ n \in 0 .. m
  <2>1. PICK b \in Nat, g \in Nat : b = BatchRecords /\ g = n + b
    BY PlannerAssumption
  <2>2. m = IF g <= N THEN g ELSE N
    <3>1. m = Min({g, N})
      BY <1>6, <2>1
    <3>2. g \in Int /\ N \in Int
      BY <1>2
    <3>3. Min({g, N}) = IF g <= N THEN g ELSE N
      BY <3>2, MaxMin
    <3>4. QED
      BY <3>1, <3>3
  <2>3. QED
    BY <1>2, <2>1, <2>2
<1>8. PICK ch, C, e : /\ Plans(ch, C, e, M, s, a) /\ ranges = LaidOut(ch, C, e)
                      /\ Filled(output, offsets, ch, C, e, M, s, a, n)
  BY <1>1, <1>3, <1>4, <1>5 DEF Scattered
<1>9. Batch(batch) = SubSeq(s, n + 1, m)
  BY <1>1, <1>2, <1>5, <1>6 DEF Batch
<1>10. PICK bucket : bucket = [c \in DOMAIN offsets |-> Bucket(SubSeq(s, n + 1, m), a, c)]
  OBVIOUS
<1>11. BucketsOf(bucket, s, a, ch, C, n, m)
  BY <1>8, <1>10 DEF Filled, BucketsOf
<1>12. output' = BucketsWritten(bucket)
  BY <1>3, <1>9, <1>10 DEF Scatter
<1>13. PICK f \in [0 .. C -> RecordBuffers(Len(s))] : Writes(f, output, offsets, ch, C, bucket)
  BY <1>7, <1>8, <1>11, WriteExists
<1>14. C \in Nat
  BY <1>8 DEF Plans
<1>15. output' = f[C]
  BY <1>8, <1>12, <1>13, <1>14, BucketsWrittenIs
<1>16. PICK S : S = {k \in 0 .. C : f[k] \in Buffers(U)}
  OBVIOUS
<1>17. 0 \in S
  BY <1>1, <1>2, <1>13, <1>14, <1>16 DEF Writes, OutputUnits
<1>18. ASSUME NEW k \in 1 .. C, k - 1 \in S PROVE k \in S
  <2>1. NextPart(e, M, s, a, ch, k, n, m)
    BY <1>7, <1>8, BatchContinues
  <2>2. PICK B : B = bucket[ch[k]] /\ B = Bucket(SubSeq(s, n + 1, m), a, ch[k])
    BY <1>11 DEF BucketsOf
  <2>3. k - 1 \in 0 .. C
    BY <1>14
  <2>4. PICK x \in Nat, p \in Nat, l \in Nat :
          x = e[k - 1] /\ p = Given(s, a, ch[k], n) /\ l = Len(B) /\ B \in Seq(Quads)
    BY <1>8, <2>1, <2>2, <2>3, LenProperties DEF NextPart, Plans
  <2>5. x + (p + l) <= N
    BY <1>2, <2>1, <2>2, <2>4 DEF NextPart
  <2>6. PICK o \in Nat : o = offsets[ch[k]] /\ o + l <= N
    <3>1. offsets[ch[k]] = e[k - 1] + Given(s, a, ch[k], n)
      BY <1>8 DEF Filled
    <3>2. x + p \in Nat /\ (x + p) + l <= N
      BY <2>5
    <3>3. QED
      BY <2>4, <3>1, <3>2
  <2>7. \A i \in 1 .. Len(B) : \E j \in 1 .. Len(s) : s[j] = B[i]
    <3>1. PICK t \in Seq(Quads) : /\ t = SubSeq(s, n + 1, m) /\ IsPiece(t, s, n, m - n)
      <4>1. n \in Nat /\ m \in n .. Len(s)
        BY <1>7
      <4>2. QED
        BY <4>1, PieceIs
    <3>2. ASSUME NEW i \in 1 .. Len(t) PROVE \E j \in 1 .. Len(s) : s[j] = t[i]
      <4>1. Len(t) = m - n /\ t[i] = s[n + i] /\ n + i \in 1 .. Len(s)
        BY <1>2, <1>7, <3>1 DEF IsPiece
      <4>2. QED
        BY <4>1
    <3>3. \A i \in 1 .. Len(B) : \E j \in 1 .. Len(t) : t[j] = B[i]
      <4>1. B = Bucket(t, a, ch[k])
        BY <2>2, <3>1
      <4>2. PICK c : c = ch[k]
        OBVIOUS
      <4>3. \A i \in 1 .. Len(Bucket(t, a, c)) : \E j \in 1 .. Len(t) : t[j] = Bucket(t, a, c)[i]
        BY BucketElements
      <4>4. QED
        BY <4>1, <4>2, <4>3
    <3>4. QED
      BY <3>2, <3>3
  <2>8. PICK packed \in Seq(U) : packed = Packed(B) /\ Len(packed) = l * RecordSize
    BY <1>2, <2>4, <2>7, UnitsAmong, SeqMonotonic
  <2>9. PICK R \in Nat, at \in Nat, z \in Nat : R = RecordSize /\ at = o * R /\ z = N * R
    <3>1. ASSUME NEW R \in Nat, NEW i \in Nat PROVE i * R \in Nat
      OBVIOUS
    <3>2. QED
      BY <1>2, <3>1, RecordStoreAssumption
  <2>10. at + Len(packed) <= z
    <3>1. (o + l) * R <= N * R
      <4>1. o + l \in Int /\ o + l <= N
        BY <2>6
      <4>2. QED
        BY <1>2, <4>1, TimesGrows
    <3>2. (o + l) * R = o * R + l * R
      BY Times
    <3>3. QED
      BY <2>8, <2>9, <3>1, <3>2
  <2>11. PICK b : b = f[k - 1] /\ b \in Buffers(U) /\ b.length = z
    BY <1>2, <1>13, <1>16, <1>18, <2>3, <2>9 DEF RecordBuffers, RecordBuffer
  <2>12. f[k] = WriteAt(b, at, packed)
    BY <1>13, <2>2, <2>6, <2>8, <2>9, <2>11 DEF Writes
  <2>13. WriteAt(b, at, packed) \in Buffers(U)
    BY <2>10, <2>11, WriteAtKeeps
  <2>14. QED
    BY <1>16, <2>12, <2>13
<1>19. C \in S
  <2>1. \A k \in 0 .. C : k \in S
    BY <1>14, <1>17, <1>18, UpTo
  <2>2. QED
    BY <1>14, <2>1
<1>20. output' \in Buffers(U) /\ OutputUnits = U
  BY <1>1, <1>2, <1>15, <1>16, <1>19 DEF OutputUnits
<1>21. QED
  BY <1>20

\* The stages of a load, an export and a plan.
Stages == {"load", "loaded", "validate", "count", "scatter", "planned", "refused",
           "exported", "unexported"}

TypeInv ==
    /\ anchor \in Anchors \cup {<<0, 0, 0>>}
    /\ pc \in Stages
    /\ pc \in {"loaded", "validate", "count"} => ranges = <<>> /\ offsets = <<>>
    /\ pc \in {"scatter", "planned"} => output \in Buffers(OutputUnits)

\* Reading and exporting leave the plan alone.
LEMMA TypeKept ==
    ASSUME TypeInv, UNCHANGED planVars,
           pc' = pc \/ pc' \in {"exported", "unexported"}
    PROVE  TypeInv'
BY DEF planVars, OutputUnits, TypeInv, Stages

\* Every step keeps the types.
LEMMA StepKeepsTypes ==
    ASSUME LoadInv, TypeInv, [LoadNext]_<<vars, loadVars>>
    PROVE  TypeInv'
<1>1. ASSUME NEW size \in PieceSizes, Read(size) PROVE TypeInv'
  BY <1>1, TypeKept DEF Read
<1>2. CASE FinishLoad
  BY <1>2 DEF FinishLoad, LoadInv, PlacementInv, TypeInv, Unplanned, Stages
<1>3. CASE ExportWorldEdit
  BY <1>3, TypeKept DEF ExportWorldEdit
<1>4. CASE Next /\ UNCHANGED loadVars
  <2>1. ASSUME NEW b \in Anchors, NEW r \in Rotations, Request(b, r) PROVE TypeInv'
    BY <2>1 DEF Request, TypeInv, Stages
  <2>2. CASE Validate
    BY <2>2 DEF Validate, TypeInv, Stages, inputs
  <2>3. CASE Count
    <3>1. /\ output = NewBuffer /\ pc' = "scatter" /\ anchor' = anchor
          /\ schematic' = schematic /\ rotation' = rotation
          /\ output' = Reserve(output, Len(schematic.records) * RecordSize)
      BY <2>3 DEF Count, LoadInv, PlanInv, inputs
    <3>2. PICK m \in Nat : m = Len(schematic.records) * RecordSize
      BY LenProperties, RecordStoreAssumption DEF LoadInv, InputsInv, InBox
    <3>3. PICK U : U = OutputUnits
      OBVIOUS
    <3>4. Reserve(NewBuffer, m) \in Buffers(U)
      BY <3>2, <3>3, ReserveKeeps DEF OutputUnits
    <3>5. OutputUnits' = OutputUnits
      BY <3>1 DEF OutputUnits
    <3>6. output' \in Buffers(OutputUnits')
      BY <3>1, <3>2, <3>3, <3>4, <3>5
    <3>7. QED
      BY <3>1, <3>6 DEF TypeInv, Stages
  <2>4. CASE Scatter
    BY <2>4, ScatterKeepsUnits DEF Scatter, inputs, LoadInv, TypeInv, OutputUnits, Stages
  <2>5. CASE Finish
    BY <2>5 DEF Finish, inputs, OutputUnits, TypeInv, Stages
  <2>6. QED
    BY <1>4, <2>1, <2>2, <2>3, <2>4, <2>5 DEF Next
<1>5. CASE UNCHANGED <<vars, loadVars>>
  BY <1>5, TypeKept DEF vars, inputs, planVars
<1>6. QED
  BY <1>1, <1>2, <1>3, <1>4, <1>5 DEF LoadNext

\* A buffer that collects pieces of the stream.
LEMMA CollectedIsBuffer ==
    ASSUME NEW b, NEW content, Collects(b, content), NEW U, ToSet(content) \subseteq U
    PROVE  b \in Buffers(U)
BY SeqMonotonic DEF Collects, Buffers, Content

\* What the decoder has read and kept.
LEMMA DecoderTypes ==
    ASSUME PayloadInv
    PROVE  /\ read \in 0 .. Len(file.stream)
           /\ decoder.records \in Buffers(ToSet(file.stream) \cup {Unwritten})
           /\ Len(decoder.buffer) <= read
<1>1. PICK p, h, raw, d, k : /\ p = PrefixFor(saved, damage) /\ h = HeaderFor(saved, damage)
                             /\ raw = file.stream /\ d = decoder /\ k = read
  OBVIOUS
<1>2. Begins(raw, p, h) /\ Streams(raw, p, h, d, k)
  BY <1>1, FileBegins DEF PayloadInv, Reading
<1>3. PICK n \in Nat : n = Len(raw) /\ raw \in Seq(ToSet(raw)) /\ k \in 0 .. n
  BY <1>2, LenProperties DEF Begins, Streams
<1>4. PICK U : U = ToSet(raw) \cup {Unwritten}
  OBVIOUS
<1>5. NewBuffer \in Buffers(U)
  BY <1>4, ReserveKeeps
<1>6. d.records \in Buffers(U) /\ Len(d.buffer) <= k
  <2>1. CASE HasFailed(raw, p, h, d, k)
    BY <1>3, <1>5, <2>1 DEF HasFailed
  <2>2. CASE Waits(raw, d, k)
    <3>1. PICK b : b = SubSeq(raw, 1, k)
      OBVIOUS
    <3>2. d = [buffer |-> b, failed |-> FALSE, head |-> <<>>, records |-> NewBuffer]
      BY <2>2, <3>1 DEF Waits
    <3>3. d.records = NewBuffer /\ d.buffer = b
      BY <3>2
    <3>4. Opens(b, k, raw)
      BY <1>3, <3>1, FirstUnits
    <3>5. Len(b) = k
      BY <3>4 DEF Opens
    <3>6. QED
      BY <1>3, <1>5, <3>3, <3>5
  <2>3. CASE HasParsed(raw, p, h, d, k)
    <3>1. PICK head : head = <<h, EntitiesIn(EntitiesAt(raw, p, h)), p.count>>
      OBVIOUS
    <3>2. d = [buffer |-> <<>>, failed |-> FALSE, head |-> head, records |-> d.records]
      BY <2>3, <3>1 DEF HasParsed
    <3>3. d.buffer = <<>> /\ Len(<<>>) = 0
      BY <3>2
    <3>4. PICK e : /\ e = HeadEnd(p, h) /\ e \in Nat /\ e <= k
                   /\ Collects(d.records, SubSeq(raw, e + 1, k))
      BY <1>2, <2>3, HeadEndIs DEF HasParsed
    <3>5. PICK x, V : x = SubSeq(raw, e + 1, k) /\ V = ToSet(raw)
      OBVIOUS
    <3>6. x \in Seq(V)
      BY <1>3, <3>4, <3>5, PieceIs
    <3>7. ToSet(x) \subseteq U
      <4>1. DOMAIN x = 1 .. Len(x) /\ \A i \in 1 .. Len(x) : x[i] \in V
        BY <3>6, LenProperties
      <4>2. QED
        BY <1>4, <3>5, <4>1 DEF ToSet
    <3>8. d.records \in Buffers(U)
      BY <3>4, <3>5, <3>7, CollectedIsBuffer
    <3>9. QED
      BY <1>3, <3>3, <3>8
  <2>4. QED
    BY <1>2, <2>1, <2>2, <2>3 DEF Streams
<1>7. QED
  BY <1>1, <1>3, <1>4, <1>6

\* The ranges of a plan are not empty.
LEMMA RangesTyped ==
    ASSUME LoadInv, TypeInv, pc \notin {"load", "exported", "unexported"}
    PROVE  /\ \A n \in DOMAIN ranges : 0 <= ranges[n].start /\ ranges[n].start < ranges[n].end
           /\ DOMAIN offsets = {ranges[n].chunk : n \in DOMAIN ranges}
           /\ batch \in 0 .. Len(schematic.records)
<1>1. schematic.records \in Seq(Quads)
  BY DEF LoadInv, InputsInv, InBox
<1>2. PICK N \in Nat : N = Len(schematic.records)
  BY <1>1, LenProperties
<1>3. CASE pc \in {"loaded", "validate", "count", "refused"}
  <2>1. ranges = <<>> /\ offsets = <<>> /\ batch = 0
    BY <1>3 DEF LoadInv, PlacementInv, PlanInv, TypeInv, Unplanned
  <2>2. QED
    BY <1>2, <2>1
<1>4. CASE pc \in {"scatter", "planned"}
  <2>1. batch \in 0 .. N /\ Scattered
    BY <1>2, <1>4 DEF LoadInv, PlanInv
  <2>2. PICK s \in Seq(Quads) : s = Turned(schematic, rotation)
    BY RecordsTurned DEF TurnedTo, LoadInv
  <2>3. PICK a, M : a = anchor /\ M = InMemoryRecords(s, a)
    OBVIOUS
  <2>4. PICK ch, C, e : /\ Plans(ch, C, e, M, s, a) /\ ranges = LaidOut(ch, C, e)
                        /\ Filled(output, offsets, ch, C, e, M, s, a, batch)
    BY <2>1, <2>2, <2>3 DEF Scattered
  <2>5. C \in Nat /\ e \in [0 .. C -> Nat] /\ Enumerates(ch, C, s, a)
        /\ \A k \in 1 .. C : e[k] = e[k - 1] + Len(Bucket(s, a, ch[k]))
    BY <2>4 DEF Plans
  <2>6. ASSUME NEW k \in 1 .. C PROVE 0 <= e[k - 1] /\ e[k - 1] < e[k]
    <3>1. PICK n \in 1 .. Len(s) : ch[k] = Target(s[n], a)
      BY <2>5 DEF Enumerates
    <3>2. PICK c, q : c = ch[k] /\ q = Bucket(s, a, c)
      OBVIOUS
    <3>3. /\ Len(Bucket(s, a, c)) \in Nat
          /\ \E i \in 1 .. Len(Bucket(s, a, c)) : Bucket(s, a, c)[i] = s[n]
      BY <3>1, <3>2, BucketElements
    <3>4. PICK l \in Nat : l = Len(Bucket(s, a, ch[k])) /\ l # 0
      BY <3>2, <3>3
    <3>5. k - 1 \in 0 .. C /\ k \in 0 .. C
      BY <2>5
    <3>6. PICK x \in Nat : x = e[k - 1]
      BY <2>5, <3>5
    <3>7. e[k] = x + l
      BY <2>5, <3>4, <3>6
    <3>8. QED
      BY <3>4, <3>6, <3>7
  <2>7. /\ DOMAIN ranges = 1 .. C
        /\ \A k \in 1 .. C : ranges[k].chunk = ch[k] /\ ranges[k].start = e[k - 1] /\ ranges[k].end = e[k]
    BY <2>4 DEF LaidOut
  <2>8. DOMAIN offsets = {ch[k] : k \in 1 .. C}
    BY <2>4 DEF Filled
  <2>9. {ranges[n].chunk : n \in DOMAIN ranges} = {ch[k] : k \in 1 .. C}
    BY <2>7
  <2>10. QED
    BY <1>2, <2>1, <2>6, <2>7, <2>8, <2>9
<1>5. QED
  BY <1>3, <1>4 DEF TypeInv, Stages

\* Types, from the invariants.
LEMMA TypesHold ==
    ASSUME LoadInv, TypeInv
    PROVE  LoadTypeOK
<1>1. CASE pc \in {"load", "exported", "unexported"}
  BY <1>1, DecoderTypes DEF LoadInv, PlacementInv, PayloadInv, DamageOk, LoadTypeOK
<1>2. CASE pc \notin {"load", "exported", "unexported"}
  <2>1. schematic.size \in Sizes /\ rotation \in Rotations
    BY DEF LoadInv, InputsInv
  <2>2. schematic.fullVolume \in BOOLEAN
    <3>1. PICK s : s = saved
      OBVIOUS
    <3>2. s = [size |-> s.size, palette |-> s.palette, fullVolume |-> s.fullVolume,
               records |-> s.records, entities |-> s.entities]
          /\ s.fullVolume \in BOOLEAN
      BY <3>1 DEF LoadInv, PayloadInv, SavedOk
    <3>3. NoPlacement(s).fullVolume = s.fullVolume
      BY <3>2 DEF NoPlacement
    <3>4. Returned(s, damage).fullVolume = s.fullVolume
      BY <3>2 DEF Returned
    <3>5. schematic = NoPlacement(s) \/ schematic = Returned(s, damage)
      BY <1>2, <3>1 DEF LoadInv, PlacementInv
    <3>6. QED
      BY <3>2, <3>3, <3>4, <3>5
  <2>3. anchor \in Anchors \cup {<<0, 0, 0>>}
    BY DEF TypeInv
  <2>4. pc \in {"loaded", "validate", "count", "scatter", "planned", "refused"}
    BY <1>2 DEF TypeInv, Stages
  <2>5. output \in Buffers(OutputUnits)
    BY <2>4, ReserveKeeps DEF TypeInv, LoadInv, PlanInv, PlacementInv, Unplanned, OutputUnits
  <2>6. TypeOK
    BY <1>2, <2>1, <2>2, <2>3, <2>4, <2>5, RangesTyped DEF TypeOK, OutputUnits
  <2>7. QED
    BY <1>2, <2>6, DecoderTypes DEF LoadInv, PayloadInv, DamageOk, LoadTypeOK
<1>3. QED
  BY <1>1, <1>2

\* Through every load, refusal, export and plan the variables keep their types: buffers stay
\* within their length, the decoder's records are its buffer's, the ranges lie in the plan.
THEOREM LoadAlwaysTyped == LoadSpec => []LoadTypeOK
<1>1. LoadInit => TypeInv
  BY DEF LoadInit, Unplanned, TypeInv, Stages
<1>2. LoadInv /\ TypeInv /\ [LoadNext]_<<vars, loadVars>> => TypeInv'
  BY StepKeepsTypes
<1>3. LoadInv /\ TypeInv => LoadTypeOK
  BY TypesHold
<1>4. QED
  BY <1>1, <1>2, <1>3, LoadStays, PTL DEF LoadSpec

----------------------------------------------------------------------------
(* The palette of the Sponge file, and names seen from Java. *)

\* The names that a palette of the Sponge file can have.
NamesOf(palette) == {Air} \cup {JavaName[palette[i]] : i \in DOMAIN palette}

\* A palette with air first, every name once, and the names of the first k blocks.
Named(q, palette, k) ==
    /\ q \in Seq(NamesOf(palette)) /\ Len(q) > 0 /\ q[1] = Air
    /\ \A i, j \in 1 .. Len(q) : q[i] = q[j] => i = j
    /\ \A i \in 1 .. k : \E j \in 1 .. Len(q) : q[j] = JavaName[palette[i]]

\* One more block keeps it so.
LEMMA NamedNext ==
    ASSUME NEW palette, NEW n \in Nat, DOMAIN palette = 1 .. n, NEW k \in 1 .. n,
           NEW q, Named(q, palette, k - 1)
    PROVE  Named(WithName(q, JavaName[palette[k]]), palette, k)
<1>1. PICK V, name : name \in V /\ V = NamesOf(palette) /\ name = JavaName[palette[k]]
  BY DEF NamesOf
<1>2. q \in Seq(V)
  BY <1>1 DEF Named
<1>3. PICK l \in Nat : l = Len(q) /\ DOMAIN q = 1 .. l
  BY <1>2, LenProperties
<1>4. l > 0 /\ q[1] = Air /\ \A i, j \in 1 .. l : q[i] = q[j] => i = j
  BY <1>3 DEF Named
<1>5. \A i \in 1 .. k - 1 : \E j \in 1 .. l : q[j] = JavaName[palette[i]]
  BY <1>3 DEF Named
<1>6. CASE \E j \in 1 .. l : q[j] = name
  <2>1. WithName(q, name) = q
    BY <1>3, <1>6 DEF WithName, ToSet
  <2>2. ASSUME NEW i \in 1 .. k PROVE \E j \in 1 .. l : q[j] = JavaName[palette[i]]
    BY <1>1, <1>5, <1>6
  <2>3. Named(q, palette, k)
    BY <1>1, <1>2, <1>3, <1>4, <2>2 DEF Named
  <2>4. QED
    BY <1>1, <2>1, <2>3
<1>7. CASE ~ \E j \in 1 .. l : q[j] = name
  <2>1. PICK r : r = Append(q, name)
    OBVIOUS
  <2>2. WithName(q, name) = r
    BY <1>3, <1>7, <2>1 DEF WithName, ToSet
  <2>3. r \in Seq(V) /\ Len(r) = l + 1 /\ r[l + 1] = name /\ \A i \in 1 .. l : r[i] = q[i]
    BY <1>1, <1>2, <1>3, <2>1, AppendProperties
  <2>4. 1 \in 1 .. l /\ l + 1 > 0
    BY <1>4
  <2>5. ASSUME NEW i \in 1 .. l + 1, NEW j \in 1 .. l + 1, r[i] = r[j] PROVE i = j
    <3>1. CASE i = l + 1 /\ j = l + 1
      BY <3>1
    <3>2. CASE i # l + 1 /\ j = l + 1
      BY <1>7, <2>3, <2>5, <3>2
    <3>3. CASE i = l + 1 /\ j # l + 1
      BY <1>7, <2>3, <2>5, <3>3
    <3>4. CASE i # l + 1 /\ j # l + 1
      BY <1>4, <2>3, <2>5, <3>4
    <3>5. QED
      BY <3>1, <3>2, <3>3, <3>4
  <2>6. ASSUME NEW i \in 1 .. k PROVE \E j \in 1 .. l + 1 : r[j] = JavaName[palette[i]]
    BY <1>1, <1>5, <2>3
  <2>7. Named(r, palette, k)
    BY <1>1, <1>4, <2>3, <2>4, <2>5, <2>6 DEF Named
  <2>8. QED
    BY <1>1, <2>2, <2>7
<1>8. QED
  BY <1>6, <1>7

\* The output palette starts with air and has every name of the palette once.
LEMMA JavaPaletteIs ==
    ASSUME NEW palette, palette \in Seq(ToSet(palette))
    PROVE  Named(JavaPalette(palette), palette, Len(palette))
<1>1. PICK n \in Nat : n = Len(palette) /\ DOMAIN palette = 1 .. n
  BY LenProperties
<1>2. PICK names : names = [k \in 1 .. n |-> JavaName[palette[k]]]
  OBVIOUS
<1>3. PICK V : V = NamesOf(palette)
  OBVIOUS
<1>4. PICK air \in Seq(V) : air = <<Air>>
  <2>1. Air \in V
    BY <1>3 DEF NamesOf
  <2>2. <<Air>> \in Seq(V)
    BY <2>1
  <2>3. QED
    BY <2>2
<1>5. PICK g : g = [k \in 1 .. n |-> [v \in Seq(V) |-> WithName(v, names[k])]]
  OBVIOUS
<1>6. g \in [1 .. n -> [Seq(V) -> Seq(V)]]
  BY <1>1, <1>2, <1>3, <1>5, AppendProperties DEF NamesOf, WithName
<1>7. PICK f \in [0 .. n -> Seq(V)] : Iterates(f, air, g, n)
  BY <1>4, <1>6, IterateExists
<1>8. ASSUME NEW k \in 0 .. n
      PROVE  f[k] = IF k = 0 THEN <<Air>> ELSE WithName(f[k - 1], JavaName[palette[k]])
  <2>1. CASE k = 0
    BY <1>4, <1>7, <2>1 DEF Iterates
  <2>2. CASE k # 0
    <3>1. k \in 1 .. n /\ k - 1 \in 0 .. n
      BY <2>2
    <3>2. f[k] = g[k][f[k - 1]] /\ f[k - 1] \in Seq(V)
      BY <1>7, <3>1 DEF Iterates
    <3>3. f[k] = WithName(f[k - 1], names[k]) /\ names[k] = JavaName[palette[k]]
      BY <1>2, <1>5, <3>1, <3>2
    <3>4. QED
      BY <2>2, <3>3
  <2>3. QED
    BY <2>1, <2>2
<1>9. f = [k \in 0 .. n |-> IF k = 0 THEN <<Air>> ELSE WithName(f[k - 1], JavaName[palette[k]])]
  BY <1>8
<1>10. PICK e : /\ e = [k \in 0 .. n |->
                          IF k = 0 THEN <<Air>> ELSE WithName(e[k - 1], JavaName[palette[k]])]
                /\ JavaPalette(palette) = e[n]
  BY <1>1, <1>9 DEF JavaPalette
<1>11. e[0] = <<Air>> /\ \A k \in 1 .. n : e[k] = WithName(e[k - 1], JavaName[palette[k]])
  <2>1. 0 \in 0 .. n /\ \A k \in 1 .. n : k \in 0 .. n /\ k # 0
    OBVIOUS
  <2>2. QED
    BY <1>10, <2>1
<1> DEFINE S == {k \in 0 .. n : Named(e[k], palette, k)}
<1>12. 0 \in S
  <2>1. air \in Seq(NamesOf(palette)) /\ Len(air) = 1 /\ air[1] = Air
    BY <1>3, <1>4
  <2>2. \A i \in 1 .. 1 : i = 1
    OBVIOUS
  <2>3. \A i \in 1 .. 0 : FALSE
    OBVIOUS
  <2>4. Named(air, palette, 0)
    BY <2>1, <2>2, <2>3 DEF Named
  <2>5. e[0] = air /\ 0 \in 0 .. n
    BY <1>4, <1>11
  <2>6. QED
    BY <2>4, <2>5
<1>13. ASSUME NEW k \in 1 .. n, k - 1 \in S PROVE k \in S
  <2>1. Named(e[k - 1], palette, k - 1)
    BY <1>13
  <2>2. Named(WithName(e[k - 1], JavaName[palette[k]]), palette, k)
    BY <1>1, <2>1, NamedNext
  <2>3. QED
    BY <1>11, <2>2
<1> HIDE DEF S
<1>14. \A k \in 0 .. n : k \in S
  BY <1>12, <1>13, UpTo
<1>15. n \in 0 .. n
  OBVIOUS
<1>16. QED
  BY <1>1, <1>10, <1>14, <1>15 DEF S

\* The index of a block in the output palette is that of its name.
LEMMA OutputIndexIs ==
    ASSUME NEW palette, palette \in Seq(ToSet(palette)), NEW b \in Nat, b < Len(palette)
    PROVE  /\ OutputIndex(palette, b) \in Nat
           /\ JavaPalette(palette)[OutputIndex(palette, b) + 1] = JavaName[palette[b + 1]]
<1>1. PICK q : q = JavaPalette(palette) /\ Named(q, palette, Len(palette))
  BY JavaPaletteIs
<1>2. PICK n \in Nat : n = Len(palette)
  BY LenProperties
<1>3. q \in Seq(NamesOf(palette))
  BY <1>1 DEF Named
<1>4. PICK l \in Nat : l = Len(q) /\ DOMAIN q = 1 .. l
  BY <1>3, LenProperties
<1>5. b + 1 \in 1 .. n
  BY <1>2
<1>6. \E j \in 1 .. l : q[j] = JavaName[palette[b + 1]]
  BY <1>1, <1>2, <1>4, <1>5 DEF Named
<1>7. PICK j : j = CHOOSE i \in 1 .. l : q[i] = JavaName[palette[b + 1]]
  OBVIOUS
<1>8. j \in 1 .. l /\ q[j] = JavaName[palette[b + 1]]
  BY <1>6, <1>7
<1>9. OutputIndex(palette, b) = j - 1
  BY <1>1, <1>4, <1>7 DEF OutputIndex
<1>10. j - 1 \in Nat /\ (j - 1) + 1 = j
  BY <1>8
<1>11. QED
  BY <1>1, <1>8, <1>9, <1>10

----------------------------------------------------------------------------
(* The digits of a varint. *)

\* A number of more than one digit has fewer without the last.
LEMMA Quotient ==
    ASSUME NEW v \in Nat, v >= VarintBase
    PROVE  /\ VarintBase \in Nat \ {0} /\ v \div VarintBase \in 0 .. v - 1
           /\ v % VarintBase \in 0 .. VarintBase - 1
           /\ v = (v \div VarintBase) * VarintBase + (v % VarintBase)
           /\ ((v % VarintBase) + VarintBase) % VarintBase = v % VarintBase
<1>1. PICK B \in Nat \ {0} : B = VarintBase /\ B >= 2
  BY SpongeAssumption
<1>2. PICK q \in Int, r \in 0 .. B - 1 : q = v \div B /\ r = v % B /\ v = q * B + r
  <2>1. v \in Int
    OBVIOUS
  <2>2. v \div B \in Int /\ v % B \in 0 .. B - 1 /\ v = (v \div B) * B + (v % B)
    BY <2>1, DivisionIs
  <2>3. QED
    BY <2>2
<1>3. q >= 0
  <2>1. SUFFICES ASSUME q + 1 <= 0 PROVE FALSE
    OBVIOUS
  <2>2. (q + 1) * B <= 0 * B /\ (q + 1) * B = q * B + B /\ q * B \in Int /\ 0 * B = 0
    BY <2>1, TimesGrows, TimesNext, Times
  <2>3. QED
    BY <1>2, <2>2
<1>4. q < v
  BY <1>1, <1>2, <1>3, Times, TimesGrows
<1>5. (r + B) % B = r
  BY DivisionOf
<1>6. QED
  BY <1>1, <1>2, <1>3, <1>4, <1>5

\* The bytes of v, if f has those of its quotient.
BytesNext(f, v) ==
    IF v < VarintBase THEN <<v>> ELSE <<(v % VarintBase) + VarintBase>> \o f[v \div VarintBase]

\* f has the bytes of the numbers up to n.
BytesTo(f, n) == f \in [0 .. n -> Seq(Nat)] /\ \A v \in 0 .. n : f[v] = BytesNext(f, v)

\* Bytes that follow from bytes are bytes.
LEMMA BytesNextIs ==
    ASSUME NEW v \in Nat, NEW f, v >= VarintBase => f[v \div VarintBase] \in Seq(Nat)
    PROVE  BytesNext(f, v) \in Seq(Nat)
<1>1. CASE v < VarintBase
  BY <1>1 DEF BytesNext
<1>2. CASE ~(v < VarintBase)
  <2>1. v >= VarintBase
    BY <1>2, SpongeAssumption
  <2>2. PICK byte \in Nat, s \in Seq(Nat) :
          byte = (v % VarintBase) + VarintBase /\ s = f[v \div VarintBase]
    <3>1. (v % VarintBase) + VarintBase \in Nat
      <4>1. VarintBase \in Nat /\ v % VarintBase \in 0 .. VarintBase - 1
        BY <2>1, Quotient
      <4>2. PICK B \in Nat, r \in Nat : B = VarintBase /\ r = v % VarintBase
        BY <4>1
      <4>3. r + B \in Nat
        OBVIOUS
      <4>4. QED
        BY <4>2, <4>3
    <3>2. f[v \div VarintBase] \in Seq(Nat)
      BY <2>1
    <3>3. QED
      BY <3>1, <3>2
  <2>3. <<byte>> \o s \in Seq(Nat)
    OBVIOUS
  <2>4. QED
    BY <1>2, <2>2, <2>3 DEF BytesNext
<1>3. QED
  BY <1>1, <1>2

\* There are such bytes for every number.
LEMMA BytesExist ==
    ASSUME NEW n \in Nat
    PROVE  \E f : BytesTo(f, n)
<1> DEFINE S == {k \in 0 .. n : \E f : BytesTo(f, k)}
<1>1. 0 \in S
  <2>1. PICK f : f = [v \in 0 .. 0 |-> <<0>>]
    OBVIOUS
  <2>2. 0 < VarintBase
    BY SpongeAssumption
  <2>3. f \in [0 .. 0 -> Seq(Nat)] /\ \A v \in 0 .. 0 : v = 0 /\ f[v] = <<v>>
    BY <2>1
  <2>4. BytesTo(f, 0)
    BY <2>2, <2>3 DEF BytesTo, BytesNext
  <2>5. QED
    BY <2>4
<1>2. ASSUME NEW k \in 1 .. n, k - 1 \in S PROVE k \in S
  <2>1. PICK f : BytesTo(f, k - 1)
    BY <1>2
  <2>2. f \in [0 .. k - 1 -> Seq(Nat)] /\ \A v \in 0 .. k - 1 : f[v] = BytesNext(f, v)
    BY <2>1 DEF BytesTo
  <2>3. k >= VarintBase => k \div VarintBase \in 0 .. k - 1
    BY Quotient
  <2>4. PICK s \in Seq(Nat) : s = BytesNext(f, k)
    BY <2>2, <2>3, BytesNextIs
  <2>5. PICK h : h = [v \in 0 .. k |-> IF v = k THEN s ELSE f[v]]
    OBVIOUS
  <2>6. h[k] = s /\ \A v \in 0 .. k - 1 : h[v] = f[v]
    BY <2>5
  <2>7. h \in [0 .. k -> Seq(Nat)]
    BY <2>2, <2>5
  <2>8. ASSUME NEW v \in 0 .. k PROVE h[v] = BytesNext(h, v)
    <3>1. h[v] = BytesNext(f, v)
      BY <2>2, <2>4, <2>6
    <3>2. CASE v < VarintBase
      BY <3>1, <3>2 DEF BytesNext
    <3>3. CASE ~(v < VarintBase)
      <4>1. v >= VarintBase
        BY <3>3, SpongeAssumption
      <4>2. v \div VarintBase \in 0 .. v - 1
        BY <4>1, Quotient
      <4>3. v \div VarintBase \in 0 .. k - 1
        BY <4>2
      <4>4. h[v \div VarintBase] = f[v \div VarintBase]
        BY <2>6, <4>3
      <4>5. QED
        BY <3>1, <3>3, <4>4 DEF BytesNext
    <3>4. QED
      BY <3>2, <3>3
  <2>9. BytesTo(h, k)
    BY <2>7, <2>8 DEF BytesTo
  <2>10. QED
    BY <2>9
<1> HIDE DEF S
<1>3. \A k \in 0 .. n : k \in S
  BY <1>1, <1>2, UpTo
<1>4. n \in S
  BY <1>3
<1>5. QED
  BY <1>4 DEF S

\* Bytes of the same number are the same.
LEMMA BytesAgree ==
    ASSUME NEW n \in Nat, NEW f, BytesTo(f, n), NEW m \in Nat, NEW h, BytesTo(h, m), NEW v \in 0 .. n,
           v \in 0 .. m
    PROVE  f[v] = h[v]
<1>1. SUFFICES ASSUME f[v] # h[v] PROVE FALSE
  OBVIOUS
<1>2. PICK D : D = {u \in Nat : u <= n /\ u <= m /\ f[u] # h[u]}
  OBVIOUS
<1>3. D \in SUBSET Nat /\ v \in D
  BY <1>1, <1>2
<1>4. PICK u \in D : \A w \in D : u <= w
  BY <1>3, LeastNatural
<1>5. u \in Nat /\ u \in 0 .. n /\ u \in 0 .. m /\ f[u] # h[u]
  BY <1>2, <1>4
<1>6. f[u] = BytesNext(f, u) /\ h[u] = BytesNext(h, u)
  BY <1>5 DEF BytesTo
<1>7. CASE u < VarintBase
  BY <1>5, <1>6, <1>7 DEF BytesNext
<1>8. CASE ~(u < VarintBase)
  <2>1. u >= VarintBase
    BY <1>5, <1>8, SpongeAssumption
  <2>2. PICK q \in Nat : q = u \div VarintBase /\ q < u
    BY <1>5, <2>1, Quotient
  <2>3. q \notin D
    BY <1>4, <1>5, <2>2
  <2>4. f[q] = h[q]
    BY <1>2, <1>5, <2>2, <2>3
  <2>5. QED
    BY <1>5, <1>6, <1>8, <2>2, <2>4 DEF BytesNext
<1>9. QED
  BY <1>7, <1>8

\* encode_varint ends with a byte below the base, or goes on with the quotient.
LEMMA VarintIs ==
    ASSUME NEW v \in Nat
    PROVE  /\ Varint(v) \in Seq(Nat)
           /\ v < VarintBase => Varint(v) = <<v>>
           /\ v >= VarintBase =>
                Varint(v) = <<(v % VarintBase) + VarintBase>> \o Varint(v \div VarintBase)
<1>1. PICK g : g = [n \in Nat |-> CHOOSE f : BytesTo(f, n)]
  OBVIOUS
<1>2. \A n \in Nat : BytesTo(g[n], n)
  BY <1>1, BytesExist
<1>3. PICK F : F = [n \in Nat |-> g[n][n]]
  OBVIOUS
<1>4. ASSUME NEW n \in Nat PROVE F[n] \in Seq(Nat) /\ F[n] = BytesNext(F, n)
  <2>1. BytesTo(g[n], n) /\ n \in 0 .. n
    BY <1>2
  <2>2. g[n][n] \in Seq(Nat) /\ g[n][n] = BytesNext(g[n], n)
    BY <2>1 DEF BytesTo
  <2>3. CASE n < VarintBase
    BY <1>3, <2>2, <2>3 DEF BytesNext
  <2>4. CASE ~(n < VarintBase)
    <3>1. n >= VarintBase
      BY <2>4, SpongeAssumption
    <3>2. PICK q \in Nat : q = n \div VarintBase /\ q \in 0 .. n /\ q \in 0 .. q
      BY <3>1, Quotient
    <3>3. g[n][q] = g[q][q]
      BY <1>2, <3>2, BytesAgree
    <3>4. F[q] = g[n][q]
      BY <1>3, <3>3
    <3>5. QED
      BY <1>3, <2>2, <2>4, <3>2, <3>4 DEF BytesNext
  <2>5. QED
    BY <2>3, <2>4
<1>5. F = [n \in Nat |-> IF n < VarintBase THEN <<n>>
                         ELSE <<(n % VarintBase) + VarintBase>> \o F[n \div VarintBase]]
  BY <1>3, <1>4 DEF BytesNext
<1>6. PICK e : /\ e = [n \in Nat |-> IF n < VarintBase THEN <<n>>
                                     ELSE <<(n % VarintBase) + VarintBase>> \o e[n \div VarintBase]]
               /\ \A n \in Nat : Varint(n) = e[n]
  BY <1>5 DEF Varint
<1>7. \A n \in Nat : e[n] = BytesNext(e, n)
  BY <1>6 DEF BytesNext
<1>8. \A n \in Nat : e[n] \in Seq(Nat)
  <2>1. SUFFICES ASSUME NEW o \in Nat, e[o] \notin Seq(Nat) PROVE FALSE
    OBVIOUS
  <2>2. PICK D : D = {n \in Nat : e[n] \notin Seq(Nat)}
    OBVIOUS
  <2>3. D \in SUBSET Nat /\ o \in D
    BY <2>1, <2>2
  <2>4. PICK u \in D : \A w \in D : u <= w
    BY <2>3, LeastNatural
  <2>5. u \in Nat /\ e[u] \notin Seq(Nat)
    BY <2>2, <2>4
  <2>6. ASSUME u >= VarintBase PROVE e[u \div VarintBase] \in Seq(Nat)
    <3>1. PICK q \in Nat : q = u \div VarintBase /\ q < u
      BY <2>5, <2>6, Quotient
    <3>2. q \notin D
      BY <2>4, <2>5, <3>1
    <3>3. QED
      BY <2>2, <3>1, <3>2
  <2>7. BytesNext(e, u) \in Seq(Nat)
    BY <2>5, <2>6, BytesNextIs
  <2>8. QED
    BY <1>7, <2>5, <2>7
<1>9. Varint(v) \in Seq(Nat) /\ Varint(v) = BytesNext(e, v)
  BY <1>6, <1>7, <1>8
<1>10. v < VarintBase => Varint(v) = <<v>>
  BY <1>9 DEF BytesNext
<1>11. ASSUME v >= VarintBase
       PROVE  Varint(v) = <<(v % VarintBase) + VarintBase>> \o Varint(v \div VarintBase)
  <2>1. PICK q \in Nat : q = v \div VarintBase
    BY <1>11, Quotient
  <2>2. e[q] = Varint(q)
    BY <1>6
  <2>3. ~(v < VarintBase)
    BY <1>11, SpongeAssumption
  <2>4. QED
    BY <1>9, <2>1, <2>2, <2>3 DEF BytesNext
<1>12. QED
  BY <1>9, <1>10, <1>11

----------------------------------------------------------------------------
(* Varints read byte by byte. *)

\* What a reader of varints has after some bytes.
Readers == [values : Seq(Nat), value : Nat, weight : Nat]
Began == [values |-> <<>>, value |-> 0, weight |-> 1]

\* It reads one byte after the other.
ReadsBytes(r, data, n) ==
    r[0] = Began /\ \A k \in 1 .. n : r[k] = AfterByte(r[k - 1], data[k])

\* After a byte, a reader is one.
LEMMA AfterByteIs ==
    ASSUME NEW a \in Readers, NEW byte \in Nat
    PROVE  /\ AfterByte(a, byte) \in Readers
           /\ byte < VarintBase =>
                AfterByte(a, byte) = [values |-> Append(a.values, a.value + byte * a.weight),
                                      value |-> 0, weight |-> 1]
           /\ byte >= VarintBase =>
                AfterByte(a, byte) = [values |-> a.values,
                                      value |-> a.value + (byte % VarintBase) * a.weight,
                                      weight |-> a.weight * VarintBase]
<1>1. PICK B \in Nat \ {0} : B = VarintBase
  BY SpongeAssumption
<1>2. PICK m \in Nat, x \in Nat, w \in Nat : m = byte % B /\ x = a.value /\ w = a.weight
  BY DEF Readers
<1>3. m * w \in Nat /\ w * B \in Nat
  OBVIOUS
<1>4. PICK y \in Nat : y = x + m * w
  BY <1>3
<1>5. a.values \in Seq(Nat) /\ Append(a.values, y) \in Seq(Nat)
  BY AppendProperties DEF Readers
<1>6. CASE byte < VarintBase
  <2>1. m = byte /\ ~(byte >= VarintBase)
    BY <1>1, <1>2, <1>6
  <2>2. AfterByte(a, byte) = [values |-> Append(a.values, y), value |-> 0, weight |-> 1]
    BY <1>1, <1>2, <1>4, <1>6 DEF AfterByte
  <2>3. y = a.value + byte * a.weight
    BY <1>2, <1>4, <2>1
  <2>4. QED
    BY <1>5, <2>1, <2>2, <2>3 DEF Readers
<1>7. CASE ~(byte < VarintBase)
  BY <1>1, <1>2, <1>3, <1>4, <1>5, <1>7 DEF AfterByte, Readers
<1>8. QED
  BY <1>6, <1>7

\* VarintsIn is what such a reader has at the end.
LEMMA VarintsInIs ==
    ASSUME NEW n \in Nat, NEW data \in [1 .. n -> Nat]
    PROVE  \E r \in [0 .. n -> Readers] :
             ReadsBytes(r, data, n) /\ VarintsIn(data) = r[n].values
<1>1. Len(data) = n
  OBVIOUS
<1>2. PICK g : g = [k \in 1 .. n |-> [a \in Readers |-> AfterByte(a, data[k])]]
  OBVIOUS
<1>3. g \in [1 .. n -> [Readers -> Readers]]
  BY <1>2, AfterByteIs
<1>4. Began \in Readers
  BY DEF Began, Readers
<1>5. PICK f \in [0 .. n -> Readers] : Iterates(f, Began, g, n)
  BY <1>3, <1>4, IterateExists
<1>6. ASSUME NEW k \in 0 .. n
      PROVE  f[k] = IF k = 0 THEN [values |-> <<>>, value |-> 0, weight |-> 1]
                    ELSE AfterByte(f[k - 1], data[k])
  BY <1>2, <1>5 DEF Iterates, Began
<1>7. f = [k \in 0 .. n |-> IF k = 0 THEN [values |-> <<>>, value |-> 0, weight |-> 1]
                            ELSE AfterByte(f[k - 1], data[k])]
  BY <1>6
<1>8. PICK e : /\ e = [k \in 0 .. n |->
                         IF k = 0 THEN [values |-> <<>>, value |-> 0, weight |-> 1]
                         ELSE AfterByte(e[k - 1], data[k])]
               /\ VarintsIn(data) = e[n].values
  BY <1>1, <1>7 DEF VarintsIn
<1>9. e[0] = Began /\ \A k \in 1 .. n : e[k] = AfterByte(e[k - 1], data[k])
  BY <1>8 DEF Began
<1> DEFINE S == {k \in 0 .. n : e[k] \in Readers}
<1>10. 0 \in S
  BY <1>4, <1>9
<1>11. ASSUME NEW k \in 1 .. n, k - 1 \in S PROVE k \in S
  <2>1. PICK a \in Readers : a = e[k - 1]
    BY <1>11
  <2>2. AfterByte(a, data[k]) \in Readers
    BY AfterByteIs
  <2>3. QED
    BY <1>9, <2>1, <2>2
<1> HIDE DEF S
<1>12. \A k \in 0 .. n : k \in S
  BY <1>10, <1>11, UpTo
<1>13. e \in [0 .. n -> Readers]
  BY <1>8, <1>12 DEF S
<1>14. QED
  BY <1>8, <1>9, <1>13 DEF ReadsBytes

\* These bytes lie behind the first o of the data.
BytesAt(data, n, o, b) ==
    o + Len(b) <= n /\ \A i \in 1 .. Len(b) : data[o + i] = b[i]

\* The reader takes the varint of v wherever it lies.
TakesVarint(r, data, n, v) ==
    \A o \in Nat : BytesAt(data, n, o, Varint(v)) =>
      r[o + Len(Varint(v))] = [values |-> Append(r[o].values, r[o].value + v * r[o].weight),
                               value |-> 0, weight |-> 1]

\* The value of a varint is that of its last digit and the rest.
LEMMA Weighs ==
    ASSUME NEW x \in Nat, NEW w \in Nat, NEW q \in Nat, NEW B \in Nat, NEW m \in Nat
    PROVE  (x + m * w) + q * (w * B) = x + (q * B + m) * w
<1>1. PICK a \in Int : a = q * B
  BY Times
<1>2. (a + m) * w = a * w + m * w
  BY Times
<1>3. (q * B) * w = q * (B * w) /\ B * w = w * B
  BY TimesAssociate, Times
<1>4. PICK b \in Int, c \in Int : b = a * w /\ c = m * w
  BY Times
<1>5. q * (w * B) = b
  BY <1>1, <1>3, <1>4
<1>6. (q * B + m) * w = b + c
  BY <1>1, <1>2, <1>4
<1>7. QED
  BY <1>4, <1>5, <1>6

\* A varint of one byte is taken.
LEMMA TakesLast ==
    ASSUME NEW n \in Nat, NEW data \in [1 .. n -> Nat], NEW r \in [0 .. n -> Readers],
           ReadsBytes(r, data, n), NEW v \in Nat, v < VarintBase
    PROVE  TakesVarint(r, data, n, v)
<1>1. PICK b : b = Varint(v) /\ b = <<v>>
  BY VarintIs
<1>2. SUFFICES ASSUME NEW o \in Nat, BytesAt(data, n, o, b)
               PROVE  r[o + Len(b)] = [values |-> Append(r[o].values, r[o].value + v * r[o].weight),
                                       value |-> 0, weight |-> 1]
  BY <1>1 DEF TakesVarint
<1>3. Len(b) = 1 /\ b[1] = v
  BY <1>1
<1>4. 1 \in 1 .. 1 /\ o + 1 <= n /\ data[o + 1] = v
  BY <1>2, <1>3 DEF BytesAt
<1>5. o + 1 \in 1 .. n /\ o \in 0 .. n /\ (o + 1) - 1 = o
  BY <1>4
<1>6. r[o + 1] = AfterByte(r[(o + 1) - 1], data[o + 1])
  BY <1>5 DEF ReadsBytes
<1>7. PICK a \in Readers : a = r[o]
  BY <1>5
<1>8. r[o + 1] = AfterByte(a, v)
  BY <1>4, <1>5, <1>6, <1>7
<1>9. QED
  BY <1>3, <1>7, <1>8, AfterByteIs

\* A byte with the flag and then the varint of the quotient are taken.
LEMMA TakesFirst ==
    ASSUME NEW n \in Nat, NEW data \in [1 .. n -> Nat], NEW r \in [0 .. n -> Readers],
           ReadsBytes(r, data, n), NEW v \in Nat, v >= VarintBase,
           TakesVarint(r, data, n, v \div VarintBase)
    PROVE  TakesVarint(r, data, n, v)
<1>1. PICK q \in Nat, m \in Nat, B \in Nat \ {0} :
        q = v \div VarintBase /\ m = v % VarintBase /\ B = VarintBase /\ v = q * B + m
        /\ (m + B) % B = m
  BY Quotient
<1>2. PICK b \in Seq(Nat), s \in Seq(Nat), byte \in Nat :
        b = Varint(v) /\ s = Varint(q) /\ byte = m + B /\ b = <<byte>> \o s
  <2>1. m + B \in Nat
    OBVIOUS
  <2>2. Varint(v) \in Seq(Nat) /\ Varint(q) \in Seq(Nat)
    BY VarintIs
  <2>3. Varint(v) = <<m + B>> \o Varint(q)
    BY <1>1, VarintIs
  <2>4. QED
    BY <2>1, <2>2, <2>3
<1>3. PICK l \in Nat : l = Len(s)
  BY LenProperties
<1>4. Len(b) = 1 + l /\ b[1] = byte /\ \A i \in 1 .. l : b[1 + i] = s[i]
  BY <1>2, <1>3, Joined DEF Joins
<1>5. SUFFICES ASSUME NEW o \in Nat, BytesAt(data, n, o, b)
               PROVE  r[o + Len(b)] = [values |-> Append(r[o].values, r[o].value + v * r[o].weight),
                                       value |-> 0, weight |-> 1]
  BY <1>2 DEF TakesVarint
<1>6. o + (1 + l) <= n /\ \A i \in 1 .. 1 + l : data[o + i] = b[i]
  BY <1>4, <1>5 DEF BytesAt
<1>7. PICK p \in Nat : p = o + 1 /\ p \in 1 .. n /\ p - 1 = o /\ o \in 0 .. n /\ p \in 0 .. n
                       /\ p + l <= n /\ o + (1 + l) = p + l
  BY <1>6
<1>8. data[p] = byte
  BY <1>4, <1>6, <1>7
<1>9. \A i \in 1 .. l : data[p + i] = s[i]
  <2>1. SUFFICES ASSUME NEW i \in 1 .. l PROVE data[p + i] = s[i]
    OBVIOUS
  <2>2. 1 + i \in 1 .. 1 + l /\ o + (1 + i) = p + i
    BY <1>7
  <2>3. QED
    BY <1>4, <1>6, <2>2
<1>10. BytesAt(data, n, p, s)
  BY <1>3, <1>7, <1>9 DEF BytesAt
<1>11. r[p + l] = [values |-> Append(r[p].values, r[p].value + q * r[p].weight),
                   value |-> 0, weight |-> 1]
  BY <1>1, <1>2, <1>3, <1>10 DEF TakesVarint
<1>12. PICK a \in Readers : a = r[o]
  BY <1>7
<1>13. r[p] = AfterByte(a, byte)
  BY <1>7, <1>8, <1>12 DEF ReadsBytes
<1>14. byte >= VarintBase /\ byte % VarintBase = m
  <2>1. byte = m + B /\ (m + B) % B = m /\ B = VarintBase
    BY <1>1, <1>2
  <2>2. m + B >= B
    OBVIOUS
  <2>3. QED
    BY <2>1, <2>2
<1>15. r[p] = [values |-> a.values, value |-> a.value + m * a.weight, weight |-> a.weight * B]
  BY <1>1, <1>13, <1>14, AfterByteIs
<1>16. PICK x \in Nat, w \in Nat : x = a.value /\ w = a.weight
  BY DEF Readers
<1>17. r[p].value + q * r[p].weight = x + v * w
  <2>1. (x + m * w) + q * (w * B) = x + (q * B + m) * w
    BY Weighs
  <2>2. r[p].value = x + m * w /\ r[p].weight = w * B
    BY <1>15, <1>16
  <2>3. QED
    BY <1>1, <2>1, <2>2
<1>18. r[p].values = a.values
  BY <1>15
<1>19. QED
  BY <1>4, <1>7, <1>11, <1>12, <1>16, <1>17, <1>18

\* Every varint is taken.
LEMMA VarintTaken ==
    ASSUME NEW n \in Nat, NEW data \in [1 .. n -> Nat], NEW r \in [0 .. n -> Readers],
           ReadsBytes(r, data, n), NEW v \in Nat
    PROVE  TakesVarint(r, data, n, v)
<1>1. SUFFICES ASSUME ~TakesVarint(r, data, n, v) PROVE FALSE
  OBVIOUS
<1>2. PICK D : D = {u \in Nat : ~TakesVarint(r, data, n, u)}
  OBVIOUS
<1>3. D \in SUBSET Nat /\ v \in D
  BY <1>1, <1>2
<1>4. PICK u \in D : \A w \in D : u <= w
  BY <1>3, LeastNatural
<1>5. u \in Nat /\ ~TakesVarint(r, data, n, u)
  BY <1>2, <1>4
<1>6. ~(u < VarintBase)
  BY <1>5, TakesLast
<1>7. u >= VarintBase
  BY <1>5, <1>6, SpongeAssumption
<1>8. PICK q \in Nat : q = u \div VarintBase /\ q < u
  BY <1>5, <1>7, Quotient
<1>9. q \notin D
  BY <1>4, <1>5, <1>8
<1>10. TakesVarint(r, data, n, u \div VarintBase)
  BY <1>2, <1>8, <1>9
<1>11. QED
  BY <1>5, <1>7, <1>10, TakesFirst

----------------------------------------------------------------------------
(* Varints one behind the other, and the digits of a place. *)

\* Varints one behind the other are read as the numbers they were written for.
LEMMA VarintsRead ==
    ASSUME NEW N \in Nat, NEW idx \in [1 .. N -> Nat]
    PROVE  VarintsIn(FlattenSeq([k \in 1 .. N |-> Varint(idx[k])])) = idx
<1>1. PICK seqs : seqs = [k \in 1 .. N |-> Varint(idx[k])]
  OBVIOUS
<1>2. \A k \in 1 .. N : idx[k] \in Nat /\ seqs[k] = Varint(idx[k])
  BY <1>1
<1>3. seqs \in [1 .. N -> Seq(Nat)] /\ Len(seqs) = N
  <2>1. \A k \in 1 .. N : Varint(idx[k]) \in Seq(Nat)
    BY <1>2, VarintIs
  <2>2. QED
    BY <1>1, <2>1
<1>4. PICK ends, data : ends = EndsOf(Lengths(seqs)) /\ data = FlattenSeq(seqs)
  OBVIOUS
<1>5. PICK counts \in [1 .. N -> Nat] : counts = Lengths(seqs)
  BY <1>3, LenProperties DEF Lengths
<1>6. ends \in [0 .. N -> Nat] /\ EndsAt(ends, counts, N)
  BY <1>4, <1>5, EndsOfIs
<1>7. data \in Seq(Nat) /\ FlatOf(data, seqs, ends, N)
  BY <1>3, <1>4, FlattenIs
<1>8. PICK n \in Nat : n = Len(data) /\ n = ends[N] /\ data \in [1 .. n -> Nat]
  BY <1>6, <1>7, LenProperties DEF FlatOf
<1>9. PICK r \in [0 .. n -> Readers] :
        ReadsBytes(r, data, n) /\ VarintsIn(data) = r[n].values
  BY <1>8, VarintsInIs
<1>10. PICK got : got = [k \in 0 .. N |-> [i \in 1 .. k |-> idx[i]]]
  OBVIOUS
<1>11. ASSUME NEW k \in 0 .. N
       PROVE  got[k] \in Seq(Nat) /\ Len(got[k]) = k /\ \A i \in 1 .. k : got[k][i] = idx[i]
  BY <1>2, <1>10
<1> DEFINE S == {k \in 0 .. N : r[ends[k]] = [values |-> got[k], value |-> 0, weight |-> 1]}
<1>12. 0 \in S
  BY <1>6, <1>9, <1>11 DEF EndsAt, ReadsBytes, Began
<1>13. ASSUME NEW k \in 1 .. N, k - 1 \in S PROVE k \in S
  <2>1. PICK b \in Seq(Nat), l \in Nat, v \in Nat :
          v = idx[k] /\ b = seqs[k] /\ b = Varint(v) /\ l = Len(b)
    BY <1>2, <1>3, LenProperties
  <2>2. counts[k] = l
    BY <1>3, <1>5, <2>1 DEF Lengths
  <2>3. k - 1 \in 0 .. N /\ k \in 0 .. N
    OBVIOUS
  <2>4. PICK o \in Nat : o = ends[k - 1] /\ ends[k] = o + l
    BY <1>6, <2>2, <2>3 DEF EndsAt
  <2>5. o + l <= n
    <3>1. N \in 0 .. N /\ k <= N
      OBVIOUS
    <3>2. ends[k] <= ends[N]
      BY <1>6, <2>3, <3>1, EndsGrow
    <3>3. QED
      BY <1>8, <2>4, <3>2
  <2>6. \A i \in 1 .. l : data[o + i] = b[i]
    BY <1>7, <2>1, <2>4 DEF FlatOf
  <2>7. BytesAt(data, n, o, b)
    BY <2>1, <2>5, <2>6 DEF BytesAt
  <2>8. TakesVarint(r, data, n, v)
    BY <1>8, <1>9, VarintTaken
  <2>9. r[o + l] = [values |-> Append(r[o].values, r[o].value + v * r[o].weight),
                    value |-> 0, weight |-> 1]
    BY <2>1, <2>7, <2>8 DEF TakesVarint
  <2>10. r[o] = [values |-> got[k - 1], value |-> 0, weight |-> 1]
    BY <1>13, <2>4
  <2>11. r[o].value + v * r[o].weight = v
    BY <2>10
  <2>12. Append(got[k - 1], v) = got[k]
    <3>1. PICK s \in Seq(Nat), t \in Seq(Nat), u \in Seq(Nat) :
            s = got[k - 1] /\ t = got[k] /\ u = Append(s, v)
      BY <1>11, <2>3, AppendProperties
    <3>2. Len(s) = k - 1 /\ Len(t) = k
      BY <1>11, <2>3, <3>1
    <3>3. Len(u) = k /\ u[k] = v /\ \A i \in 1 .. k - 1 : u[i] = s[i]
      BY <3>1, <3>2, AppendProperties
    <3>4. ASSUME NEW i \in 1 .. k PROVE u[i] = t[i]
      <4>1. t[i] = idx[i]
        BY <1>11, <2>3, <3>1
      <4>2. CASE i = k
        BY <2>1, <3>3, <4>1, <4>2
      <4>3. CASE i # k
        <5>1. i \in 1 .. k - 1
          BY <4>3
        <5>2. s[i] = idx[i]
          BY <1>11, <2>3, <3>1, <5>1
        <5>3. QED
          BY <3>3, <4>1, <5>1, <5>2
      <4>4. QED
        BY <4>2, <4>3
    <3>5. u = t
      BY <3>2, <3>3, <3>4, SeqEqual
    <3>6. QED
      BY <3>1, <3>5
  <2>13. r[o].values = got[k - 1]
    BY <2>10
  <2>14. r[o + l] = [values |-> got[k], value |-> 0, weight |-> 1]
    BY <2>9, <2>11, <2>12, <2>13
  <2>15. QED
    BY <2>3, <2>4, <2>14
<1> HIDE DEF S
<1>14. \A k \in 0 .. N : k \in S
  BY <1>12, <1>13, UpTo
<1>15. N \in S
  BY <1>14
<1>16. VarintsIn(data) = got[N]
  BY <1>8, <1>9, <1>15 DEF S
<1>17. got[N] = idx
  BY <1>10
<1>18. QED
  BY <1>1, <1>4, <1>16, <1>17

\* A nonempty set of numbers up to n has a greatest.
LEMMA GreatestNatural ==
    ASSUME NEW n \in Nat, NEW S \in SUBSET (1 .. n), S # {}
    PROVE  Max(S) \in S
<1>1. PICK D : D = {d \in Nat : n - d \in S}
  OBVIOUS
<1>2. PICK x \in S : TRUE
  OBVIOUS
<1>3. x \in 1 .. n /\ n - x \in Nat /\ n - (n - x) = x
  BY <1>2
<1>4. D \in SUBSET Nat /\ n - x \in D
  BY <1>1, <1>2, <1>3
<1>5. PICK d \in D : \A e \in D : d <= e
  BY <1>4, LeastNatural
<1>6. PICK m \in S : m = n - d /\ d \in Nat
  BY <1>1, <1>5
<1>7. ASSUME NEW y \in S PROVE m >= y
  BY <1>1, <1>5, <1>6
<1>8. QED
  BY <1>6, <1>7 DEF Max

\* The coordinates of a place are the digits of its number.
DigitsOf(k, q, s1, s3) ==
    k \in Int /\ k % s1 = q[1] /\ (k \div s1) % s3 = q[3] /\ k \div (s1 * s3) = q[2]

\* Every place of a box has a number of its own, below the volume.
LEMMA LinearIs ==
    ASSUME NEW size \in Sizes3, NEW p \in Box(size)
    PROVE  /\ Linear(p, size) \in 0 .. Volume(size) - 1
           /\ \A q \in Box(size) : Linear(p, size) = Linear(q, size) => p = q
<1>1. PICK s1 \in Nat \ {0}, s2 \in Nat \ {0}, s3 \in Nat \ {0} :
        size = <<s1, s2, s3>> /\ s1 = size[1] /\ s2 = size[2] /\ s3 = size[3]
  BY DEF Sizes3
<1>2. ASSUME NEW q \in Box(size)
      PROVE  /\ q = <<q[1], q[2], q[3]>> /\ q[1] \in 0 .. s1 - 1 /\ q[2] \in 0 .. s2 - 1
             /\ q[3] \in 0 .. s3 - 1
             /\ Linear(q, size) = Radix(q[2], q[3], q[1], s3, s1)
  <2>1. PICK x \in 0 .. s1 - 1, y \in 0 .. s2 - 1, z \in 0 .. s3 - 1 :
          q = <<x, y, z>> /\ q[1] = x /\ q[2] = y /\ q[3] = z
    BY <1>1 DEF Box
  <2>2. PICK a \in Int : a = y * s3
    BY Times
  <2>3. (a + z) * s1 = a * s1 + z * s1
    BY Times
  <2>4. y * s1 * s3 = a * s1
    BY <2>2, TimesAssociate, Times
  <2>5. PICK b \in Int, c \in Int : b = a * s1 /\ c = z * s1
    BY Times
  <2>6. x + c + b = (b + c) + x
    OBVIOUS
  <2>7. Linear(q, size) = x + (z * s1) + (y * s1 * s3)
    BY <1>1, <2>1 DEF Linear
  <2>8. QED
    BY <2>1, <2>2, <2>3, <2>4, <2>5, <2>6, <2>7 DEF Radix
<1>3. PICK m : m = Linear(p, size)
  OBVIOUS
<1>4. ASSUME NEW q \in Box(size)
      PROVE  DigitsOf(Linear(q, size), q, s1, s3)
  <2>1. PICK x \in 0 .. s1 - 1, y \in Int, z \in 0 .. s3 - 1 : x = q[1] /\ y = q[2] /\ z = q[3]
    BY <1>2
  <2>2. PICK k : k = Radix(y, z, x, s3, s1) /\ k = Linear(q, size)
    BY <1>2, <2>1
  <2>3. k \in Int /\ k % s1 = x /\ (k \div s1) % s3 = z /\ k \div (s1 * s3) = y
    <3>1. LET n == Radix(y, z, x, s3, s1)
          IN n \in Int /\ n % s1 = x /\ (n \div s1) % s3 = z /\ n \div (s1 * s3) = y
      BY RadixOf
    <3>2. QED
      BY <2>2, <3>1
  <2>4. QED
    BY <2>1, <2>2, <2>3 DEF DigitsOf
<1>5. m \in Int /\ m \div (s1 * s3) \in 0 .. s2 - 1
  BY <1>2, <1>3, <1>4 DEF DigitsOf
<1>6. m \in 0 .. s1 * s2 * s3 - 1
  BY <1>5, RadixBound
<1>7. ASSUME NEW q \in Box(size), m = Linear(q, size) PROVE p = q
  <2>1. DigitsOf(m, p, s1, s3) /\ DigitsOf(m, q, s1, s3)
    BY <1>3, <1>4, <1>7
  <2>2. p[1] = q[1] /\ p[2] = q[2] /\ p[3] = q[3]
    BY <2>1 DEF DigitsOf
  <2>3. QED
    BY <1>2, <2>2
<1>8. QED
  BY <1>1, <1>3, <1>6, <1>7 DEF Volume

----------------------------------------------------------------------------
(* The Sponge file of a scanned schematic. *)

\* The records of a schematic name the blocks of their places.
TellsBlocks(s) ==
    /\ s.palette \in Seq(ToSet(s.palette))
    /\ \A n \in 1 .. Len(s.records) : s.records[n][4] = BlockOf(Place(s.records[n]))

\* Those of a scanned one do.
LEMMA ScannedTells ==
    ASSUME NEW s, IsScanned(s)
    PROVE  TellsBlocks(s)
<1>1. PICK size \in Sizes, low \in Lows, palette \in Palettes, fullVolume \in BOOLEAN,
           stray \in Strays :
        \E kept \in SUBSET Box(size) :
          s = Scanned(size, low, kept, palette, fullVolume, stray)
  BY DEF IsScanned
<1>2. PICK kept \in SUBSET Box(size) :
        s = Scanned(size, low, kept, palette, fullVolume, stray)
  BY <1>1
<1>3. size \in Sizes3 /\ low \in Triples
  BY PlannerAssumption DEF Sizes3, Triples
<1>4. PICK order \in Seq(Triples) : order = ScanOrder(low, size)
  BY <1>3, ScanOrderLists
<1>5. PICK places : places = Selected(order, kept)
  OBVIOUS
<1>6. places \in Seq(Triples \cap kept)
  BY <1>5, SelectedElements
<1>7. PICK N \in Nat : N = Len(places) /\ DOMAIN places = 1 .. N
                       /\ \A n \in 1 .. N : places[n] \in Box(size)
  BY <1>6, LenProperties
<1>8. s.records = [n \in 1 .. N |-> Append(places[n], BlockOf(places[n]))]
  BY <1>2, <1>4, <1>5, <1>7 DEF Scanned
<1>9. Len(s.records) = N
  BY <1>8
<1>10. ASSUME NEW n \in 1 .. N PROVE s.records[n][4] = BlockOf(Place(s.records[n]))
  <2>1. PICK p \in Box(size) : p = places[n]
    BY <1>7
  <2>2. PICK b \in Nat : b = BlockOf(p)
    BY PlannerAssumption DEF Box
  <2>3. s.records[n] = Append(p, b)
    BY <1>8, <2>1, <2>2
  <2>4. QED
    BY <1>3, <2>2, <2>3, RecordAt
<1>11. s.palette = palette
  BY <1>2 DEF Scanned
<1>12. s.palette \in Seq(ToSet(s.palette))
  BY <1>11, PlannerAssumption
<1>13. QED
  BY <1>9, <1>10, <1>12 DEF TellsBlocks

\* What the file is to hold at a place.
IndexAt(s, p) == IF p \in Places(s.records) THEN OutputIndex(s.palette, BlockOf(p)) ELSE 0

\* The indexes name the block of every place, air where there is none.
LEMMA IndexesAre ==
    ASSUME NEW s, s.size \in Sizes3, InBox(s.records, s.size), TellsBlocks(s), Exportable(s)
    PROVE  /\ Indexes(s) \in [1 .. Volume(s.size) -> Nat]
           /\ \A p \in Box(s.size) : Indexes(s)[Linear(p, s.size) + 1] = IndexAt(s, p)
<1>1. PICK size, records, palette :
        /\ size \in Sizes3 /\ size = s.size /\ records \in Seq(Quads) /\ records = s.records
        /\ palette = s.palette
  BY DEF InBox
<1>2. PICK N \in Nat : N = Len(records) /\ DOMAIN records = 1 .. N
  BY <1>1, LenProperties
<1>3. palette \in Seq(ToSet(palette))
  BY <1>1 DEF TellsBlocks
<1>4. \A n \in 1 .. N : Place(records[n]) \in Box(size) /\ records[n][4] < Len(palette)
  BY <1>1, <1>2 DEF Exportable
<1>5. \A n \in 1 .. N : records[n][4] = BlockOf(Place(records[n])) /\ records[n][4] \in Nat
  <2>1. \A n \in 1 .. N : records[n] \in Quads
    BY <1>1, <1>2
  <2>2. QED
    BY <1>1, <1>2, <2>1 DEF TellsBlocks, Quads
<1>6. PICK here : here = [k \in Int |-> {i \in 1 .. N : Linear(Place(records[i]), size) = k}]
  OBVIOUS
<1>7. PICK value : value = [k \in Int |-> IF here[k] = {} THEN 0
                                          ELSE OutputIndex(palette, records[Max(here[k])][4])]
  OBVIOUS
<1>8. ASSUME NEW k \in Int PROVE value[k] \in Nat
  <2>1. CASE here[k] = {}
    BY <1>7, <2>1
  <2>2. CASE here[k] # {}
    BY <1>3, <1>4, <1>5, <1>6, <1>7, <2>2, GreatestNatural, OutputIndexIs
  <2>3. QED
    BY <2>1, <2>2
<1>9. PICK V \in Nat : V = Volume(size)
  <2>1. \A a, b, c \in Nat : a * b * c \in Nat
    OBVIOUS
  <2>2. QED
    BY <1>1, <2>1 DEF Volume, Sizes3
<1>10. Indexes(s) = [n \in 1 .. V |-> value[n - 1]]
  BY <1>1, <1>2, <1>6, <1>7, <1>9 DEF Indexes
<1>11. Indexes(s) \in [1 .. V -> Nat]
  BY <1>8, <1>10
<1>12. ASSUME NEW p \in Box(size) PROVE Indexes(s)[Linear(p, size) + 1] = IndexAt(s, p)
  <2>1. PICK k \in Int : k = Linear(p, size) /\ k \in 0 .. V - 1
    BY <1>1, <1>9, LinearIs
  <2>2. k + 1 \in 1 .. V /\ (k + 1) - 1 = k
    BY <1>9, <2>1
  <2>3. Indexes(s)[k + 1] = value[k]
    BY <1>10, <2>2
  <2>4. PICK H : H = here[k] /\ H \in SUBSET (1 .. N)
                 /\ \A i \in 1 .. N : i \in H <=> Linear(Place(records[i]), size) = k
    <3>1. PICK H : H = here[k]
      OBVIOUS
    <3>2. H = {i \in 1 .. N : Linear(Place(records[i]), size) = k}
      BY <1>6, <2>1, <3>1
    <3>3. H \in SUBSET (1 .. N) /\ \A i \in 1 .. N : i \in H <=> Linear(Place(records[i]), size) = k
      BY <3>2
    <3>4. QED
      BY <3>1, <3>3
  <2>5. \A i \in 1 .. N : i \in H <=> Place(records[i]) = p
    BY <1>1, <1>4, <2>1, <2>4, LinearIs
  <2>6. CASE p \in Places(s.records)
    <3>1. PICK i \in 1 .. N : Place(records[i]) = p
      BY <1>1, <1>2, <2>6 DEF Places
    <3>2. H # {}
      BY <2>5, <3>1
    <3>3. PICK m \in 1 .. N : m = Max(H) /\ m \in H
      BY <2>4, <3>2, GreatestNatural
    <3>4. records[m][4] = BlockOf(p)
      BY <1>5, <2>5, <3>3
    <3>5. value[k] = OutputIndex(palette, BlockOf(p))
      BY <1>7, <2>4, <3>2, <3>3, <3>4
    <3>6. QED
      BY <1>1, <2>1, <2>3, <2>6, <3>5 DEF IndexAt
  <2>7. CASE p \notin Places(s.records)
    <3>1. H = {}
      BY <1>1, <1>2, <2>4, <2>5, <2>7 DEF Places
    <3>2. QED
      BY <1>7, <2>1, <2>3, <2>4, <2>7, <3>1 DEF IndexAt
  <2>8. QED
    BY <2>6, <2>7
<1>13. QED
  BY <1>1, <1>9, <1>11, <1>12

\* The short of a side is read as the side.
LEMMA ShortIs ==
    ASSUME NEW v \in Nat, v < 2 * ShortHalf
    PROVE  UnsignedShort(SignedShort(v)) = v
BY SpongeAssumption DEF UnsignedShort, SignedShort

\* A reader of the file finds the schematic.
HoldsSchematic(e, s) ==
    /\ \A i \in 1 .. 3 : UnsignedShort(e.size[i]) = s.size[i]
    /\ \A i, j \in DOMAIN e.palette : e.palette[i] = e.palette[j] => i = j
    /\ Len(VarintsIn(e.data)) = Volume(s.size)
    /\ \A place \in Box(s.size) :
         NameAt(e, place) =
           IF place \in Places(s.records) THEN JavaName[s.palette[BlockOf(place) + 1]] ELSE Air

\* The export of a schematic that says which blocks it holds is read back as that schematic.
LEMMA SpongeHolds ==
    ASSUME NEW s, s.size \in Sizes3, InBox(s.records, s.size), TellsBlocks(s), Exportable(s)
    PROVE  HoldsSchematic(Sponge(s), s)
<1>1. PICK size, palette, e :
        size \in Sizes3 /\ size = s.size /\ palette = s.palette /\ e = Sponge(s)
  OBVIOUS
<1>2. PICK s1 \in Nat \ {0}, s2 \in Nat \ {0}, s3 \in Nat \ {0} :
        size = <<s1, s2, s3>> /\ s1 = size[1] /\ s2 = size[2] /\ s3 = size[3]
  BY <1>1 DEF Sizes3
<1>3. PICK idx, V : idx = Indexes(s) /\ V = Volume(size)
  OBVIOUS
<1>4. PICK q : q = JavaPalette(palette)
  OBVIOUS
<1>5. palette \in Seq(ToSet(palette)) /\ Named(q, palette, Len(palette))
  BY <1>1, <1>4, JavaPaletteIs DEF TellsBlocks
<1>6. PICK l \in Nat : l = Len(q) /\ DOMAIN q = 1 .. l
  BY <1>5, LenProperties DEF Named
<1>7. idx \in [1 .. V -> Nat] /\ \A p \in Box(size) : idx[Linear(p, size) + 1] = IndexAt(s, p)
  BY <1>1, <1>3, IndexesAre
<1>8. V \in Nat
  BY <1>2, <1>3 DEF Volume
<1>9. /\ e.size = [i \in 1 .. 3 |-> SignedShort(size[i])] /\ e.palette = q
      /\ e.data = FlattenSeq([n \in 1 .. V |-> Varint(idx[n])])
  BY <1>1, <1>3, <1>4, <1>7 DEF Sponge
<1>10. VarintsIn(e.data) = idx
  BY <1>7, <1>8, <1>9, VarintsRead
<1>11. Len(idx) = V
  BY <1>7, <1>8
<1>12. \A i \in 1 .. 3 : UnsignedShort(e.size[i]) = size[i]
  BY <1>1, <1>2, <1>9, ShortIs DEF Exportable
<1>13. \A i, j \in DOMAIN q : q[i] = q[j] => i = j
  BY <1>5, <1>6 DEF Named
<1>14. ASSUME NEW p \in Box(size)
       PROVE  NameAt(e, p) = IF p \in Places(s.records) THEN JavaName[palette[BlockOf(p) + 1]]
                             ELSE Air
  <2>1. NameAt(e, p) = q[idx[Linear(p, size) + 1] + 1]
    BY <1>9, <1>10, <1>12 DEF NameAt, Linear
  <2>2. NameAt(e, p) = q[IndexAt(s, p) + 1]
    BY <1>7, <2>1
  <2>3. CASE p \in Places(s.records)
    <3>1. PICK b \in Nat : b = BlockOf(p) /\ b < Len(palette)
      <4>1. PICK records \in Seq(Quads) : records = s.records
        BY DEF InBox
      <4>2. PICK N \in Nat : N = Len(records) /\ DOMAIN records = 1 .. N
        BY LenProperties
      <4>3. PICK i \in 1 .. N : Place(records[i]) = p /\ records[i] \in Quads
        BY <2>3, <4>1, <4>2 DEF Places
      <4>4. records[i][4] = BlockOf(p) /\ records[i][4] < Len(palette)
        BY <1>1, <4>1, <4>2, <4>3 DEF TellsBlocks, Exportable
      <4>5. records[i][4] \in Nat
        BY <4>3 DEF Quads
      <4>6. QED
        BY <4>4, <4>5
    <3>2. q[OutputIndex(palette, b) + 1] = JavaName[palette[b + 1]]
      BY <1>4, <1>5, <3>1, OutputIndexIs
    <3>3. QED
      BY <1>1, <2>2, <2>3, <3>1, <3>2 DEF IndexAt
  <2>4. CASE p \notin Places(s.records)
    BY <1>5, <2>2, <2>4 DEF IndexAt, Named
  <2>5. QED
    BY <2>3, <2>4
<1>15. QED
  BY <1>1, <1>3, <1>9, <1>10, <1>11, <1>12, <1>13, <1>14 DEF HoldsSchematic

\* A Java block points to the sides that the Bedrock block points to.
LEMMA JavaSidesAre ==
    ASSUME NEW family \in JavaFamilies, NEW value \in Values(family)
    PROVE  JavaSides(JavaState(family, value)[1], JavaState(family, value)[2]) = Sides(family, value)
<1>1. CASE family = "facing_direction"
  BY <1>1 DEF JavaSides, JavaState, Sides, Values
<1>2. CASE family = "weirdo_direction"
  BY <1>2 DEF JavaSides, JavaState, Sides, Values
<1>3. CASE family = "direction"
  BY <1>3 DEF JavaSides, JavaState, Sides, Values
<1>4. CASE family = "pillar_axis"
  BY <1>4 DEF JavaSides, JavaState, Sides, Values
<1>5. CASE family = "ground_sign_direction"
  BY <1>5 DEF JavaSides, JavaState, Sides, Values
<1>6. CASE family = "rail_direction"
  BY <1>6 DEF JavaSides, JavaState, Sides, Values
<1>7. QED
  BY <1>1, <1>2, <1>3, <1>4, <1>5, <1>6 DEF JavaFamilies

\* What was exported is the Sponge file of what was saved.
ExportInv ==
    /\ TellsBlocks(saved)
    /\ pc = "exported" => Exportable(saved) /\ export = Sponge(saved)

\* The block entities of a schematic are not in its Sponge file.
LEMMA RestoredExports ==
    ASSUME NEW s, SavedOk(s), NEW kind
    PROVE  /\ Exportable(Returned(s, kind)) <=> Exportable(s)
           /\ Sponge(Returned(s, kind)) = Sponge(s)
<1>1. PICK t : t = Returned(s, kind)
  OBVIOUS
<1>2. t.size = s.size /\ t.palette = s.palette /\ t.records = s.records
  BY <1>1 DEF SavedOk, Returned
<1>3. Exportable(t) <=> Exportable(s)
  BY <1>2 DEF Exportable
<1>4. Indexes(t) = Indexes(s)
  BY <1>2 DEF Indexes
<1>5. Sponge(t) = Sponge(s)
  BY <1>2, <1>4 DEF Sponge
<1>6. QED
  BY <1>1, <1>3, <1>5

\* Only an export makes a Sponge file.
LEMMA StepKeepsExport ==
    ASSUME LoadInv, ExportInv, [LoadNext]_<<vars, loadVars>>
    PROVE  ExportInv'
<1>1. ASSUME saved' = saved, export' = export, pc' = pc \/ pc' # "exported" PROVE ExportInv'
  BY <1>1 DEF ExportInv
<1>2. ASSUME NEW size \in PieceSizes, Read(size) PROVE ExportInv'
  BY <1>1, <1>2 DEF Read
<1>3. CASE FinishLoad
  BY <1>1, <1>3 DEF FinishLoad, loadVars
<1>4. CASE ExportWorldEdit
  <2>1. PICK d : d = DecodeWhole(file)
    OBVIOUS
  <2>2. saved' = saved
    BY <1>4 DEF ExportWorldEdit
  <2>3. CASE d.accepted /\ Exportable(SchematicOf(d))
    <3>1. pc' = "exported" /\ export' = Sponge(SchematicOf(d))
      BY <1>4, <2>1, <2>3 DEF ExportWorldEdit
    <3>2. SchematicOf(d) = Returned(saved, damage) /\ SavedOk(saved)
      BY <2>1, <2>3, WholeIsSaved DEF LoadInv, PayloadInv
    <3>3. Exportable(saved) /\ Sponge(SchematicOf(d)) = Sponge(saved)
      BY <2>3, <3>2, RestoredExports
    <3>4. QED
      BY <2>2, <3>1, <3>3 DEF ExportInv
  <2>4. CASE ~(d.accepted /\ Exportable(SchematicOf(d)))
    BY <1>1, <1>4, <2>1, <2>2, <2>4 DEF ExportWorldEdit
  <2>5. QED
    BY <2>3, <2>4
<1>5. CASE Next /\ UNCHANGED loadVars
  <2>1. saved' = saved /\ export' = export
    BY <1>5 DEF loadVars
  <2>2. pc' # "exported"
    <3>1. ASSUME NEW a \in Anchors, NEW r \in Rotations, Request(a, r) PROVE pc' # "exported"
      BY <3>1 DEF Request
    <3>2. CASE Validate
      BY <3>2 DEF Validate
    <3>3. CASE Count
      BY <3>3 DEF Count
    <3>4. CASE Scatter
      BY <3>4 DEF Scatter
    <3>5. CASE Finish
      BY <3>5 DEF Finish
    <3>6. QED
      BY <1>5, <3>1, <3>2, <3>3, <3>4, <3>5 DEF Next
  <2>3. QED
    BY <1>1, <2>1, <2>2
<1>6. CASE UNCHANGED <<vars, loadVars>>
  BY <1>1, <1>6 DEF vars, planVars, loadVars
<1>7. QED
  BY <1>2, <1>3, <1>4, <1>5, <1>6 DEF LoadNext

\* For schematics of every size and shape that a scan saves, palettes in which any blocks
\* share a Java name, and varints and shorts of any base: a reader of the Sponge file that
\* request_export_worldedit writes finds in it the size, the blocks and the directions that
\* were saved, each name once and air everywhere else.
THEOREM SpongeAlwaysHolds == LoadSpec => []SpongeHoldsSchematic
<1>1. LoadInit => ExportInv
  BY ScannedTells DEF LoadInit, ExportInv
<1>2. LoadInv /\ ExportInv /\ [LoadNext]_<<vars, loadVars>> => ExportInv'
  BY StepKeepsExport
<1>3. LoadInv /\ ExportInv => SpongeHoldsSchematic
  <2>1. SUFFICES ASSUME LoadInv, ExportInv, pc = "exported" PROVE SpongeHoldsSchematic
    BY DEF SpongeHoldsSchematic
  <2>2. saved.size \in Sizes3 /\ InBox(saved.records, saved.size)
    BY <2>1, PlannerAssumption DEF LoadInv, PayloadInv, SavedOk, Sizes3
  <2>3. HoldsSchematic(export, saved)
    BY <2>1, <2>2, SpongeHolds DEF ExportInv
  <2>4. QED
    BY <2>3, JavaSidesAre DEF HoldsSchematic, SpongeHoldsSchematic
<1>4. QED
  BY <1>1, <1>2, <1>3, LoadStays, PTL DEF LoadSpec

----------------------------------------------------------------------------
(* NBT as JSON and back, level by level. *)

\* A conversion by levels, as encode and decode are.
EncodesTo(f, n) ==
    f = [left \in 0 .. n |->
           [nbt \in NbtValues |-> IF left = 0 THEN Raised ELSE EncodeOne(nbt, f[left - 1])]]

\* encode is the recursion it is defined by.
LEMMA EncodeIs == EncodesTo(encode, MaxDepth + 1)
<1> DEFINE S == {n \in Nat : \E f : EncodesTo(f, n)}
<1>1. PICK N \in Nat : N = MaxDepth + 1
  BY BlockDataAssumption
<1>2. 0 \in S
  <2>1. PICK f : f = [left \in 0 .. 0 |-> [nbt \in NbtValues |-> Raised]]
    OBVIOUS
  <2>2. f = [left \in 0 .. 0 |->
               [nbt \in NbtValues |-> IF left = 0 THEN Raised ELSE EncodeOne(nbt, f[left - 1])]]
    BY <2>1
  <2>3. EncodesTo(f, 0)
    BY <2>2 DEF EncodesTo
  <2>4. QED
    BY <2>3
<1>3. ASSUME NEW k \in 1 .. N, k - 1 \in S PROVE k \in S
  <2>1. PICK f : EncodesTo(f, k - 1)
    BY <1>3
  <2>2. PICK next : next = [nbt \in NbtValues |-> EncodeOne(nbt, f[k - 1])]
    OBVIOUS
  <2>3. PICK h : h = [left \in 0 .. k |-> IF left = k THEN next ELSE f[left]]
    OBVIOUS
  <2>4. h[k] = next /\ \A left \in 0 .. k - 1 : h[left] = f[left]
    BY <2>3
  <2>5. ASSUME NEW left \in 0 .. k
        PROVE  h[left] = [nbt \in NbtValues |->
                            IF left = 0 THEN Raised ELSE EncodeOne(nbt, h[left - 1])]
    <3>1. CASE left = k
      BY <2>2, <2>4, <3>1
    <3>2. CASE left # k
      <4>1. left \in 0 .. k - 1
        BY <3>2
      <4>2. f[left] = [nbt \in NbtValues |->
                         IF left = 0 THEN Raised ELSE EncodeOne(nbt, f[left - 1])]
        BY <2>1, <4>1 DEF EncodesTo
      <4>3. left # 0 => h[left - 1] = f[left - 1]
        BY <2>4, <4>1
      <4>4. QED
        BY <2>4, <4>1, <4>2, <4>3
    <3>3. QED
      BY <3>1, <3>2
  <2>6. DOMAIN h = 0 .. k /\ h = [left \in 0 .. k |-> h[left]]
    BY <2>3
  <2>7. h = [left \in 0 .. k |->
               [nbt \in NbtValues |-> IF left = 0 THEN Raised ELSE EncodeOne(nbt, h[left - 1])]]
    BY <2>5, <2>6
  <2>8. EncodesTo(h, k)
    BY <2>7 DEF EncodesTo
  <2>9. QED
    BY <2>8
<1> HIDE DEF S
<1>4. \A k \in 0 .. N : k \in S
  BY <1>2, <1>3, UpTo
<1>5. PICK f : EncodesTo(f, N)
  BY <1>4 DEF S
<1>6. \E g : g = [left \in 0 .. MaxDepth + 1 |->
                    [nbt \in NbtValues |->
                       IF left = 0 THEN Raised ELSE EncodeOne(nbt, g[left - 1])]]
  BY <1>1, <1>5 DEF EncodesTo
<1>7. QED
  BY <1>6 DEF EncodesTo, encode
DecodesTo(f, n) ==
    f = [left \in 0 .. n |->
           [json \in Encodings |-> IF left = 0 THEN Raised ELSE DecodeOne(json, f[left - 1])]]

\* decode is the recursion it is defined by.
LEMMA DecodeIs == DecodesTo(decode, MaxDepth + 1)
<1> DEFINE S == {n \in Nat : \E f : DecodesTo(f, n)}
<1>1. PICK N \in Nat : N = MaxDepth + 1
  BY BlockDataAssumption
<1>2. 0 \in S
  <2>1. PICK f : f = [left \in 0 .. 0 |-> [json \in Encodings |-> Raised]]
    OBVIOUS
  <2>2. f = [left \in 0 .. 0 |->
               [json \in Encodings |-> IF left = 0 THEN Raised ELSE DecodeOne(json, f[left - 1])]]
    BY <2>1
  <2>3. DecodesTo(f, 0)
    BY <2>2 DEF DecodesTo
  <2>4. QED
    BY <2>3
<1>3. ASSUME NEW k \in 1 .. N, k - 1 \in S PROVE k \in S
  <2>1. PICK f : DecodesTo(f, k - 1)
    BY <1>3
  <2>2. PICK next : next = [json \in Encodings |-> DecodeOne(json, f[k - 1])]
    OBVIOUS
  <2>3. PICK h : h = [left \in 0 .. k |-> IF left = k THEN next ELSE f[left]]
    OBVIOUS
  <2>4. h[k] = next /\ \A left \in 0 .. k - 1 : h[left] = f[left]
    BY <2>3
  <2>5. ASSUME NEW left \in 0 .. k
        PROVE  h[left] = [json \in Encodings |->
                            IF left = 0 THEN Raised ELSE DecodeOne(json, h[left - 1])]
    <3>1. CASE left = k
      BY <2>2, <2>4, <3>1
    <3>2. CASE left # k
      <4>1. left \in 0 .. k - 1
        BY <3>2
      <4>2. f[left] = [json \in Encodings |->
                         IF left = 0 THEN Raised ELSE DecodeOne(json, f[left - 1])]
        BY <2>1, <4>1 DEF DecodesTo
      <4>3. left # 0 => h[left - 1] = f[left - 1]
        BY <2>4, <4>1
      <4>4. QED
        BY <2>4, <4>1, <4>2, <4>3
    <3>3. QED
      BY <3>1, <3>2
  <2>6. DOMAIN h = 0 .. k /\ h = [left \in 0 .. k |-> h[left]]
    BY <2>3
  <2>7. h = [left \in 0 .. k |->
               [json \in Encodings |-> IF left = 0 THEN Raised ELSE DecodeOne(json, h[left - 1])]]
    BY <2>5, <2>6
  <2>8. DecodesTo(h, k)
    BY <2>7 DEF DecodesTo
  <2>9. QED
    BY <2>8
<1> HIDE DEF S
<1>4. \A k \in 0 .. N : k \in S
  BY <1>2, <1>3, UpTo
<1>5. PICK f : DecodesTo(f, N)
  BY <1>4 DEF S
<1>6. \E g : g = [left \in 0 .. MaxDepth + 1 |->
                    [json \in Encodings |->
                       IF left = 0 THEN Raised ELSE DecodeOne(json, g[left - 1])]]
  BY <1>1, <1>5 DEF DecodesTo
<1>7. QED
  BY <1>6 DEF DecodesTo, decode

\* The values that can be read back within so many levels, if their members can.
ShallowAt(left, deeper) ==
    {nbt \in NbtValues :
       /\ nbt[1] = "scalar" => left > 0
       /\ nbt[1] \in {"compound", "list"} => \A k \in DOMAIN nbt[2] : nbt[2][k] \in deeper}
ShallowTo(f, n) ==
    f = [left \in 0 .. n |-> ShallowAt(left, IF left = 0 THEN {} ELSE f[left - 1])]

\* shallow is the recursion it is defined by.
LEMMA ShallowIs == ShallowTo(shallow, MaxDepth)
<1> DEFINE S == {n \in Nat : \E f : ShallowTo(f, n)}
<1>1. PICK N \in Nat : N = MaxDepth
  BY BlockDataAssumption
<1>2. 0 \in S
  <2>1. PICK f : f = [left \in 0 .. 0 |-> ShallowAt(left, {})]
    OBVIOUS
  <2>2. f = [left \in 0 .. 0 |-> ShallowAt(left, IF left = 0 THEN {} ELSE f[left - 1])]
    BY <2>1
  <2>3. ShallowTo(f, 0)
    BY <2>2 DEF ShallowTo
  <2>4. QED
    BY <2>3
<1>3. ASSUME NEW k \in 1 .. N, k - 1 \in S PROVE k \in S
  <2>1. PICK f : ShallowTo(f, k - 1)
    BY <1>3
  <2>2. PICK next : next = ShallowAt(k, f[k - 1])
    OBVIOUS
  <2>3. PICK h : h = [left \in 0 .. k |-> IF left = k THEN next ELSE f[left]]
    OBVIOUS
  <2>4. h[k] = next /\ \A left \in 0 .. k - 1 : h[left] = f[left]
    BY <2>3
  <2>5. ASSUME NEW left \in 0 .. k
        PROVE  h[left] = ShallowAt(left, IF left = 0 THEN {} ELSE h[left - 1])
    <3>1. CASE left = k
      BY <2>2, <2>4, <3>1
    <3>2. CASE left # k
      BY <2>1, <2>4, <3>2 DEF ShallowTo
    <3>3. QED
      BY <3>1, <3>2
  <2>6. h = [left \in 0 .. k |-> h[left]]
    BY <2>3
  <2>7. h = [left \in 0 .. k |-> ShallowAt(left, IF left = 0 THEN {} ELSE h[left - 1])]
    BY <2>5, <2>6
  <2>8. ShallowTo(h, k)
    BY <2>7 DEF ShallowTo
  <2>9. QED
    BY <2>8
<1> HIDE DEF S
<1>4. \A k \in 0 .. N : k \in S
  BY <1>2, <1>3, UpTo
<1>5. PICK f : ShallowTo(f, N)
  BY <1>4 DEF S
<1>6. \E g : g = [left \in 0 .. MaxDepth |->
                    LET deeper == IF left = 0 THEN {} ELSE g[left - 1]
                    IN {nbt \in NbtValues :
                          /\ nbt[1] = "scalar" => left > 0
                          /\ nbt[1] \in {"compound", "list"} =>
                               \A k \in DOMAIN nbt[2] : nbt[2][k] \in deeper}]
  BY <1>1, <1>5 DEF ShallowTo, ShallowAt
<1>7. QED
  BY <1>6 DEF ShallowTo, ShallowAt, shallow

\* What the three say of a level and the level below it.
LEMMA Levels ==
    ASSUME NEW n \in 0 .. MaxDepth, NEW nbt \in NbtValues
    PROVE  /\ encode[0][nbt] = Raised
           /\ encode[n + 1][nbt] = EncodeOne(nbt, encode[n])
           /\ nbt \in shallow[n] <=>
                /\ nbt[1] = "scalar" => n > 0
                /\ nbt[1] \in {"compound", "list"} =>
                     \A k \in DOMAIN nbt[2] : n > 0 /\ nbt[2][k] \in shallow[n - 1]
<1>1. PICK N \in Nat : N = MaxDepth
  BY BlockDataAssumption
<1>2. n \in 0 .. N /\ n + 1 \in 0 .. N + 1 /\ 0 \in 0 .. N + 1 /\ n + 1 # 0 /\ (n + 1) - 1 = n
  BY <1>1
<1>3. encode[0] = [v \in NbtValues |-> IF 0 = 0 THEN Raised ELSE EncodeOne(v, encode[0 - 1])]
  BY <1>1, <1>2, EncodeIs DEF EncodesTo
<1>4. encode[n + 1] = [v \in NbtValues |-> IF n + 1 = 0 THEN Raised ELSE EncodeOne(v, encode[(n + 1) - 1])]
  BY <1>1, <1>2, EncodeIs DEF EncodesTo
<1>5. shallow[n] = ShallowAt(n, IF n = 0 THEN {} ELSE shallow[n - 1])
  BY <1>1, <1>2, ShallowIs DEF ShallowTo
<1>6. nbt \in shallow[n] <=>
        /\ nbt[1] = "scalar" => n > 0
        /\ nbt[1] \in {"compound", "list"} =>
             \A k \in DOMAIN nbt[2] : n > 0 /\ nbt[2][k] \in shallow[n - 1]
  BY <1>2, <1>5 DEF ShallowAt
<1>7. encode[0][nbt] = Raised
  BY <1>3
<1>8. encode[n + 1][nbt] = EncodeOne(nbt, encode[n])
  BY <1>2, <1>4
<1>9. QED
  BY <1>6, <1>7, <1>8

\* And decode, of what encode writes and of the number in a scalar.
LEMMA DecodeLevels ==
    ASSUME NEW n \in 0 .. MaxDepth, NEW json \in Encodings
    PROVE  decode[0][json] = Raised /\ decode[n + 1][json] = DecodeOne(json, decode[n])
BY BlockDataAssumption, DecodeIs DEF DecodesTo

----------------------------------------------------------------------------
(* One level of a value. *)

\* No value and no JSON is the error.
LEMMA NoneRaised ==
    /\ \A a, b : <<a, b>> # Raised
    /\ \A a, b, c : <<a, b, c>> # Raised
    /\ \A nbt \in NbtValues : nbt # Raised
<1>1. \A a, b : <<a, b>> # Raised
  BY DEF Raised
<1>2. \A a, b, c : <<a, b, c>> # Raised
  BY DEF Raised
<1>3. ASSUME NEW nbt \in NbtValues PROVE nbt # Raised
  <2>1. nbt = <<nbt[1], nbt[2]>> \/ nbt = <<nbt[1], nbt[2], nbt[3]>>
    BY BlockDataAssumption DEF IsNbt
  <2>2. QED
    BY <1>1, <1>2, <2>1
<1>4. QED
  BY <1>1, <1>2, <1>3

\* A value that is good comes back as it was, another is refused on one of the ways.
Survives(nbt, e, d, Within) ==
    /\ nbt \in Within => e # Raised /\ d = nbt
    /\ nbt \notin Within => e = Raised \/ d = Raised

\* Each value does, when it is a member of another, and none of these members raises.
AllSurvive(enc, dec, Inner) == \A c \in NbtValues : Survives(c, enc[c], dec[enc[c]], Inner)
Converts(x, f, D, enc) == x = [k \in D |-> enc[f[k]]] /\ \A k \in D : x[k] # Raised

\* Members that come back each make a collection that does.
LEMMA MembersSurvive ==
    ASSUME NEW D, NEW f \in [D -> NbtValues], NEW enc, NEW dec, NEW Inner,
           AllSurvive(enc, dec, Inner), NEW kind,
           NEW x, Converts(x, f, D, enc)
    PROVE  Collected(kind, [k \in DOMAIN x |-> dec[x[k]]]) =
             IF \A k \in D : f[k] \in Inner THEN <<kind, f>> ELSE Raised
<1>1. DOMAIN x = D /\ \A k \in D : x[k] = enc[f[k]] /\ f[k] \in NbtValues
  BY DEF Converts
<1>2. PICK y : y = [k \in DOMAIN x |-> dec[x[k]]]
  OBVIOUS
<1>3. DOMAIN y = D /\ \A k \in D : y[k] = dec[x[k]]
  BY <1>1, <1>2
<1>4. CASE \A k \in D : f[k] \in Inner
  <2>1. \A k \in D : y[k] = f[k] /\ y[k] # Raised
    BY <1>1, <1>3, <1>4, NoneRaised DEF Survives, AllSurvive, Converts
  <2>2. y = f
    BY <1>1, <1>2, <2>1
  <2>3. QED
    BY <1>2, <1>3, <1>4, <2>1, <2>2 DEF Collected
<1>5. CASE ~\A k \in D : f[k] \in Inner
  BY <1>1, <1>2, <1>3, <1>5 DEF Survives, AllSurvive, Converts, Collected
<1>6. QED
  BY <1>4, <1>5

\* What decoding an object does, by the shape of its members.
LEMMA ObjectDecodes ==
    ASSUME NEW w, NEW dec
    PROVE  /\ DOMAIN w = {CompoundWrapper} /\ w[CompoundWrapper][1] = "object" =>
                DecodeOne(<<"object", w>>, dec) =
                  Collected("compound", [k \in DOMAIN w[CompoundWrapper][2] |->
                                           dec[w[CompoundWrapper][2][k]]])
           /\ DOMAIN w = {ScalarWrapper, "value"} =>
                DecodeOne(<<"object", w>>, dec) =
                  IF dec[w["value"]] = Raised THEN Raised
                  ELSE <<"scalar", w[ScalarWrapper][2], dec[w["value"]][2]>>
           /\ DOMAIN w = {BytesWrapper} =>
                DecodeOne(<<"object", w>>, dec) = <<"bytes", w[BytesWrapper][2]>>
           /\ DOMAIN w = {FloatWrapper} =>
                DecodeOne(<<"object", w>>, dec) = <<"float", w[FloatWrapper][2]>>
           /\ DOMAIN w \notin ReservedShapes =>
                DecodeOne(<<"object", w>>, dec) = Collected("compound", [k \in DOMAIN w |-> dec[w[k]]])
<1>1. PICK json : json = <<"object", w>>
  OBVIOUS
<1>2. PICK C, S, B, F : C = {CompoundWrapper} /\ S = {ScalarWrapper, "value"}
                        /\ B = {BytesWrapper} /\ F = {FloatWrapper}
  OBVIOUS
<1>3. C # S /\ C # B /\ C # F /\ S # B /\ S # F /\ B # F
  BY <1>2 DEF CompoundWrapper, ScalarWrapper, BytesWrapper, FloatWrapper
<1>4. DecodeOne(json, dec) =
        CASE DOMAIN w = C /\ w[CompoundWrapper][1] = "object" ->
               Collected("compound", [k \in DOMAIN w[CompoundWrapper][2] |->
                                        dec[w[CompoundWrapper][2][k]]])
          [] DOMAIN w = S ->
               IF dec[w["value"]] = Raised THEN Raised
               ELSE <<"scalar", w[ScalarWrapper][2], dec[w["value"]][2]>>
          [] DOMAIN w = B -> <<"bytes", w[BytesWrapper][2]>>
          [] DOMAIN w = F -> <<"float", w[FloatWrapper][2]>>
          [] OTHER -> Collected("compound", [k \in DOMAIN w |-> dec[w[k]]])
  BY <1>1, <1>2 DEF DecodeOne
<1>5. DOMAIN w \notin ReservedShapes => DOMAIN w # C /\ DOMAIN w # S /\ DOMAIN w # B /\ DOMAIN w # F
  BY <1>2 DEF ReservedShapes
<1>6. DOMAIN w = C /\ w[CompoundWrapper][1] = "object" =>
        DecodeOne(json, dec) =
          Collected("compound", [k \in DOMAIN w[CompoundWrapper][2] |->
                                   dec[w[CompoundWrapper][2][k]]])
  BY <1>3, <1>4
<1>7. DOMAIN w = S => DecodeOne(json, dec) =
        IF dec[w["value"]] = Raised THEN Raised
        ELSE <<"scalar", w[ScalarWrapper][2], dec[w["value"]][2]>>
  BY <1>3, <1>4
<1>8. DOMAIN w = B => DecodeOne(json, dec) = <<"bytes", w[BytesWrapper][2]>>
  BY <1>3, <1>4
<1>9. DOMAIN w = F => DecodeOne(json, dec) = <<"float", w[FloatWrapper][2]>>
  BY <1>3, <1>4
<1>10. DOMAIN w \notin ReservedShapes =>
         DecodeOne(json, dec) = Collected("compound", [k \in DOMAIN w |-> dec[w[k]]])
  BY <1>4, <1>5
<1>11. QED
  BY <1>1, <1>2, <1>6, <1>7, <1>8, <1>9, <1>10

\* And for a wrapped compound.
LEMMA WrappedDecodes ==
    ASSUME NEW x, NEW dec, NEW w,
           DOMAIN w = {CompoundWrapper}, w[CompoundWrapper] = <<"object", x>>
    PROVE  DecodeOne(<<"object", w>>, dec) = Collected("compound", [k \in DOMAIN x |-> dec[x[k]]])
<1>1. PICK inner : inner = w[CompoundWrapper]
  OBVIOUS
<1>2. inner[1] = "object" /\ inner[2] = x
  BY <1>1
<1>3. DecodeOne(<<"object", w>>, dec) =
        Collected("compound", [k \in DOMAIN inner[2] |-> dec[inner[2][k]]])
  BY <1>1, <1>2, ObjectDecodes
<1>4. QED
  BY <1>2, <1>3

\* A compound is read back whether it looks like a wrapper or not.
LEMMA CompoundRead ==
    ASSUME NEW x, x = [k \in DOMAIN x |-> x[k]], \A k \in DOMAIN x : x[k] # Raised, NEW dec
    PROVE  /\ Compound(x) # Raised
           /\ DecodeOne(Compound(x), dec) = Collected("compound", [k \in DOMAIN x |-> dec[x[k]]])
           /\ Compound(x)[1] = "object"
<1>1. Collected("object", x) = <<"object", x>> /\ <<"object", x>> # Raised
  BY NoneRaised DEF Collected
<1>2. CASE DOMAIN x \in ReservedShapes
  BY <1>1, <1>2, WrappedDecodes, NoneRaised DEF Compound, Collected
<1>3. CASE DOMAIN x \notin ReservedShapes
  <2>1. Compound(x) = <<"object", x>>
    BY <1>1, <1>3 DEF Compound
  <2>2. DecodeOne(<<"object", x>>, dec) = Collected("compound", [k \in DOMAIN x |-> dec[x[k]]])
    BY <1>3, ObjectDecodes
  <2>3. QED
    BY <1>1, <2>1, <2>2
<1>4. QED
  BY <1>2, <1>3

LEMMA CompoundSurvives ==
    ASSUME NEW nbt \in NbtValues, nbt[1] = "compound", NEW enc, NEW dec, NEW Inner,
           AllSurvive(enc, dec, Inner), NEW Within,
           nbt \in Within <=> \A k \in DOMAIN nbt[2] : nbt[2][k] \in Inner
    PROVE  Survives(nbt, EncodeOne(nbt, enc), DecodeOne(EncodeOne(nbt, enc), dec), Within)
<1>1. nbt = <<"compound", nbt[2]>> /\ nbt[2] \in [DOMAIN nbt[2] -> NbtValues]
  BY BlockDataAssumption DEF IsNbt
<1>2. PICK f, D : f = nbt[2] /\ D = DOMAIN f
  OBVIOUS
<1>3. PICK x : x = [k \in D |-> enc[f[k]]]
  OBVIOUS
<1>4. EncodeOne(nbt, enc) = Compound(x)
  BY <1>2, <1>3 DEF EncodeOne
<1>5. DOMAIN x = D /\ x = [k \in DOMAIN x |-> x[k]] /\ \A k \in D : x[k] = enc[f[k]] /\ f[k] \in NbtValues
  BY <1>1, <1>2, <1>3
<1>6. CASE \E k \in D : x[k] = Raised
  <2>1. PICK k \in D : x[k] = Raised
    BY <1>6
  <2>2. f[k] \notin Inner
    BY <1>5, <2>1 DEF Survives, AllSurvive
  <2>3. Collected("object", x) = Raised
    BY <1>5, <2>1 DEF Collected
  <2>4. Compound(x) = Raised
    BY <2>3 DEF Collected, Compound
  <2>5. QED
    BY <1>2, <1>4, <2>2, <2>4 DEF Survives
<1>7. CASE \A k \in D : x[k] # Raised
  <2>1. Compound(x) # Raised
        /\ DecodeOne(Compound(x), dec) = Collected("compound", [k \in DOMAIN x |-> dec[x[k]]])
    BY <1>5, <1>7, CompoundRead
  <2>2. Collected("compound", [k \in DOMAIN x |-> dec[x[k]]]) =
          IF \A k \in D : f[k] \in Inner THEN <<"compound", f>> ELSE Raised
    BY <1>1, <1>2, <1>3, <1>7, MembersSurvive DEF Converts
  <2>3. QED
    BY <1>1, <1>2, <1>4, <2>1, <2>2 DEF Survives
<1>8. QED
  BY <1>6, <1>7

LEMMA ListSurvives ==
    ASSUME NEW nbt \in NbtValues, nbt[1] = "list", NEW enc, NEW dec, NEW Inner,
           AllSurvive(enc, dec, Inner), NEW Within,
           nbt \in Within <=> \A k \in DOMAIN nbt[2] : nbt[2][k] \in Inner
    PROVE  Survives(nbt, EncodeOne(nbt, enc), DecodeOne(EncodeOne(nbt, enc), dec), Within)
<1>1. nbt = <<"list", nbt[2]>> /\ nbt[2] \in [DOMAIN nbt[2] -> NbtValues]
  BY BlockDataAssumption DEF IsNbt
<1>2. PICK f, D : f = nbt[2] /\ D = DOMAIN f
  OBVIOUS
<1>3. PICK x : x = [k \in D |-> enc[f[k]]]
  OBVIOUS
<1>4. EncodeOne(nbt, enc) = Collected("array", x)
  BY <1>2, <1>3 DEF EncodeOne
<1>5. DOMAIN x = D /\ \A k \in D : x[k] = enc[f[k]] /\ f[k] \in NbtValues
  BY <1>1, <1>2, <1>3
<1>6. CASE \E k \in D : x[k] = Raised
  BY <1>2, <1>4, <1>5, <1>6 DEF Survives, AllSurvive, Collected
<1>7. CASE \A k \in D : x[k] # Raised
  <2>1. Collected("array", x) = <<"array", x>> /\ <<"array", x>> # Raised
    BY <1>5, <1>7, NoneRaised DEF Collected
  <2>2. DecodeOne(<<"array", x>>, dec) = Collected("list", [k \in DOMAIN x |-> dec[x[k]]])
    BY DEF DecodeOne
  <2>3. Collected("list", [k \in DOMAIN x |-> dec[x[k]]]) =
          IF \A k \in D : f[k] \in Inner THEN <<"list", f>> ELSE Raised
    BY <1>1, <1>2, <1>3, <1>7, MembersSurvive DEF Converts
  <2>4. QED
    BY <1>1, <1>2, <1>4, <2>1, <2>2, <2>3 DEF Survives
<1>8. QED
  BY <1>6, <1>7

LEMMA AtomSurvives ==
    ASSUME NEW nbt \in NbtValues, nbt[1] \in {"plain", "float", "bytes"}, NEW enc, NEW dec,
           NEW Within, nbt \in Within
    PROVE  Survives(nbt, EncodeOne(nbt, enc), DecodeOne(EncodeOne(nbt, enc), dec), Within)
<1>1. nbt = <<nbt[1], nbt[2]>>
  BY BlockDataAssumption DEF IsNbt
<1>2. PICK e : e = EncodeOne(nbt, enc)
  OBVIOUS
<1>3. CASE nbt[1] = "plain"
  BY <1>1, <1>2, <1>3, NoneRaised DEF EncodeOne, Leaf, DecodeOne, Survives
<1>4. CASE nbt[1] \in {"float", "bytes"}
  <2>1. PICK wrapper : wrapper = IF nbt[1] = "float" THEN FloatWrapper ELSE BytesWrapper
    OBVIOUS
  <2>2. PICK w : w = [k \in {wrapper} |-> <<"leaf", nbt[2]>>]
    OBVIOUS
  <2>3. DOMAIN w = {wrapper} /\ w[wrapper] = <<"leaf", nbt[2]>> /\ w[wrapper][2] = nbt[2]
    BY <2>2
  <2>4. e = <<"object", w>>
    BY <1>2, <1>4, <2>1, <2>2 DEF EncodeOne, Leaf, Wrapped
  <2>5. DecodeOne(<<"object", w>>, dec) = <<nbt[1], nbt[2]>>
    BY <1>4, <2>1, <2>3, ObjectDecodes
  <2>6. QED
    BY <1>1, <1>2, <2>4, <2>5, NoneRaised DEF Survives
<1>5. QED
  BY <1>3, <1>4

\* The number of a typed one is a level of its own when it is not finite.
LEMMA ScalarSurvives ==
    ASSUME NEW nbt \in NbtValues, nbt[1] = "scalar", NEW enc, NEW dec, NEW Inner,
           AllSurvive(enc, dec, Inner), NEW Within,
           dec[Leaf(nbt[3])] = IF nbt \in Within THEN <<"plain", nbt[3]>> ELSE Raised,
           nbt[3] \in NotFinite => (nbt \in Within <=> <<"float", nbt[3]>> \in Inner)
    PROVE  Survives(nbt, EncodeOne(nbt, enc), DecodeOne(EncodeOne(nbt, enc), dec), Within)
<1>1. nbt = <<"scalar", nbt[2], nbt[3]>>
      /\ (nbt[3] \in NotFinite => <<"float", nbt[3]>> \in NbtValues)
  BY BlockDataAssumption DEF IsNbt
<1>2. PICK v, float : v = nbt[3] /\ float = <<"float", v>>
  OBVIOUS
<1>3. PICK number : number = IF v \in NotFinite THEN enc[float] ELSE Leaf(v)
  OBVIOUS
<1>4. PICK x : x = [k \in {ScalarWrapper, "value"} |-> IF k = ScalarWrapper THEN Leaf(nbt[2]) ELSE number]
  OBVIOUS
<1>5. EncodeOne(nbt, enc) = Collected("object", x)
  BY <1>2, <1>3, <1>4 DEF EncodeOne
<1>6. /\ DOMAIN x = {ScalarWrapper, "value"} /\ x["value"] = number
      /\ x[ScalarWrapper] = <<"leaf", nbt[2]>> /\ x[ScalarWrapper][2] = nbt[2]
  BY <1>4 DEF Leaf, ScalarWrapper
<1>8. DecodeOne(<<"object", x>>, dec) =
        IF dec[number] = Raised THEN Raised ELSE <<"scalar", nbt[2], dec[number][2]>>
  BY <1>6, ObjectDecodes
<1>9. Collected("object", x) = IF number = Raised THEN Raised ELSE <<"object", x>>
  BY <1>6, NoneRaised DEF Collected
<1>10. CASE nbt \in Within
  <2>1. number # Raised /\ dec[number] # Raised /\ dec[number][2] = v
    BY <1>1, <1>2, <1>3, <1>10, NoneRaised DEF Survives, AllSurvive, Leaf
  <2>2. EncodeOne(nbt, enc) = <<"object", x>>
    BY <1>5, <1>9, <2>1
  <2>3. DecodeOne(<<"object", x>>, dec) = nbt
    BY <1>1, <1>2, <1>8, <2>1
  <2>4. QED
    BY <1>10, <2>2, <2>3, NoneRaised DEF Survives
<1>11. CASE nbt \notin Within
  <2>1. number = Raised \/ dec[number] = Raised
    BY <1>1, <1>2, <1>3, <1>11 DEF Survives, AllSurvive
  <2>2. QED
    BY <1>5, <1>8, <1>9, <1>11, <2>1 DEF Survives
<1>12. QED
  BY <1>10, <1>11

----------------------------------------------------------------------------
(* Values of every nesting. *)

\* A value survives when its members do that have a level less.
LEMMA LevelSurvives ==
    ASSUME NEW n \in 0 .. MaxDepth, NEW m \in 0 .. MaxDepth, NEW Inner,
           Inner = IF n = 0 THEN {} ELSE shallow[n - 1],
           AllSurvive(encode[m], decode[n], Inner), NEW nbt \in NbtValues
    PROVE  Survives(nbt, encode[m + 1][nbt], decode[n + 1][encode[m + 1][nbt]], shallow[n])
<1>1. PICK N \in Nat : N = MaxDepth /\ n \in 0 .. N /\ m \in 0 .. N
  BY BlockDataAssumption
<1>2. PICK enc, dec, Within : enc = encode[m] /\ dec = decode[n] /\ Within = shallow[n]
  OBVIOUS
<1>3. encode[m + 1][nbt] = EncodeOne(nbt, enc)
  BY <1>2, Levels
<1>4. EncodeOne(nbt, enc) \in Encodings
  BY <1>1, <1>3 DEF Encodings
<1>5. decode[n + 1][EncodeOne(nbt, enc)] = DecodeOne(EncodeOne(nbt, enc), dec)
  BY <1>2, <1>4, DecodeLevels
<1>6. nbt \in Within <=>
        /\ nbt[1] = "scalar" => n > 0
        /\ nbt[1] \in {"compound", "list"} => \A k \in DOMAIN nbt[2] : nbt[2][k] \in Inner
  BY <1>1, <1>2, Levels
<1>7. AllSurvive(enc, dec, Inner)
  BY <1>2
<1>8. CASE nbt[1] \in {"plain", "float", "bytes"}
  BY <1>2, <1>3, <1>5, <1>6, <1>8, AtomSurvives
<1>9. CASE nbt[1] = "compound"
  BY <1>2, <1>3, <1>5, <1>6, <1>7, <1>9, CompoundSurvives
<1>10. CASE nbt[1] = "list"
  BY <1>2, <1>3, <1>5, <1>6, <1>7, <1>10, ListSurvives
<1>11. CASE nbt[1] = "scalar"
  <2>1. nbt \in Within <=> n > 0
    BY <1>6, <1>11
  <2>2. PICK leaf : leaf = Leaf(nbt[3]) /\ leaf \in Encodings
    BY <1>11 DEF Encodings
  <2>3. dec[leaf] = IF nbt \in Within THEN <<"plain", nbt[3]>> ELSE Raised
    <3>1. CASE n = 0
      BY <1>2, <2>1, <2>2, <3>1, DecodeLevels
    <3>2. CASE n # 0
      <4>1. n - 1 \in 0 .. MaxDepth /\ (n - 1) + 1 = n /\ n > 0
        BY <1>1, <3>2
      <4>2. decode[(n - 1) + 1][leaf] = DecodeOne(leaf, decode[n - 1])
        BY <2>2, <4>1, DecodeLevels
      <4>3. leaf[1] = "leaf" /\ leaf[2] = nbt[3]
        BY <2>2 DEF Leaf
      <4>4. DecodeOne(leaf, decode[n - 1]) = <<"plain", nbt[3]>>
        BY <4>3 DEF DecodeOne
      <4>5. QED
        BY <1>2, <2>1, <4>1, <4>2, <4>4
    <3>3. QED
      BY <3>1, <3>2
  <2>4. ASSUME nbt[3] \in NotFinite PROVE nbt \in Within <=> <<"float", nbt[3]>> \in Inner
    <3>1. PICK float \in NbtValues : float = <<"float", nbt[3]>> /\ float[1] = "float"
      BY <1>11, <2>4, BlockDataAssumption DEF IsNbt
    <3>2. CASE n = 0
      BY <1>1, <2>1, <3>2
    <3>3. CASE n # 0
      BY <1>1, <2>1, <3>1, <3>3, Levels
    <3>4. QED
      BY <3>2, <3>3
  <2>5. Survives(nbt, EncodeOne(nbt, enc), DecodeOne(EncodeOne(nbt, enc), dec), Within)
    BY <1>7, <1>11, <2>2, <2>3, <2>4, ScalarSurvives
  <2>6. QED
    BY <1>2, <1>3, <1>5, <2>5
<1>12. nbt[1] \in {"plain", "float", "bytes", "scalar", "compound", "list"}
  BY BlockDataAssumption DEF IsNbt
<1>13. QED
  BY <1>8, <1>9, <1>10, <1>11, <1>12

\* Whatever is captured with at least as many levels left as it is read back with.
SurvivesWithin(n) ==
    \A m \in n .. MaxDepth : \A nbt \in NbtValues :
      Survives(nbt, encode[m + 1][nbt], decode[n + 1][encode[m + 1][nbt]], shallow[n])

LEMMA ValuesSurvive == \A n \in 0 .. MaxDepth : SurvivesWithin(n)
<1> DEFINE S == {n \in 0 .. MaxDepth : SurvivesWithin(n)}
<1>1. PICK N \in Nat : N = MaxDepth
  BY BlockDataAssumption
<1>2. ASSUME NEW m \in 0 .. N, NEW c \in NbtValues PROVE encode[m][c] \in Encodings
  BY <1>1 DEF Encodings
<1>3. 0 \in S
  <2>1. ASSUME NEW m \in 0 .. N PROVE AllSurvive(encode[m], decode[0], {})
    BY <1>1, <1>2, DecodeLevels DEF AllSurvive, Survives
  <2>2. ASSUME NEW m \in 0 .. N, NEW nbt \in NbtValues
        PROVE  Survives(nbt, encode[m + 1][nbt], decode[0 + 1][encode[m + 1][nbt]], shallow[0])
    BY <1>1, <2>1, LevelSurvives
  <2>3. QED
    BY <1>1, <2>2 DEF SurvivesWithin
<1>4. ASSUME NEW n \in 1 .. N, n - 1 \in S PROVE n \in S
  <2>1. n \in 0 .. MaxDepth /\ n - 1 \in 0 .. MaxDepth /\ n # 0 /\ (n - 1) + 1 = n
    BY <1>1
  <2>2. ASSUME NEW m \in n .. N PROVE AllSurvive(encode[m], decode[n], shallow[n - 1])
    <3>1. m - 1 \in n - 1 .. MaxDepth /\ (m - 1) + 1 = m
      BY <1>1
    <3>2. ASSUME NEW c \in NbtValues
          PROVE  Survives(c, encode[m][c], decode[n][encode[m][c]], shallow[n - 1])
      BY <1>4, <2>1, <3>1 DEF SurvivesWithin
    <3>3. QED
      BY <3>2 DEF AllSurvive
  <2>3. ASSUME NEW m \in n .. N, NEW nbt \in NbtValues
        PROVE  Survives(nbt, encode[m + 1][nbt], decode[n + 1][encode[m + 1][nbt]], shallow[n])
    <3>1. PICK Inner : Inner = shallow[n - 1] /\ Inner = IF n = 0 THEN {} ELSE shallow[n - 1]
      BY <2>1
    <3>2. AllSurvive(encode[m], decode[n], Inner)
      BY <2>2, <3>1
    <3>3. m \in 0 .. MaxDepth
      BY <1>1
    <3>4. QED
      BY <2>1, <3>1, <3>2, <3>3, LevelSurvives
  <2>4. QED
    BY <1>1, <2>1, <2>3 DEF SurvivesWithin
<1> HIDE DEF S
<1>5. \A n \in 0 .. N : n \in S
  BY <1>3, <1>4, UpTo
<1>6. QED
  BY <1>1, <1>5 DEF S

----------------------------------------------------------------------------
(* What is restored of an actor. *)

\* What of an actor is read back.
NbtReadable(actor) == \A k \in Writable(actor) : actor.nbt[k] \in shallow[MaxDepth - 1]
ItemsReadable(actor) ==
    \A slot \in DOMAIN actor.inventory : actor.inventory[slot] \in shallow[MaxDepth]

\* The levels that an actor's values have at capture and at restore.
LEMMA ActorLevels ==
    /\ AllSurvive(encode[MaxDepth + 1], decode[MaxDepth], shallow[MaxDepth - 1])
    /\ \A nbt \in NbtValues :
         /\ Survives(nbt, encode[MaxDepth + 1][nbt],
                     DecodeOne(encode[MaxDepth + 1][nbt], decode[MaxDepth]), shallow[MaxDepth])
         /\ Encode(nbt, 0) = encode[MaxDepth + 1][nbt]
    /\ \A json : Decode(json, 0) = DecodeOne(json, decode[MaxDepth])
<1>1. PICK N \in Nat \ {0} : N = MaxDepth
  BY BlockDataAssumption
<1>2. N - 1 \in 0 .. N /\ N \in N - 1 .. N /\ N \in N .. N /\ (N - 1) + 1 = N /\ N \in 0 .. N
      /\ N + 1 - 0 = N + 1 /\ N - 0 = N /\ N + 1 \in 0 .. N + 1
  BY <1>1
<1>3. ASSUME NEW nbt \in NbtValues
      PROVE  Survives(nbt, encode[N + 1][nbt], decode[N][encode[N + 1][nbt]], shallow[N - 1])
  BY <1>1, <1>2, ValuesSurvive DEF SurvivesWithin
<1>4. ASSUME NEW nbt \in NbtValues
      PROVE  Survives(nbt, encode[N + 1][nbt], DecodeOne(encode[N + 1][nbt], decode[N]), shallow[N])
  <2>1. SurvivesWithin(N)
    BY <1>1, <1>2, ValuesSurvive
  <2>2. Survives(nbt, encode[N + 1][nbt], decode[N + 1][encode[N + 1][nbt]], shallow[N])
    BY <1>1, <1>2, <2>1 DEF SurvivesWithin
  <2>3. encode[N + 1][nbt] \in Encodings
    BY <1>1, <1>2 DEF Encodings
  <2>4. decode[N + 1][encode[N + 1][nbt]] = DecodeOne(encode[N + 1][nbt], decode[N])
    BY <1>1, <1>2, <2>3, DecodeLevels
  <2>5. QED
    BY <2>2, <2>4
<1>5. AllSurvive(encode[N + 1], decode[N], shallow[N - 1])
  BY <1>3 DEF AllSurvive
<1>6. \A nbt \in NbtValues : Encode(nbt, 0) = encode[N + 1][nbt]
  BY <1>1 DEF Encode
<1>7. \A json : Decode(json, 0) = DecodeOne(json, decode[N])
  BY <1>1 DEF Decode
<1>8. QED
  BY <1>1, <1>4, <1>5, <1>6, <1>7

\* The NBT that was captured is read back as one compound.
LEMMA NbtRestores ==
    ASSUME NEW actor, IsActor(actor), Writable(actor) \notin ReservedShapes,
           NEW payload, payload = Snapshot(actor), \A k \in DOMAIN payload.nbt : payload.nbt[k] # Raised
    PROVE  RestoredNbt(payload) = IF NbtReadable(actor) THEN Original(actor).nbt ELSE Raised
<1>1. PICK W, f, enc, dec, Inner :
        /\ W = Writable(actor) /\ f = [k \in W |-> actor.nbt[k]]
        /\ enc = encode[MaxDepth + 1] /\ dec = decode[MaxDepth] /\ Inner = shallow[MaxDepth - 1]
  OBVIOUS
<1>2. f \in [W -> NbtValues] /\ \A k \in W : f[k] = actor.nbt[k]
  BY <1>1 DEF IsActor, Writable
<1>3. PICK x : x = payload.nbt
  OBVIOUS
<1>4. x = [k \in W |-> Encode(actor.nbt[k], 0)]
  BY <1>1, <1>3 DEF Snapshot
<1>5. x = [k \in W |-> enc[f[k]]]
  BY <1>1, <1>2, <1>4, ActorLevels
<1>6. DOMAIN x = W /\ \A k \in W : x[k] # Raised
  BY <1>3, <1>5
<1>7. Decode(<<"object", x>>, 0) = Collected("compound", [k \in DOMAIN x |-> dec[x[k]]])
  <2>1. Decode(<<"object", x>>, 0) = DecodeOne(<<"object", x>>, dec)
    BY <1>1, ActorLevels
  <2>2. DOMAIN x \notin ReservedShapes
    BY <1>1, <1>6
  <2>3. QED
    BY <2>1, <2>2, ObjectDecodes
<1>8. Collected("compound", [k \in DOMAIN x |-> dec[x[k]]]) =
        IF \A k \in W : f[k] \in Inner THEN <<"compound", f>> ELSE Raised
  BY <1>1, <1>2, <1>5, <1>6, ActorLevels, MembersSurvive DEF Converts
<1>9. NbtReadable(actor) <=> \A k \in W : f[k] \in Inner
  BY <1>1, <1>2 DEF NbtReadable
<1>10. Original(actor).nbt = <<"compound", IF actor.type \in Shelves THEN <<>> ELSE f>>
  BY <1>1 DEF Original
<1>11. payload.type = actor.type
  BY DEF Snapshot
<1>12. PICK nbt : nbt = Decode(<<"object", payload.nbt>>, 0)
                  /\ nbt = IF NbtReadable(actor) THEN <<"compound", f>> ELSE Raised
  BY <1>3, <1>7, <1>8, <1>9
<1>13. RestoredNbt(payload) = IF nbt # Raised /\ actor.type \in Shelves THEN <<"compound", <<>>>> ELSE nbt
  BY <1>11, <1>12 DEF RestoredNbt
<1>14. CASE NbtReadable(actor)
  BY <1>10, <1>12, <1>13, <1>14, NoneRaised
<1>15. CASE ~NbtReadable(actor)
  BY <1>12, <1>13, <1>15
<1>16. QED
  BY <1>14, <1>15

\* NBT that is taken for a wrapper as a whole is not read back as it was.
LEMMA TakenNotRestored ==
    ASSUME NEW actor, IsActor(actor), TakenForWrapper(actor), actor.type \notin Shelves,
           NEW payload, payload = Snapshot(actor), \A k \in DOMAIN payload.nbt : payload.nbt[k] # Raised
    PROVE  RestoredNbt(payload) # Original(actor).nbt
<1>1. PICK W, f, enc, dec :
        /\ W = Writable(actor) /\ f = [k \in W |-> actor.nbt[k]]
        /\ enc = encode[MaxDepth + 1] /\ dec = decode[MaxDepth]
  OBVIOUS
<1>2. PICK x : x = payload.nbt
  OBVIOUS
<1>3. DOMAIN x = W /\ \A k \in W : x[k] = Encode(actor.nbt[k], 0) /\ x[k] # Raised
  BY <1>1, <1>2 DEF Snapshot
<1>4. PICK nbt : nbt = DecodeOne(<<"object", x>>, dec)
  OBVIOUS
<1>5. RestoredNbt(payload) = nbt
  <2>1. payload.type \notin Shelves
    BY DEF Snapshot
  <2>2. Decode(<<"object", x>>, 0) = nbt
    BY <1>1, <1>4, ActorLevels
  <2>3. QED
    BY <1>2, <2>1, <2>2 DEF RestoredNbt
<1>6. Original(actor).nbt = <<"compound", f>> /\ DOMAIN f = W
  BY <1>1 DEF Original
<1>7. Raised # <<"compound", f>>
  BY NoneRaised
<1>8. CASE W \in ReservedShapes \ {{CompoundWrapper}}
  <2>1. W \in {{ScalarWrapper, "value"}, {BytesWrapper}, {FloatWrapper}}
    BY <1>8 DEF ReservedShapes
  <2>2. nbt = Raised \/ nbt[1] \in {"scalar", "bytes", "float"}
    <3>1. PICK taken : taken = dec[x["value"]]
      OBVIOUS
    <3>2. CASE W = {ScalarWrapper, "value"}
      <4>1. nbt = IF taken = Raised THEN Raised ELSE <<"scalar", x[ScalarWrapper][2], taken[2]>>
        BY <1>3, <1>4, <3>1, <3>2, ObjectDecodes
      <4>2. QED
        BY <4>1
    <3>3. CASE W = {BytesWrapper}
      <4>1. nbt = <<"bytes", x[BytesWrapper][2]>>
        BY <1>3, <1>4, <3>3, ObjectDecodes
      <4>2. QED
        BY <4>1
    <3>4. CASE W = {FloatWrapper}
      <4>1. nbt = <<"float", x[FloatWrapper][2]>>
        BY <1>3, <1>4, <3>4, ObjectDecodes
      <4>2. QED
        BY <4>1
    <3>5. QED
      BY <2>1, <3>2, <3>3, <3>4
  <2>3. QED
    BY <1>5, <1>6, <1>7, <2>2
<1>9. CASE /\ W = {CompoundWrapper}
           /\ actor.nbt[CompoundWrapper][1] = "compound"
           /\ DOMAIN actor.nbt[CompoundWrapper][2] \notin ReservedShapes
  <2>1. PICK inner \in NbtValues : inner = actor.nbt[CompoundWrapper]
    BY <1>1, <1>9 DEF IsActor, Writable
  <2>2. PICK y : y = [k \in DOMAIN inner[2] |-> encode[MaxDepth][inner[2][k]]]
    OBVIOUS
  <2>3. x[CompoundWrapper] = Collected("object", y) /\ DOMAIN y = DOMAIN inner[2]
    <3>1. Encode(inner, 0) = EncodeOne(inner, encode[MaxDepth])
      BY BlockDataAssumption, ActorLevels, Levels
    <3>2. Encode(inner, 0) = Compound(y)
      BY <1>9, <2>1, <2>2, <3>1 DEF EncodeOne
    <3>3. QED
      BY <1>3, <1>9, <2>1, <2>2, <3>2 DEF Compound
  <2>4. x[CompoundWrapper] = <<"object", y>>
    BY <1>3, <1>9, <2>3 DEF Collected
  <2>5. nbt = Collected("compound", [k \in DOMAIN y |-> dec[y[k]]])
    BY <1>3, <1>4, <1>9, <2>4, WrappedDecodes
  <2>6. PICK g : g = [k \in DOMAIN y |-> dec[y[k]]]
    OBVIOUS
  <2>7. DOMAIN g # W
    BY <1>9, <2>1, <2>3, <2>6 DEF ReservedShapes
  <2>8. nbt = Raised \/ nbt = <<"compound", g>>
    BY <2>5, <2>6 DEF Collected
  <2>9. <<"compound", g>> # <<"compound", f>>
    BY <1>6, <2>7
  <2>10. QED
    BY <1>5, <1>6, <1>7, <2>8, <2>9
<1>10. QED
  BY <1>1, <1>8, <1>9 DEF TakenForWrapper

\* So are the items of a container, each at its slot.
LEMMA SlotsRestore ==
    ASSUME NEW actor, IsActor(actor), NEW payload, payload = Snapshot(actor),
           \A slot \in DOMAIN payload.inventory : payload.inventory[slot] # Raised,
           DOMAIN actor.inventory \subseteq 0 .. actor.size - 1
    PROVE  /\ ItemsReadable(actor) => RestoredSlots(payload) = Original(actor).slots
           /\ RestoredSlots(payload) # Raised => RestoredSlots(payload) = Original(actor).slots
<1>1. PICK D, R, items :
        /\ D = DOMAIN actor.inventory /\ items = actor.inventory
        /\ R = IF actor.container THEN 0 .. actor.size - 1 ELSE {}
  OBVIOUS
<1>2. items \in [D -> NbtValues]
  BY <1>1 DEF IsActor
<1>3. DOMAIN payload.inventory = D
      /\ payload.container = actor.container /\ payload.size = actor.size
  BY <1>1 DEF Snapshot
<1>4. \A slot \in D : payload.inventory[slot] = Encode(items[slot], 0)
  BY <1>1, <1>3 DEF Snapshot
<1>5. ASSUME NEW slot \in D
      PROVE  /\ items[slot] \in shallow[MaxDepth] => Decode(payload.inventory[slot], 0) = items[slot]
             /\ Decode(payload.inventory[slot], 0) # Raised =>
                  Decode(payload.inventory[slot], 0) = items[slot]
             /\ items[slot] # Raised
  BY <1>2, <1>3, <1>4, ActorLevels, NoneRaised DEF Survives
<1>6. PICK slots :
        slots = [slot \in R |-> IF slot \in D THEN Decode(payload.inventory[slot], 0)
                                ELSE <<"empty">>]
  OBVIOUS
<1>7. PICK original : original = [slot \in R |-> IF slot \in D THEN items[slot] ELSE <<"empty">>]
  OBVIOUS
<1>8. RestoredSlots(payload) = Collected("slots", slots)
  BY <1>1, <1>3, <1>6 DEF RestoredSlots
<1>9. Original(actor).slots = <<"slots", original>>
  BY <1>1, <1>7 DEF Original
<1>10. <<"empty">> # Raised
  BY DEF Raised
<1>11. ASSUME slots = original PROVE Collected("slots", slots) = <<"slots", original>>
  BY <1>5, <1>7, <1>10, <1>11 DEF Collected
<1>12. ASSUME ItemsReadable(actor) PROVE slots = original
  BY <1>1, <1>5, <1>6, <1>7, <1>12 DEF ItemsReadable
<1>13. ASSUME Collected("slots", slots) # Raised PROVE slots = original
  BY <1>5, <1>6, <1>7, <1>13 DEF Collected
<1>14. QED
  BY <1>8, <1>9, <1>11, <1>12, <1>13

\* Which payloads restore refuses at once.
LEMMA ValidIs ==
    ASSUME NEW actor, IsActor(actor), NEW payload, payload = Snapshot(actor), Captured(payload)
    PROVE  PayloadValid(payload) <=>
             actor.size <= MaxContainer /\ DOMAIN actor.inventory \subseteq 0 .. actor.size - 1
<1>1. DOMAIN payload.inventory = DOMAIN actor.inventory /\ payload.size = actor.size
  BY DEF Snapshot
<1>2. ASSUME NEW slot \in DOMAIN actor.inventory PROVE payload.inventory[slot][1] = "object"
  <2>1. PICK item \in NbtValues : item = actor.inventory[slot]
    BY DEF IsActor
  <2>2. payload.inventory[slot] =
          IF slot >= 0 /\ item[1] = "compound" THEN Encode(item, 0) ELSE Raised
    BY <2>1 DEF Snapshot
  <2>3. item[1] = "compound" /\ payload.inventory[slot] = Encode(item, 0) /\ Encode(item, 0) # Raised
    BY <1>1, <2>2 DEF Captured
  <2>4. Encode(item, 0) = EncodeOne(item, encode[MaxDepth])
    BY BlockDataAssumption, ActorLevels, Levels
  <2>5. PICK x : x = [k \in DOMAIN item[2] |-> encode[MaxDepth][item[2][k]]]
    OBVIOUS
  <2>6. Encode(item, 0) = Compound(x)
    BY <2>3, <2>4, <2>5 DEF EncodeOne
  <2>7. \A k \in DOMAIN x : x[k] # Raised
    BY <2>3, <2>6 DEF Collected, Compound
  <2>8. x = [k \in DOMAIN x |-> x[k]]
    BY <2>5
  <2>9. Compound(x)[1] = "object"
    BY <2>7, <2>8, CompoundRead
  <2>10. QED
    BY <2>3, <2>6, <2>9
<1>3. actor.size \in Nat
  BY DEF IsActor
<1>4. QED
  BY <1>1, <1>2, <1>3, BlockDataAssumption DEF PayloadValid

\* Items are restored as they were whatever the NBT looks like, or an error says so.
LEMMA SlotsSurvive ==
    ASSUME NEW actor, IsActor(actor), NEW payload, payload = Snapshot(actor), Captured(payload),
           Raised \notin {Restored(payload).nbt, Restored(payload).slots}
    PROVE  Restored(payload).slots = Original(actor).slots
<1>1. PayloadValid(payload) /\ Restored(payload).slots = RestoredSlots(payload)
  BY DEF Restored
<1>2. DOMAIN actor.inventory \subseteq 0 .. actor.size - 1
  BY <1>1, ValidIs
<1>3. \A slot \in DOMAIN payload.inventory : payload.inventory[slot] # Raised
  BY DEF Captured
<1>4. RestoredSlots(payload) # Raised => RestoredSlots(payload) = Original(actor).slots
  BY <1>2, <1>3, SlotsRestore
<1>5. QED
  BY <1>1, <1>4

\* NBT taken for a wrapper is altered, or an error says so.
LEMMA TakenAltered ==
    ASSUME NEW actor, IsActor(actor), TakenForWrapper(actor), actor.type \notin Shelves,
           NEW payload, payload = Snapshot(actor), Captured(payload)
    PROVE  Restored(payload).nbt # Original(actor).nbt
<1>1. RestoredNbt(payload) # Original(actor).nbt
  BY TakenNotRestored DEF Captured
<1>2. Original(actor).nbt # Raised
  BY NoneRaised DEF Original
<1>3. Restored(payload).nbt \in {RestoredNbt(payload), Raised}
  BY DEF Restored
<1>4. QED
  BY <1>1, <1>2, <1>3

\* What can be restored is captured without an error.
LEMMA RestorableCaptured ==
    ASSUME NEW actor, IsActor(actor), Restorable(actor)
    PROVE  Captured(Snapshot(actor))
<1>1. PICK payload : payload = Snapshot(actor)
  OBVIOUS
<1>2. ASSUME NEW k \in DOMAIN payload.nbt PROVE payload.nbt[k] # Raised
  BY <1>1, ActorLevels DEF Snapshot, IsActor, Writable, Restorable, AllSurvive, Survives
<1>3. ASSUME NEW slot \in DOMAIN payload.inventory PROVE payload.inventory[slot] # Raised
  <2>1. slot \in DOMAIN actor.inventory
        /\ payload.inventory[slot] = IF slot >= 0 /\ actor.inventory[slot][1] = "compound"
                                       THEN Encode(actor.inventory[slot], 0) ELSE Raised
    BY <1>1 DEF Snapshot
  <2>2. PICK item \in NbtValues : item = actor.inventory[slot] /\ item \in shallow[MaxDepth]
                                  /\ item[1] = "compound"
    BY <2>1 DEF IsActor, Restorable
  <2>3. slot \in 0 .. actor.size - 1 /\ actor.size \in Nat
    BY <2>1 DEF Restorable, IsActor
  <2>4. slot >= 0
    BY <2>3
  <2>5. encode[MaxDepth + 1][item] # Raised
    BY <2>2, ActorLevels DEF Survives
  <2>6. QED
    BY <2>1, <2>2, <2>4, <2>5, ActorLevels
<1>4. QED
  BY <1>1, <1>2, <1>3 DEF Captured

\* An actor is restored as it was, or an error says so.
LEMMA ActorSurvives ==
    ASSUME NEW actor, IsActor(actor), Writable(actor) \notin ReservedShapes,
           NEW payload, payload = Snapshot(actor)
    PROVE  /\ Restorable(actor) => Captured(payload) /\ Restored(payload) = Original(actor)
           /\ Captured(payload) /\ Raised \notin {Restored(payload).nbt, Restored(payload).slots} =>
                Restored(payload) = Original(actor)
<1>1. PICK original : original = Original(actor)
  OBVIOUS
<1>2. original = [nbt |-> original.nbt, slots |-> original.slots]
  BY <1>1 DEF Original
<1>3. ASSUME Captured(payload), PayloadValid(payload)
      PROVE  /\ RestoredNbt(payload) = IF NbtReadable(actor) THEN original.nbt ELSE Raised
             /\ ItemsReadable(actor) => RestoredSlots(payload) = original.slots
             /\ RestoredSlots(payload) # Raised => RestoredSlots(payload) = original.slots
  BY <1>1, <1>3, ValidIs, NbtRestores, SlotsRestore DEF Captured
<1>4. ASSUME Restorable(actor) PROVE Captured(payload) /\ Restored(payload) = original
  <2>1. Captured(payload)
    BY <1>4, RestorableCaptured
  <2>2. PayloadValid(payload)
    BY <1>4, <2>1, ValidIs DEF Restorable
  <2>3. NbtReadable(actor) /\ ItemsReadable(actor)
    BY <1>4 DEF Restorable, NbtReadable, ItemsReadable
  <2>4. RestoredNbt(payload) = original.nbt /\ RestoredSlots(payload) = original.slots
    BY <1>3, <2>1, <2>2, <2>3
  <2>5. original.nbt # Raised
    BY <1>1, NoneRaised DEF Original
  <2>6. QED
    BY <1>2, <2>1, <2>2, <2>4, <2>5 DEF Restored
<1>5. ASSUME Captured(payload), Raised \notin {Restored(payload).nbt, Restored(payload).slots}
      PROVE  Restored(payload) = original
  BY <1>2, <1>3, <1>5 DEF Restored
<1>6. QED
  BY <1>1, <1>4, <1>5

----------------------------------------------------------------------------
(* Block entities in the schematic. *)

\* The captured payloads of the block entities of s are those of its places.
EntitiesCaptured(s) ==
    \A place \in DOMAIN s.entities : place \in EntityPlaces /\ s.entities[place] = EntityAt(place)

\* What a scan stores is captured.
LEMMA ScannedCaptured ==
    ASSUME NEW s, IsScanned(s)
    PROVE  EntitiesCaptured(s)
<1>1. PICK size, low, palette, fullVolume, stray, kept :
        /\ fullVolume \in BOOLEAN /\ size \in Sizes /\ low \in Lows
        /\ stray \in Strays /\ kept \in SUBSET Box(size)
        /\ s = Scanned(size, low, kept, palette, fullVolume, stray)
  BY DEF IsScanned
<1>2. PICK D : D = {q \in kept : BlockOf(q) \in WithEntity} \cup stray
  OBVIOUS
<1>3. s.entities = [p \in D |-> EntityAt(p)]
  BY <1>1, <1>2 DEF Scanned
<1>4. D \subseteq EntityPlaces
  <2>1. PICK beside : beside = UNION Strays
    OBVIOUS
  <2>2. \A z \in Sizes : Box(z) \subseteq EntityPlaces
    BY DEF EntityPlaces
  <2>3. beside \subseteq EntityPlaces
    BY <2>1 DEF EntityPlaces
  <2>4. stray \subseteq beside
    BY <1>1, <2>1
  <2>5. kept \subseteq EntityPlaces
    BY <1>1, <2>2
  <2>6. QED
    BY <1>2, <2>3, <2>4, <2>5
<1>5. QED
  BY <1>3, <1>4 DEF EntitiesCaptured

\* A turn moves no two places of a box to one.
LEMMA TurnsApart ==
    ASSUME NEW size \in Sizes3, NEW r \in Rotations, NEW a \in Box(size), NEW b \in Box(size),
           RotateCoord(a, size, r) = RotateCoord(b, size, r)
    PROVE  a = b
BY TurnsCompose DEF NormalizeRotation, Rotations, RotateCoord

\* The turned block entities are those of the schematic, each at its turned place.
LEMMA EntityTurned ==
    ASSUME InputsInv, Valid(schematic), NEW place \in DOMAIN schematic.entities
    PROVE  TurnedEntities(schematic, rotation)[RotateCoord(place, schematic.size, rotation)]
             = schematic.entities[place]
<1>1. PICK D, turn : /\ D = DOMAIN schematic.entities
                     /\ turn = [p \in D |-> RotateCoord(p, schematic.size, rotation)]
  OBVIOUS
<1>2. schematic.size \in Sizes3 /\ rotation \in Rotations
  BY PlannerAssumption DEF InputsInv, Sizes3
<1>3. D \subseteq Box(schematic.size)
  BY <1>1 DEF Valid
<1>4. PICK q : q = turn[place] /\ q \in Range(turn)
  BY <1>1 DEF Range
<1>5. TurnedEntities(schematic, rotation)
        = [t \in Range(turn) |-> schematic.entities[CHOOSE p \in DOMAIN turn : turn[p] = t]]
  BY <1>1 DEF TurnedEntities
<1>6. PICK chosen : chosen = CHOOSE p \in DOMAIN turn : turn[p] = q
  OBVIOUS
<1>7. chosen \in D /\ turn[chosen] = turn[place]
  BY <1>1, <1>4, <1>6
<1>8. chosen = place
  BY <1>1, <1>2, <1>3, <1>7, TurnsApart
<1>9. PICK E, taken : /\ E = schematic.entities
                      /\ taken = [t \in Range(turn) |-> E[CHOOSE p \in DOMAIN turn : turn[p] = t]]
  OBVIOUS
<1>10. taken[q] = E[chosen]
  BY <1>4, <1>6, <1>9
<1>11. q = RotateCoord(place, schematic.size, rotation)
  BY <1>1, <1>4
<1>12. QED
  BY <1>5, <1>8, <1>9, <1>10, <1>11

\* A step does not touch what was saved.
LEMMA StepKeepsCaptured ==
    ASSUME EntitiesCaptured(saved), [LoadNext]_<<vars, loadVars>>
    PROVE  EntitiesCaptured(saved)'
BY DEF LoadNext, Read, FinishLoad, ExportWorldEdit, vars, loadVars, EntitiesCaptured

\* For schematics of every size, every rotation, values of every kind and nesting, and
\* every limit of their depth: what a paste restores of a block entity at its turned place
\* is what the save captured at its place, or an error says that it is not, and the error
\* comes only for values nested too deep or containers that are not sound; unless the actor's
\* own keys are those of a wrapper: then its items are kept, and its NBT is altered or refused.
THEOREM EntitiesAlwaysSurvive == LoadSpec => []EntitiesSurvive
<1>1. LoadInit => EntitiesCaptured(saved)
  BY ScannedCaptured DEF LoadInit
<1>2. EntitiesCaptured(saved) /\ [LoadNext]_<<vars, loadVars>> => EntitiesCaptured(saved)'
  BY StepKeepsCaptured
<1>3. LoadInv /\ EntitiesCaptured(saved) => EntitiesSurvive
  <2>1. SUFFICES ASSUME LoadInv, EntitiesCaptured(saved), pc = "planned",
                        NEW place \in DOMAIN schematic.entities,
                        NEW actor, actor = ActorAt(place),
                        NEW payload,
                        payload = TurnedEntities(schematic, rotation)
                                    [RotateCoord(place, schematic.size, rotation)]
                 PROVE  Survived(actor, payload)
    BY DEF EntitiesSurvive
  <2>2. schematic = Returned(saved, damage) /\ Valid(schematic) /\ SavedOk(saved)
    BY <2>1 DEF LoadInv, PlacementInv, PayloadInv
  <2>3. payload = schematic.entities[place]
    BY <2>1, <2>2, EntityTurned DEF LoadInv
  <2>4. place \in EntityPlaces /\ payload = EntityAt(place)
    BY <2>1, <2>2, <2>3 DEF SavedOk, Returned, EntitiesCaptured
  <2>5. IsActor(actor) /\ payload = Snapshot(actor)
    BY <2>1, <2>4, EntityAssumption
  <2>6. QED
    BY <2>5, ActorSurvives, SlotsSurvive, TakenAltered DEF Survived
<1>4. QED
  BY <1>1, <1>2, <1>3, LoadStays, PTL DEF LoadSpec
=============================================================================
