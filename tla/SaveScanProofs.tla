--------------------------- MODULE SaveScanProofs ---------------------------
(***************************************************************************)
(* Proofs about SaveScan for any selection, any limits and timeouts, every  *)
(* interface and any behaviour of the chunks, in memory and spilled.        *)
(***************************************************************************)
EXTENDS SaveScan, FiniteSetTheorems, SequenceTheorems, WellFoundedInduction, TLAPS

Content(b) == IF b.spilled THEN b.file ELSE b.memory
Units == Records \cup {Unwritten}

\* The stream of a spilled buffer stands at its end.
AtEnd(b) == b.spilled => b.position = b.length

WorldEntities(scanned) == {p \in scanned : Kept(Block(p)) /\ Block(p).entity}

Visited(j) == Scanned(j.region, j.regionCursor)

\* What the job counts agrees with the blocks it has visited, whatever it has read there.
Accounted(j) ==
    LET content == Content(j.records)
    IN /\ j \in Jobs
       /\ j.region \in Regions => j.regionCursor <= Volume(j.region)
       /\ j.verified = j.region - 1
       /\ j.cursor = Cardinality(Visited(j))
       /\ j.nonAir <= j.cursor /\ j.records.length <= j.cursor /\ Len(j.palette) <= j.cursor
       /\ includeAir => j.records.length = j.cursor
       /\ AtEnd(j.records)
       /\ \A k \in DOMAIN content : content[k] \in Records /\ content[k][2] <= Len(j.palette)
       /\ j.entities \subseteq WorldEntities(Visited(j))
       /\ j.bytes = Cardinality(j.entities)

\* What is left of the job without its current region, from a snapshot.
Undone(j, s) ==
    [records |-> Truncate(j.records, s.records), palette |-> SubSeq(j.palette, 1, s.palette),
     nonAir |-> s.nonAir, entities |-> {p \in j.entities : p[1] < j.region}]

SnapshotOf(j) ==
    [active |-> TRUE, records |-> j.records.length, palette |-> Len(j.palette),
     nonAir |-> j.nonAir, bytes |-> j.bytes, cursor |-> j.cursor, keys |-> {}]

\* The snapshot s was taken at the start of the job's region, and nothing before it has
\* changed since.
Preserved(j, s) ==
    /\ s.records \in Nat /\ s.records <= j.records.length
    /\ s.palette \in Nat /\ s.palette <= Len(j.palette)
    /\ s.cursor = Cardinality(Scanned(j.region, 0))
    /\ s.records <= s.cursor /\ s.palette <= s.cursor
    /\ s.nonAir \in Nat /\ s.nonAir <= s.cursor
    /\ includeAir => s.records = s.cursor
    /\ s.bytes = Cardinality({p \in j.entities : p[1] < j.region})
    /\ \A k \in 1 .. s.records : Content(j.records)[k][2] <= s.palette
    /\ ReloadUnnoticed \/ Exact(Scanned(j.region, 0), Undone(j, s))

\* The snapshot's keys are those of the region's captured entities.
KeysCaptured(j, s) ==
    /\ {p \in j.entities : p[1] = j.region} \subseteq s.keys
    /\ s.keys \subseteq {p \in Positions : p[1] = j.region}

\* A read has returned air for a chunk that is gone, and the plugin will still find out.
Tainted == snap.active /\ Relied /\ ~resident

Scanning ==
    /\ job.region \in Regions /\ job.retries <= MaxRetries
    /\ IF snap.active THEN Preserved(job, snap) /\ KeysCaptured(job, snap)
                      ELSE job.regionCursor = 0
    /\ ReloadUnnoticed \/ Tainted \/ Exact(Visited(job), job)

IInv ==
    /\ TypeOK /\ Accounted(job)
    /\ phase = "scanning" => Scanning
    /\ phase = "scanned" => ReloadUnnoticed \/ Exact(Positions, job)
    /\ phase # "invalid"
    /\ phase = "tooLarge" => Cardinality(WorldEntities(Positions)) > limit

----------------------------------------------------------------------------
(* Positions. *)

LEMMA PositionIs ==
    ASSUME NEW p
    PROVE  p \in Positions <=> \E r \in Regions : \E i \in 1 .. Volume(r) : p = <<r, i>>
BY DEF Positions

LEMMA PositionParts ==
    ASSUME NEW p \in Positions
    PROVE  /\ p[1] \in Regions /\ p[2] \in 1 .. Volume(p[1]) /\ p = <<p[1], p[2]>>
           /\ p[1] \in Nat /\ p[2] \in Nat /\ p[1] > 0 /\ p[2] > 0
           /\ Block(p).entity \in BOOLEAN /\ Block(p).key \in Keys
<1>1. PICK r \in Regions : \E i \in 1 .. Volume(r) : p = <<r, i>>
  BY PositionIs
<1>2. PICK i \in 1 .. Volume(r) : p = <<r, i>>
  BY <1>1
<1>3. p[1] = r /\ p[2] = i
  BY <1>2
<1>4. Len(Selection) \in Nat /\ Volume(r) \in Nat
  BY ScanAssumption DEF Volume, Regions
<1>5. Block(p).entity \in BOOLEAN
  BY <1>2, <1>3, ScanAssumption DEF Block, Volume, Regions
<1>6. Block(p).key \in Keys
  BY DEF Keys
<1>7. QED
  BY <1>2, <1>3, <1>4, <1>5, <1>6 DEF Regions

LEMMA PositionsFinite ==
    /\ IsFiniteSet(Positions) /\ TotalVolume \in Nat
    /\ Len(Selection) \in Nat /\ Len(Selection) > 0
    /\ \A r \in Regions : Volume(r) \in Nat /\ Volume(r) > 0
<1>1. /\ Len(Selection) \in Nat /\ Len(Selection) > 0
      /\ \A r \in Regions : Volume(r) \in Nat /\ Volume(r) > 0
  BY ScanAssumption DEF Volume, Regions
<1> DEFINE g == [r \in Regions |-> {r} \X (1 .. Volume(r))]
           cells == {{r} \X (1 .. Volume(r)) : r \in Regions}
<1>2. IsFiniteSet(cells)
  <2>1. IsFiniteSet(Regions)
    BY <1>1, FS_Interval DEF Regions
  <2>2. g \in Surjection(Regions, cells)
    BY DEF Surjection
  <2>3. QED
    BY <2>1, <2>2, FS_Surjection
<1>3. \A cell \in cells : IsFiniteSet(cell)
  <2>1. SUFFICES ASSUME NEW r \in Regions
                 PROVE  IsFiniteSet({r} \X (1 .. Volume(r)))
    OBVIOUS
  <2>2. IsFiniteSet({r})
    BY FS_Singleton
  <2>3. 1 \in Int /\ Volume(r) \in Int
    BY <1>1
  <2>4. IsFiniteSet(1 .. Volume(r))
    BY <2>3, FS_Interval
  <2>5. QED
    BY <2>2, <2>4, FS_Product
<1>4. IsFiniteSet(UNION cells)
  BY <1>2, <1>3, FS_UNION
<1>5. IsFiniteSet(Positions)
  BY <1>4 DEF Positions
<1>6. QED
  BY <1>1, <1>5, FS_CardinalityType DEF TotalVolume

LEMMA ScannedFinite ==
    ASSUME NEW r, NEW c
    PROVE  /\ Scanned(r, c) \subseteq Positions /\ IsFiniteSet(Scanned(r, c))
           /\ Cardinality(Scanned(r, c)) \in Nat
           /\ Cardinality(Scanned(r, c)) <= TotalVolume
           /\ \A S \in SUBSET Scanned(r, c) :
                /\ IsFiniteSet(S) /\ Cardinality(S) \in Nat
                /\ Cardinality(S) <= Cardinality(Scanned(r, c))
<1>1. Scanned(r, c) \subseteq Positions
  BY DEF Scanned
<1>2. IsFiniteSet(Scanned(r, c)) /\ Cardinality(Scanned(r, c)) <= TotalVolume
  BY <1>1, PositionsFinite, FS_Subset DEF TotalVolume
<1>3. \A S \in SUBSET Scanned(r, c) :
        IsFiniteSet(S) /\ Cardinality(S) <= Cardinality(Scanned(r, c))
  BY <1>2, FS_Subset
<1>4. QED
  BY <1>1, <1>2, <1>3, FS_CardinalityType

\* The next block of a region comes behind all that were scanned.
LEMMA ScannedNext ==
    ASSUME NEW r \in Regions, NEW c \in Nat, c < Volume(r), NEW p, p = <<r, c + 1>>
    PROVE  /\ p \in Positions /\ p \notin Scanned(r, c)
           /\ p[1] = r
           /\ Scanned(r, c + 1) = Scanned(r, c) \cup {p}
           /\ \A q \in Scanned(r, c) : Precedes(q, p)
           /\ Cardinality(Scanned(r, c + 1)) = Cardinality(Scanned(r, c)) + 1
<1>1. r \in Nat /\ Volume(r) \in Nat /\ p[1] = r /\ p[2] = c + 1
  BY PositionsFinite DEF Regions
<1>2. p \in Positions
  BY <1>1, PositionIs
<1>3. \A q \in Positions : q[1] = r /\ q[2] = c + 1 => q = p
  BY PositionParts
<1>4. \A q \in Positions : q[1] \in Nat /\ q[2] \in Nat
  BY PositionParts
<1>5. p \notin Scanned(r, c) /\ Scanned(r, c + 1) = Scanned(r, c) \cup {p}
  BY <1>1, <1>2, <1>3, <1>4 DEF Scanned
<1>6. \A q \in Scanned(r, c) : Precedes(q, p)
  BY <1>1, <1>4 DEF Scanned, Precedes
<1>7. Cardinality(Scanned(r, c + 1)) = Cardinality(Scanned(r, c)) + 1
  BY <1>5, ScannedFinite, FS_AddElement
<1>8. QED
  BY <1>1, <1>2, <1>5, <1>6, <1>7

LEMMA ScannedRegion ==
    ASSUME NEW r \in Regions
    PROVE  Scanned(r + 1, 0) = Scanned(r, Volume(r))
<1>1. r \in Nat /\ Volume(r) \in Nat
  BY PositionsFinite DEF Regions
<1>2. \A p \in Positions : /\ p[1] \in Nat /\ p[2] \in Nat /\ p[2] > 0
                           /\ p[1] = r => p[2] <= Volume(r)
  <2>1. \A q \in Regions : Volume(q) \in Nat
    BY PositionsFinite
  <2>2. QED
    BY <2>1, PositionParts
<1>3. \A p \in Positions :
        (p[1] < r + 1 \/ (p[1] = r + 1 /\ p[2] <= 0))
          <=> (p[1] < r \/ (p[1] = r /\ p[2] <= Volume(r)))
  <2>1. SUFFICES ASSUME NEW p \in Positions
                 PROVE  (p[1] < r + 1 \/ (p[1] = r + 1 /\ p[2] <= 0))
                          <=> (p[1] < r \/ (p[1] = r /\ p[2] <= Volume(r)))
    OBVIOUS
  <2>2. /\ p[1] \in Nat /\ p[2] \in Nat /\ p[2] > 0
        /\ p[1] = r => p[2] <= Volume(r)
    BY <1>2
  <2>3. CASE p[1] = r
    BY <1>1, <2>2, <2>3
  <2>4. CASE p[1] # r
    BY <1>1, <2>2, <2>4
  <2>5. QED
    BY <2>3, <2>4
<1>4. QED
  BY <1>3 DEF Scanned

LEMMA ScannedEnds ==
    /\ Scanned(1, 0) = {}
    /\ Scanned(Len(Selection) + 1, 0) = Positions
    /\ \A r \in Regions : Cardinality(Scanned(r, 0)) < TotalVolume
<1>1. Len(Selection) \in Nat
  BY PositionsFinite
<1>2. \A p \in Positions : p[1] \in 1 .. Len(Selection) /\ p[2] \in Nat /\ p[2] > 0
  BY PositionParts DEF Regions
<1>3. Scanned(1, 0) = {} /\ Scanned(Len(Selection) + 1, 0) = Positions
  BY <1>1, <1>2 DEF Scanned
<1>4. ASSUME NEW r \in Regions
      PROVE  Cardinality(Scanned(r, 0)) < TotalVolume
  <2>1. Volume(r) \in Nat /\ Volume(r) > 0 /\ 0 \in Nat
    BY PositionsFinite
  <2>2. Cardinality(Scanned(r, 0 + 1)) = Cardinality(Scanned(r, 0)) + 1
    BY <2>1, ScannedNext
  <2>3. /\ Cardinality(Scanned(r, 0 + 1)) <= TotalVolume /\ Cardinality(Scanned(r, 0)) \in Nat
        /\ TotalVolume \in Nat
    BY ScannedFinite, PositionsFinite
  <2>4. QED
    BY <2>2, <2>3
<1>5. QED
  BY <1>3, <1>4

----------------------------------------------------------------------------
(* Record buffers. *)

LEMMA BufferParts ==
    ASSUME NEW U, NEW b \in Buffers(U)
    PROVE  /\ b.spilled \in BOOLEAN /\ b.memory \in Seq(U) /\ b.file \in Seq(U)
           /\ b.position \in Nat /\ b.length \in Nat
           /\ Content(b) \in Seq(U) /\ Len(Content(b)) = b.length
BY DEF Buffers, Content

\* Writing at the end appends.
LEMMA OverwrittenAppends ==
    ASSUME NEW U, NEW s \in Seq(U), NEW x \in U
    PROVE  Overwritten(s, Len(s), <<x>>) = Append(s, x)
<1>1. Len(s) \in Nat /\ DOMAIN s = 1 .. Len(s) /\ Len(<<x>>) = 1
  OBVIOUS
<1> DEFINE t == Overwritten(s, Len(s), <<x>>)
<1>2. t = [n \in 1 .. Len(s) + 1 |->
             IF Len(s) < n /\ n <= Len(s) + 1 THEN <<x>>[n - Len(s)]
             ELSE IF n \in DOMAIN s THEN s[n] ELSE Unwritten]
  BY <1>1 DEF Overwritten
<1>3. \A n \in 1 .. Len(s) + 1 : t[n] = IF n = Len(s) + 1 THEN x ELSE s[n]
  BY <1>1, <1>2
<1>4. t \in Seq(U) /\ Len(t) = Len(s) + 1
  <2>1. \A n \in 1 .. Len(s) + 1 : t[n] \in U
    BY <1>1, <1>3
  <2>2. t \in [1 .. Len(s) + 1 -> U] /\ Len(s) + 1 \in Nat
    BY <1>1, <1>2, <2>1
  <2>3. QED
    BY <2>2
<1>5. /\ Append(s, x) \in Seq(U) /\ Len(Append(s, x)) = Len(s) + 1
      /\ \A n \in 1 .. Len(s) : Append(s, x)[n] = s[n]
      /\ Append(s, x)[Len(s) + 1] = x
  BY AppendProperties
<1>6. \A n \in 1 .. Len(t) : t[n] = Append(s, x)[n]
  BY <1>1, <1>3, <1>4, <1>5
<1>7. QED
  BY <1>4, <1>5, <1>6, SeqEqual

LEMMA ConcatIsAppend ==
    ASSUME NEW U, NEW s \in Seq(U), NEW x \in U
    PROVE  s \o <<x>> = Append(s, x)
OBVIOUS

LEMMA IsFile ==
    ASSUME NEW U, NEW memory \in Seq(U), NEW file \in Seq(U), NEW length \in Nat,
           length = Len(file),
           NEW b, b = [spilled |-> TRUE, memory |-> memory, file |-> file,
                       position |-> length, length |-> length]
    PROVE  /\ b \in Buffers(U) /\ AtEnd(b) /\ b.length = length
           /\ Content(b) = file
BY DEF Buffers, AtEnd, Content

LEMMA IsMemory ==
    ASSUME NEW U, NEW memory \in Seq(U), NEW file \in Seq(U), NEW position \in Nat,
           NEW length \in Nat, length = Len(memory),
           NEW b, b = [spilled |-> FALSE, memory |-> memory, file |-> file,
                       position |-> position, length |-> length]
    PROVE  /\ b \in Buffers(U) /\ AtEnd(b) /\ b.length = length
           /\ Content(b) = memory
BY DEF Buffers, AtEnd, Content

LEMMA ExtendAppends ==
    ASSUME NEW U, NEW b \in Buffers(U), AtEnd(b), NEW x \in U,
           NEW a, a = Extend(b, <<x>>)
    PROVE  /\ a \in Buffers(U) /\ AtEnd(a)
           /\ Content(a) = Append(Content(b), x)
           /\ a.length = b.length + 1
<1>1. /\ b \in [spilled : BOOLEAN, memory : Seq(U), file : Seq(U), position : Nat, length : Nat]
      /\ Content(b) \in Seq(U) /\ Len(Content(b)) = b.length /\ b.length \in Nat
  BY BufferParts DEF Buffers
<1>2. PICK c : c = IF b.length + Len(<<x>>) > Threshold THEN Spilled(b) ELSE b
  OBVIOUS
<1>3. a = IF c.spilled
            THEN [c EXCEPT !.file = Overwritten(c.file, c.position, <<x>>),
                           !.position = c.position + 1, !.length = c.length + 1]
            ELSE [c EXCEPT !.memory = c.memory \o <<x>>, !.length = c.length + 1]
  BY <1>2 DEF Extend
<1>4. /\ c \in [spilled : BOOLEAN, memory : Seq(U), file : Seq(U), position : Nat, length : Nat]
      /\ Content(c) = Content(b) /\ c.length = b.length
      /\ c.spilled => c.position = c.length
  <2>1. CASE c = b
    BY <1>1, <2>1 DEF AtEnd
  <2>2. CASE c = Spilled(b) /\ c # b
    <3>1. ~b.spilled /\ Content(b) = b.memory
      BY <2>2 DEF Spilled, Content
    <3>2. c = [spilled |-> TRUE, memory |-> <<>>, file |-> b.memory,
               position |-> Len(b.memory), length |-> b.length]
      BY <1>1, <2>2, <3>1 DEF Spilled
    <3>3. QED
      BY <1>1, <3>1, <3>2 DEF Content
  <2>3. QED
    BY <1>2, <2>1, <2>2
<1>5. Append(Content(b), x) \in Seq(U) /\ Len(Append(Content(b), x)) = b.length + 1
  BY <1>1, AppendProperties
<1>6. CASE c.spilled
  <2>1. c.file = Content(b) /\ c.position = Len(Content(b)) /\ c.length = b.length
    BY <1>1, <1>4, <1>6 DEF Content
  <2>2. Overwritten(c.file, c.position, <<x>>) = Append(Content(b), x)
    BY <1>1, <2>1, OverwrittenAppends
  <2>3. a = [spilled |-> TRUE, memory |-> c.memory, file |-> Append(Content(b), x),
             position |-> b.length + 1, length |-> b.length + 1]
    BY <1>1, <1>3, <1>4, <1>6, <2>1, <2>2
  <2>4. QED
    <3>1. PICK w : w = Append(Content(b), x)
      OBVIOUS
    <3>2. PICK l : l = b.length + 1
      OBVIOUS
    <3>3. c.memory \in Seq(U) /\ w \in Seq(U) /\ l \in Nat /\ l = Len(w)
      BY <1>1, <1>4, <1>5, <3>1, <3>2
    <3>4. a = [spilled |-> TRUE, memory |-> c.memory, file |-> w, position |-> l, length |-> l]
      BY <2>3, <3>1, <3>2
    <3>5. a \in Buffers(U) /\ AtEnd(a) /\ a.length = l /\ Content(a) = w
      BY <3>3, <3>4, IsFile
    <3>6. QED
      BY <3>1, <3>2, <3>5
<1>7. CASE ~c.spilled
  <2>1. c.memory = Content(b) /\ c.memory \o <<x>> = Append(Content(b), x)
    <3>1. c.memory = Content(b)
      BY <1>1, <1>4, <1>7 DEF Content
    <3>2. QED
      BY <1>1, <3>1, ConcatIsAppend
  <2>2. a = [spilled |-> FALSE, memory |-> Append(Content(b), x), file |-> c.file,
             position |-> c.position, length |-> b.length + 1]
    BY <1>1, <1>3, <1>4, <1>7, <2>1
  <2>3. QED
    <3>1. PICK w : w = Append(Content(b), x)
      OBVIOUS
    <3>2. PICK l : l = b.length + 1
      OBVIOUS
    <3>3. c.file \in Seq(U) /\ c.position \in Nat /\ w \in Seq(U) /\ l \in Nat /\ l = Len(w)
      BY <1>1, <1>4, <1>5, <3>1, <3>2
    <3>4. a = [spilled |-> FALSE, memory |-> w, file |-> c.file, position |-> c.position,
               length |-> l]
      BY <2>2, <3>1, <3>2
    <3>5. a \in Buffers(U) /\ AtEnd(a) /\ a.length = l /\ Content(a) = w
      BY <3>3, <3>4, IsMemory
    <3>6. QED
      BY <3>1, <3>2, <3>5
<1>8. QED
  BY <1>6, <1>7

LEMMA TruncateKeeps ==
    ASSUME NEW U, NEW b \in Buffers(U), NEW l \in Nat, l <= b.length,
           NEW a, a = Truncate(b, l)
    PROVE  /\ a \in Buffers(U) /\ AtEnd(a)
           /\ Content(a) = SubSeq(Content(b), 1, l)
           /\ a.length = l /\ Len(Content(a)) = l
           /\ \A k \in 1 .. l : Content(a)[k] = Content(b)[k]
<1>1. /\ b \in [spilled : BOOLEAN, memory : Seq(U), file : Seq(U), position : Nat, length : Nat]
      /\ Content(b) \in Seq(U) /\ Len(Content(b)) = b.length /\ b.length \in Nat
  BY BufferParts DEF Buffers
<1>2. PICK t : t = SubSeq(Content(b), 1, l)
  OBVIOUS
<1>3. t \in Seq(U) /\ Len(t) = l /\ \A k \in 1 .. l : t[k] = Content(b)[k]
  <2>1. \A k \in 1 .. l : Content(b)[k] \in U
    BY <1>1
  <2>2. /\ t \in Seq(U) /\ Len(t) = IF 1 <= l THEN l - 1 + 1 ELSE 0
        /\ \A k \in 1 .. l - 1 + 1 : t[k] = Content(b)[1 + k - 1]
    BY <1>1, <1>2, <2>1, SubSeqProperties
  <2>3. QED
    BY <2>2
<1>4. CASE b.spilled
  <2>1. a = [spilled |-> TRUE, memory |-> b.memory, file |-> t, position |-> l, length |-> l]
    BY <1>1, <1>2, <1>4 DEF Truncate, Content
  <2>2. QED
    BY <1>1, <1>2, <1>3, <2>1 DEF Buffers, AtEnd, Content
<1>5. CASE ~b.spilled
  <2>1. a = [spilled |-> FALSE, memory |-> t, file |-> b.file, position |-> b.position,
             length |-> l]
    BY <1>1, <1>2, <1>5 DEF Truncate, Content
  <2>2. QED
    BY <1>1, <1>2, <1>3, <2>1 DEF Buffers, AtEnd, Content
<1>6. QED
  BY <1>4, <1>5

----------------------------------------------------------------------------
(* One block. *)

LEMMA JobParts ==
    ASSUME NEW j \in Jobs
    PROVE  /\ j.region \in Nat /\ j.regionCursor \in Nat /\ j.cursor \in Nat
           /\ j.nonAir \in Nat /\ j.bytes \in Nat /\ j.verified \in Nat /\ j.retries \in Nat
           /\ j.palette \in Seq(Keys) /\ Len(j.palette) \in Nat
           /\ j.records \in Buffers(Units) /\ j.records.length \in Nat
           /\ Content(j.records) \in Seq(Units)
           /\ Len(Content(j.records)) = j.records.length
           /\ DOMAIN Content(j.records) = 1 .. j.records.length
           /\ j.entities \subseteq Positions
           /\ j = [region |-> j.region, regionCursor |-> j.regionCursor, cursor |-> j.cursor,
                   nonAir |-> j.nonAir, palette |-> j.palette, records |-> j.records,
                   entities |-> j.entities, bytes |-> j.bytes, verified |-> j.verified,
                   retries |-> j.retries]
<1>1. /\ TotalVolume \in Nat /\ Len(Selection) \in Nat /\ MaxRetries \in Nat
  BY PositionsFinite, ScanAssumption
<1>2. j.records \in Buffers(Units)
  BY DEF Jobs, Units
<1>3. /\ j.records.length \in Nat /\ Content(j.records) \in Seq(Units)
      /\ Len(Content(j.records)) = j.records.length
  BY <1>2, BufferParts
<1>4. QED
  BY <1>1, <1>2, <1>3 DEF Jobs

LEMMA IsJob ==
    ASSUME NEW region \in 1 .. (Len(Selection) + 1), NEW regionCursor \in Nat,
           NEW cursor \in 0 .. TotalVolume, NEW nonAir \in 0 .. TotalVolume,
           NEW palette \in Seq(Keys), NEW records \in Buffers(Units),
           NEW entities \in SUBSET Positions, NEW bytes \in Nat,
           NEW verified \in 0 .. Len(Selection), NEW retries \in 0 .. (MaxRetries + 1),
           NEW j, j = [region |-> region, regionCursor |-> regionCursor, cursor |-> cursor,
                       nonAir |-> nonAir, palette |-> palette, records |-> records,
                       entities |-> entities, bytes |-> bytes, verified |-> verified,
                       retries |-> retries]
    PROVE  j \in Jobs
BY DEF Jobs, Units

LEMMA PaletteGrows ==
    ASSUME NEW palette \in Seq(Keys), NEW key \in Keys
    PROVE  LET wider == Widened(palette, key) IN
           /\ wider \in Seq(Keys) /\ Len(wider) \in Nat
           /\ Len(palette) <= Len(wider) /\ Len(wider) <= Len(palette) + 1
           /\ \A k \in 1 .. Len(palette) : wider[k] = palette[k]
           /\ PaletteIndex(wider, key) \in 1 .. Len(wider)
           /\ wider[PaletteIndex(wider, key)] = key
<1> DEFINE wider == Widened(palette, key)
<1>1. Len(palette) \in Nat
  OBVIOUS
<1>2. /\ wider \in Seq(Keys) /\ Len(wider) \in Nat
      /\ Len(palette) <= Len(wider) /\ Len(wider) <= Len(palette) + 1
      /\ \A k \in 1 .. Len(palette) : wider[k] = palette[k]
      /\ \E k \in 1 .. Len(wider) : wider[k] = key
  <2>1. CASE Contains(palette, key)
    BY <1>1, <2>1 DEF Widened, Contains
  <2>2. CASE ~Contains(palette, key)
    <3>1. wider = Append(palette, key)
      BY <2>2 DEF Widened
    <3>2. /\ wider \in Seq(Keys) /\ Len(wider) = Len(palette) + 1
          /\ \A k \in 1 .. Len(palette) : wider[k] = palette[k]
          /\ wider[Len(palette) + 1] = key
      BY <3>1, AppendProperties
    <3>3. Len(palette) + 1 \in 1 .. Len(wider)
      BY <1>1, <3>2
    <3>4. QED
      BY <1>1, <3>2, <3>3
  <2>3. QED
    BY <2>1, <2>2
<1>3. DOMAIN wider = 1 .. Len(wider)
  BY <1>2
<1>4. QED
  BY <1>2, <1>3 DEF PaletteIndex

LEMMA ReadIs ==
    ASSUME NEW p \in Positions, resident \in BOOLEAN, includeAir \in BOOLEAN
    PROVE  /\ resident => Read(p) = Block(p)
           /\ ~resident => Read(p).key = Air /\ Read(p).entity = FALSE
           /\ Read(p).key \in Keys /\ Read(p).entity \in BOOLEAN
           /\ Kept(Read(p)) <=> (includeAir \/ Read(p).key # Air)
           /\ Kept(Block(p)) <=> (includeAir \/ Block(p).key # Air)
<1>1. Block(p).entity \in BOOLEAN /\ Block(p).key \in Keys /\ Air \in Keys
  BY PositionParts DEF Keys
<1>2. QED
  BY <1>1 DEF Read, Kept

\* Changed fields of a job, written out.
LEMMA JobExcept ==
    ASSUME NEW region, NEW regionCursor, NEW cursor, NEW nonAir, NEW palette, NEW records,
           NEW entities, NEW bytes, NEW verified, NEW retries,
           NEW region1, NEW regionCursor1, NEW cursor1, NEW nonAir1, NEW palette1, NEW records1,
           NEW entities1, NEW bytes1, NEW verified1, NEW retries1,
           NEW j, j = [region |-> region, regionCursor |-> regionCursor, cursor |-> cursor,
                       nonAir |-> nonAir, palette |-> palette, records |-> records,
                       entities |-> entities, bytes |-> bytes, verified |-> verified,
                       retries |-> retries],
           NEW q
    PROVE  /\ q = [j EXCEPT !.nonAir = nonAir1, !.cursor = cursor1,
                            !.regionCursor = regionCursor1]
                => q = [region |-> region, regionCursor |-> regionCursor1, cursor |-> cursor1,
                        nonAir |-> nonAir1, palette |-> palette, records |-> records,
                        entities |-> entities, bytes |-> bytes, verified |-> verified,
                        retries |-> retries]
           /\ q = [j EXCEPT !.palette = palette1, !.records = records1,
                            !.entities = entities1, !.bytes = bytes1]
                => q = [region |-> region, regionCursor |-> regionCursor, cursor |-> cursor,
                        nonAir |-> nonAir, palette |-> palette1, records |-> records1,
                        entities |-> entities1, bytes |-> bytes1, verified |-> verified,
                        retries |-> retries]
           /\ q = [j EXCEPT !.records = records1, !.palette = palette1, !.nonAir = nonAir1,
                            !.entities = entities1, !.bytes = bytes1, !.cursor = cursor1,
                            !.regionCursor = regionCursor1, !.retries = retries1]
                => q = [region |-> region, regionCursor |-> regionCursor1, cursor |-> cursor1,
                        nonAir |-> nonAir1, palette |-> palette1, records |-> records1,
                        entities |-> entities1, bytes |-> bytes1, verified |-> verified,
                        retries |-> retries1]
           /\ q = [j EXCEPT !.verified = verified1, !.retries = retries1, !.region = region1,
                            !.regionCursor = regionCursor1]
                => q = [region |-> region1, regionCursor |-> regionCursor1, cursor |-> cursor,
                        nonAir |-> nonAir, palette |-> palette, records |-> records,
                        entities |-> entities, bytes |-> bytes, verified |-> verified1,
                        retries |-> retries1]
<1>1. q = [j EXCEPT !.nonAir = nonAir1, !.cursor = cursor1,
                     !.regionCursor = regionCursor1]
         => q = [region |-> region, regionCursor |-> regionCursor1, cursor |-> cursor1,
                 nonAir |-> nonAir1, palette |-> palette, records |-> records,
                 entities |-> entities, bytes |-> bytes, verified |-> verified,
                 retries |-> retries]
  OBVIOUS
<1>2. q = [j EXCEPT !.palette = palette1, !.records = records1,
                     !.entities = entities1, !.bytes = bytes1]
         => q = [region |-> region, regionCursor |-> regionCursor, cursor |-> cursor,
                 nonAir |-> nonAir, palette |-> palette1, records |-> records1,
                 entities |-> entities1, bytes |-> bytes1, verified |-> verified,
                 retries |-> retries]
  OBVIOUS
<1>3. q = [j EXCEPT !.records = records1, !.palette = palette1, !.nonAir = nonAir1,
                     !.entities = entities1, !.bytes = bytes1, !.cursor = cursor1,
                     !.regionCursor = regionCursor1, !.retries = retries1]
         => q = [region |-> region, regionCursor |-> regionCursor1, cursor |-> cursor1,
                 nonAir |-> nonAir1, palette |-> palette1, records |-> records1,
                 entities |-> entities1, bytes |-> bytes1, verified |-> verified,
                 retries |-> retries1]
  <2>1. PICK a : a = [j EXCEPT !.records = records1, !.palette = palette1,
                               !.nonAir = nonAir1, !.entities = entities1]
    OBVIOUS
  <2>2. a = [region |-> region, regionCursor |-> regionCursor, cursor |-> cursor,
             nonAir |-> nonAir1, palette |-> palette1, records |-> records1,
             entities |-> entities1, bytes |-> bytes, verified |-> verified,
             retries |-> retries]
    BY <2>1
  <2>3. q = [j EXCEPT !.records = records1, !.palette = palette1, !.nonAir = nonAir1,
                      !.entities = entities1, !.bytes = bytes1, !.cursor = cursor1,
                      !.regionCursor = regionCursor1, !.retries = retries1]
         => q = [a EXCEPT !.bytes = bytes1, !.cursor = cursor1,
                          !.regionCursor = regionCursor1, !.retries = retries1]
    BY ONLY <2>1
  <2>4. QED
    BY ONLY <2>2, <2>3
<1>4. q = [j EXCEPT !.verified = verified1, !.retries = retries1, !.region = region1,
                     !.regionCursor = regionCursor1]
         => q = [region |-> region1, regionCursor |-> regionCursor1, cursor |-> cursor,
                 nonAir |-> nonAir, palette |-> palette, records |-> records,
                 entities |-> entities, bytes |-> bytes, verified |-> verified1,
                 retries |-> retries1]
  OBVIOUS
<1>5. QED
  BY <1>1, <1>2, <1>3, <1>4

\* What the next block adds to the job, if it is kept and if it is not.
LEMMA ScanBlockIs ==
    ASSUME NEW j \in Jobs
    PROVE  LET b == ScanBlock(j)
               p == NextPosition(j)
               block == Read(p)
               index == PaletteIndex(b.palette, block.key)
           IN /\ b.region = j.region /\ b.verified = j.verified /\ b.retries = j.retries
              /\ b.regionCursor = j.regionCursor + 1 /\ b.cursor = j.cursor + 1
              /\ b.nonAir = IF block.key = Air THEN j.nonAir ELSE j.nonAir + 1
              /\ Kept(block) =>
                   /\ b.palette = Widened(j.palette, block.key)
                   /\ b.records = Extend(j.records, << <<p, index>> >>)
                   /\ b.entities = IF block.entity THEN j.entities \cup {p} ELSE j.entities
                   /\ b.bytes = IF block.entity THEN j.bytes + 1 ELSE j.bytes
              /\ ~Kept(block) =>
                   /\ b.palette = j.palette /\ b.records = j.records
                   /\ b.entities = j.entities /\ b.bytes = j.bytes
              /\ b = [region |-> b.region, regionCursor |-> b.regionCursor, cursor |-> b.cursor,
                      nonAir |-> b.nonAir, palette |-> b.palette, records |-> b.records,
                      entities |-> b.entities, bytes |-> b.bytes, verified |-> b.verified,
                      retries |-> b.retries]
<1> DEFINE p == NextPosition(j)
           block == Read(p)
<1>0. PICK b : b = ScanBlock(j)
  OBVIOUS
<1>1. PICK visited : visited = [j EXCEPT !.nonAir = IF block.key = Air THEN j.nonAir
                                                                       ELSE j.nonAir + 1,
                                         !.cursor = j.cursor + 1,
                                         !.regionCursor = j.regionCursor + 1]
  OBVIOUS
<1>2. visited = [region |-> j.region, regionCursor |-> j.regionCursor + 1,
                 cursor |-> j.cursor + 1,
                 nonAir |-> IF block.key = Air THEN j.nonAir ELSE j.nonAir + 1,
                 palette |-> j.palette, records |-> j.records, entities |-> j.entities,
                 bytes |-> j.bytes, verified |-> j.verified, retries |-> j.retries]
  <2>1. j = [region |-> j.region, regionCursor |-> j.regionCursor, cursor |-> j.cursor,
             nonAir |-> j.nonAir, palette |-> j.palette, records |-> j.records,
             entities |-> j.entities, bytes |-> j.bytes, verified |-> j.verified,
             retries |-> j.retries]
    BY JobParts
  <2>2. QED
    BY <1>1, <2>1, JobExcept
<1>3. PICK palette, records, entities, bytes :
        /\ palette = Widened(j.palette, block.key)
        /\ records = Extend(j.records, << <<p, PaletteIndex(palette, block.key)>> >>)
        /\ entities = IF block.entity THEN j.entities \cup {p} ELSE j.entities
        /\ bytes = IF block.entity THEN j.bytes + 1 ELSE j.bytes
  OBVIOUS
<1>4. /\ visited.records = j.records /\ visited.entities = j.entities
      /\ visited.bytes = j.bytes
  BY <1>2
<1>5. b = IF ~Kept(block) THEN visited
          ELSE [visited EXCEPT !.palette = palette, !.records = records,
                               !.entities = entities, !.bytes = bytes]
  BY <1>0, <1>1, <1>3, <1>4 DEF ScanBlock
<1>6. CASE ~Kept(block)
  <2>1. b = visited
    BY <1>5, <1>6
  <2>2. QED
    BY <1>0, <1>2, <1>6, <2>1
<1>7. CASE Kept(block)
  <2>1. b = [visited EXCEPT !.palette = palette, !.records = records, !.entities = entities,
                            !.bytes = bytes]
    BY <1>5, <1>7
  <2>2. b = [region |-> j.region, regionCursor |-> j.regionCursor + 1, cursor |-> j.cursor + 1,
             nonAir |-> IF block.key = Air THEN j.nonAir ELSE j.nonAir + 1,
             palette |-> palette, records |-> records, entities |-> entities, bytes |-> bytes,
             verified |-> j.verified, retries |-> j.retries]
    BY <1>2, <2>1, JobExcept
  <2>3. QED
    BY <1>0, <1>3, <1>7, <2>2
<1>8. QED
  BY <1>6, <1>7

Booleans == includeAir \in BOOLEAN /\ resident \in BOOLEAN

Unfinished(j) == j.region \in Regions /\ j.regionCursor < Volume(j.region)

LEMMA NextVisited ==
    ASSUME NEW j \in Jobs, Unfinished(j)
    PROVE  LET p == NextPosition(j)
           IN /\ p \in Positions /\ p \notin Visited(j) /\ p[1] = j.region
              /\ Visited(ScanBlock(j)) = Visited(j) \cup {p}
              /\ \A q \in Visited(j) : Precedes(q, p)
              /\ Cardinality(Visited(ScanBlock(j))) = Cardinality(Visited(j)) + 1
              /\ Cardinality(Visited(j)) \in Nat
              /\ Cardinality(Visited(j)) + 1 <= TotalVolume
<1>1. PICK p : p = NextPosition(j)
  OBVIOUS
<1>2. PICK r, c : r = j.region /\ c = j.regionCursor
  OBVIOUS
<1>3. r \in Regions /\ c \in Nat /\ c < Volume(r) /\ p = <<r, c + 1>>
  BY <1>1, <1>2, JobParts DEF Unfinished, NextPosition
<1>4. /\ p \in Positions /\ p \notin Scanned(r, c) /\ p[1] = r
      /\ Scanned(r, c + 1) = Scanned(r, c) \cup {p}
      /\ \A q \in Scanned(r, c) : Precedes(q, p)
      /\ Cardinality(Scanned(r, c + 1)) = Cardinality(Scanned(r, c)) + 1
  BY <1>3, ScannedNext
<1>5. Visited(j) = Scanned(r, c) /\ Visited(ScanBlock(j)) = Scanned(r, c + 1)
  BY <1>2, ScanBlockIs DEF Visited
<1>6. /\ Cardinality(Scanned(r, c)) \in Nat
      /\ Cardinality(Scanned(r, c + 1)) <= TotalVolume
  BY ScannedFinite
<1>7. QED
  BY <1>1, <1>2, <1>4, <1>5, <1>6

\* A unit more at the end of a sequence.
LEMMA AppendedUnit ==
    ASSUME NEW U, NEW s \in Seq(U), NEW x \in U
    PROVE  LET t == Append(s, x)
           IN /\ t \in Seq(U) /\ Len(s) \in Nat /\ Len(t) = Len(s) + 1
              /\ DOMAIN s = 1 .. Len(s) /\ DOMAIN t = 1 .. Len(s) + 1
              /\ \A k \in DOMAIN s : k \in DOMAIN t /\ t[k] = s[k]
              /\ \A k \in DOMAIN t : k \in DOMAIN s \/ k = Len(s) + 1
              /\ t[Len(s) + 1] = x
BY AppendProperties

\* The palette and the record of a kept block.
LEMMA ScanBlockKeeps ==
    ASSUME Booleans, NEW j, Accounted(j), Unfinished(j)
    PROVE  LET b == ScanBlock(j)
               p == NextPosition(j)
               index == PaletteIndex(b.palette, Read(p).key)
           IN /\ b.palette \in Seq(Keys) /\ Len(b.palette) \in Nat
              /\ Len(j.palette) <= Len(b.palette) /\ Len(b.palette) <= Len(j.palette) + 1
              /\ \A k \in 1 .. Len(j.palette) : b.palette[k] = j.palette[k]
              /\ b.records \in Buffers(Units) /\ AtEnd(b.records)
              /\ ~Kept(Read(p)) => b.records = j.records
              /\ Kept(Read(p)) =>
                   /\ b.palette[index] = Read(p).key
                   /\ <<p, index>> \in Records /\ index <= Len(b.palette)
                   /\ Content(b.records) = Append(Content(j.records), <<p, index>>)
                   /\ b.records.length = j.records.length + 1
<1> DEFINE p == NextPosition(j)
<1>1. PICK b : b = ScanBlock(j)
  OBVIOUS
<1>2. PICK block : block = Read(p)
  OBVIOUS
<1>3. PICK index : index = PaletteIndex(b.palette, block.key)
  OBVIOUS
<1>4. j \in Jobs /\ AtEnd(j.records) /\ Len(j.palette) <= Cardinality(Visited(j))
  BY DEF Accounted, Visited
<1>5. /\ j.palette \in Seq(Keys) /\ Len(j.palette) \in Nat /\ j.records \in Buffers(Units)
  BY <1>4, JobParts
<1>6. /\ p \in Positions /\ TotalVolume \in Nat
      /\ Cardinality(Visited(j)) \in Nat /\ Cardinality(Visited(j)) + 1 <= TotalVolume
  BY <1>4, NextVisited, PositionsFinite
<1>7. block.key \in Keys
  BY <1>2, <1>6, ReadIs DEF Booleans
<1>8. CASE Kept(block)
  <2>1. b.palette = Widened(j.palette, block.key)
    BY <1>1, <1>2, <1>4, <1>8, ScanBlockIs
  <2>2. b.records = Extend(j.records, << <<p, index>> >>)
    BY <1>1, <1>2, <1>3, <1>4, <1>8, ScanBlockIs
  <2>3. /\ b.palette \in Seq(Keys) /\ Len(b.palette) \in Nat
        /\ Len(j.palette) <= Len(b.palette) /\ Len(b.palette) <= Len(j.palette) + 1
        /\ \A k \in 1 .. Len(j.palette) : b.palette[k] = j.palette[k]
        /\ index \in 1 .. Len(b.palette) /\ b.palette[index] = block.key
    <3>1. PICK before, key : before = j.palette /\ key = block.key
      OBVIOUS
    <3>2. before \in Seq(Keys) /\ key \in Keys
      BY <1>5, <1>7, <3>1
    <3>3. b.palette = Widened(before, key) /\ index = PaletteIndex(b.palette, key)
      BY <1>3, <2>1, <3>1
    <3>4. PICK wider : wider = Widened(before, key)
      OBVIOUS
    <3>5. /\ wider \in Seq(Keys) /\ Len(wider) \in Nat
          /\ Len(before) <= Len(wider) /\ Len(wider) <= Len(before) + 1
          /\ \A k \in 1 .. Len(before) : wider[k] = before[k]
          /\ PaletteIndex(wider, key) \in 1 .. Len(wider)
          /\ wider[PaletteIndex(wider, key)] = key
      BY <3>2, <3>4, PaletteGrows
    <3>6. wider = b.palette /\ index = PaletteIndex(wider, key)
      BY <3>3, <3>4
    <3>7. QED
      BY <3>1, <3>5, <3>6
  <2>4. index \in 1 .. TotalVolume /\ index <= Len(b.palette)
    BY <1>4, <1>5, <1>6, <2>3
  <2>5. PICK x : x = <<p, index>>
    OBVIOUS
  <2>6. x \in Records
    BY <1>6, <2>4, <2>5 DEF Records
  <2>7. x \in Units /\ b.records = Extend(j.records, <<x>>)
    BY <2>2, <2>5, <2>6 DEF Units
  <2>8. PICK records : records = b.records
    OBVIOUS
  <2>9. PICK before : before = j.records
    OBVIOUS
  <2>10. /\ before \in Buffers(Units) /\ AtEnd(before) /\ x \in Units
         /\ records = Extend(before, <<x>>)
    <3>1. before \in Buffers(Units) /\ AtEnd(before)
      BY <1>4, <1>5, <2>9
    <3>2. QED
      BY <2>7, <2>8, <2>9, <3>1
  <2>11. /\ records \in Buffers(Units) /\ AtEnd(records)
         /\ Content(records) = Append(Content(before), x)
         /\ records.length = before.length + 1
    BY <2>10, ExtendAppends
  <2>12. QED
    BY <1>1, <1>2, <1>3, <1>8, <2>3, <2>4, <2>5, <2>6, <2>8, <2>9, <2>11
<1>9. CASE ~Kept(block)
  <2>1. b.palette = j.palette /\ b.records = j.records
    BY <1>1, <1>2, <1>4, <1>9, ScanBlockIs
  <2>2. QED
    BY <1>1, <1>2, <1>4, <1>5, <1>9, <2>1
<1>10. QED
  BY <1>8, <1>9

LEMMA ScanBlockAccounted ==
    ASSUME Booleans, NEW j, Accounted(j), Unfinished(j)
    PROVE  Accounted(ScanBlock(j))
<1> DEFINE p == NextPosition(j)
           block == Read(p)
<1>1. PICK b : b = ScanBlock(j)
  OBVIOUS
<1>2. /\ j \in Jobs /\ j.verified = j.region - 1
      /\ j.cursor = Cardinality(Visited(j))
      /\ j.nonAir <= j.cursor /\ j.records.length <= j.cursor /\ Len(j.palette) <= j.cursor
      /\ includeAir => j.records.length = j.cursor
      /\ \A k \in DOMAIN Content(j.records) :
           Content(j.records)[k] \in Records /\ Content(j.records)[k][2] <= Len(j.palette)
      /\ j.entities \subseteq WorldEntities(Visited(j))
      /\ j.bytes = Cardinality(j.entities)
      /\ AtEnd(j.records)
  BY DEF Accounted
<1>3. /\ j.regionCursor \in Nat /\ j.cursor \in Nat /\ j.nonAir \in Nat /\ j.bytes \in Nat
      /\ j.records.length \in Nat /\ Len(j.palette) \in Nat
      /\ Content(j.records) \in Seq(Units) /\ j.entities \subseteq Positions
      /\ Volume(j.region) \in Nat /\ j.region \in Nat
  BY <1>2, JobParts, PositionsFinite DEF Unfinished
<1>4. /\ p \in Positions /\ p \notin Visited(j)
      /\ Visited(b) = Visited(j) \cup {p}
      /\ Cardinality(Visited(b)) = j.cursor + 1
      /\ j.cursor + 1 <= TotalVolume /\ TotalVolume \in Nat
  BY <1>1, <1>2, NextVisited, PositionsFinite
<1>5. /\ b.region = j.region /\ b.verified = j.verified /\ b.retries = j.retries
      /\ b.regionCursor = j.regionCursor + 1 /\ b.cursor = j.cursor + 1
      /\ b.nonAir = IF block.key = Air THEN j.nonAir ELSE j.nonAir + 1
      /\ b = [region |-> b.region, regionCursor |-> b.regionCursor, cursor |-> b.cursor,
              nonAir |-> b.nonAir, palette |-> b.palette, records |-> b.records,
              entities |-> b.entities, bytes |-> b.bytes, verified |-> b.verified,
              retries |-> b.retries]
  BY <1>1, <1>2, ScanBlockIs
<1>6. /\ b.palette \in Seq(Keys) /\ Len(b.palette) \in Nat
      /\ Len(j.palette) <= Len(b.palette) /\ Len(b.palette) <= Len(j.palette) + 1
      /\ b.records \in Buffers(Units) /\ AtEnd(b.records)
  BY <1>1, ScanBlockKeeps
<1>7. /\ j.nonAir <= j.cursor /\ j.records.length <= j.cursor /\ Len(j.palette) <= j.cursor
      /\ includeAir => j.records.length = j.cursor
      /\ j.nonAir \in Nat /\ j.cursor \in Nat /\ j.records.length \in Nat
      /\ Len(j.palette) \in Nat /\ j.cursor + 1 <= TotalVolume /\ TotalVolume \in Nat
  BY <1>2, <1>3, <1>4
<1>8. /\ b.cursor = j.cursor + 1
      /\ b.nonAir = IF block.key = Air THEN j.nonAir ELSE j.nonAir + 1
      /\ Len(b.palette) \in Nat /\ Len(j.palette) <= Len(b.palette)
      /\ Len(b.palette) <= Len(j.palette) + 1
  BY <1>5, <1>6
<1>9. PICK x : x = <<p, PaletteIndex(b.palette, block.key)>>
  OBVIOUS
<1>10. ASSUME Kept(block)
      PROVE  /\ \A k \in DOMAIN Content(b.records) :
                  Content(b.records)[k] \in Records /\ Content(b.records)[k][2] <= Len(b.palette)
             /\ b.entities \subseteq WorldEntities(Visited(b)) /\ b.entities \subseteq Positions
             /\ b.bytes = Cardinality(b.entities) /\ b.bytes \in Nat
             /\ b.records.length <= b.cursor
             /\ includeAir => b.records.length = b.cursor
  <2>1. /\ x \in Records /\ x[2] <= Len(b.palette)
        /\ Content(b.records) = Append(Content(j.records), x)
        /\ b.records.length = j.records.length + 1
    BY <1>1, <1>9, <1>10, ScanBlockKeeps
  <2>2. /\ b.entities = IF block.entity THEN j.entities \cup {p} ELSE j.entities
        /\ b.bytes = IF block.entity THEN j.bytes + 1 ELSE j.bytes
    BY <1>1, <1>2, <1>10, ScanBlockIs
  <2>3. \A k \in DOMAIN Content(b.records) :
          Content(b.records)[k] \in Records /\ Content(b.records)[k][2] <= Len(b.palette)
    <3>1. SUFFICES ASSUME NEW k \in DOMAIN Content(b.records)
                   PROVE  /\ Content(b.records)[k] \in Records
                          /\ Content(b.records)[k][2] <= Len(b.palette)
      OBVIOUS
    <3>2. PICK s : s = Content(j.records)
      OBVIOUS
    <3>3. s \in Seq(Units) /\ x \in Units
      BY <1>3, <2>1, <3>2 DEF Units
    <3>4. PICK t : t = Append(s, x)
      OBVIOUS
    <3>5. /\ \A l \in DOMAIN s : t[l] = s[l]
          /\ k \in DOMAIN s \/ k = Len(s) + 1
          /\ t[Len(s) + 1] = x
      BY <2>1, <3>1, <3>2, <3>3, <3>4, AppendedUnit
    <3>6. CASE k \in DOMAIN s
      <4>1. s[k] \in Records /\ s[k][2] <= Len(j.palette) /\ t[k] = s[k]
        BY <1>2, <3>2, <3>5, <3>6
      <4>2. s[k][2] \in Nat
        BY <1>4, <4>1 DEF Records
      <4>3. QED
        <5>1. s[k][2] <= Len(b.palette)
          BY <1>7, <1>8, <4>1, <4>2
        <5>2. QED
          BY <2>1, <3>2, <3>4, <4>1, <5>1
    <3>7. CASE k = Len(s) + 1
      BY <2>1, <3>2, <3>4, <3>5, <3>7
    <3>8. QED
      BY <3>5, <3>6, <3>7
  <2>4. b.entities \subseteq WorldEntities(Visited(b)) /\ b.entities \subseteq Positions
    <3>1. WorldEntities(Visited(j)) \subseteq WorldEntities(Visited(b))
      BY <1>4 DEF WorldEntities
    <3>2. block.entity => block = Block(p)
      BY <1>4, ReadIs DEF Booleans
    <3>3. block.entity => p \in WorldEntities(Visited(b))
      BY <1>4, <1>10, <3>2 DEF WorldEntities
    <3>4. QED
      BY <1>2, <1>3, <1>4, <2>2, <3>1, <3>3
  <2>5. b.bytes = Cardinality(b.entities) /\ b.bytes \in Nat
    <3>1. p \notin j.entities /\ IsFiniteSet(j.entities)
      <4>1. j.entities \subseteq Visited(j)
        BY <1>2 DEF WorldEntities
      <4>2. IsFiniteSet(Visited(j))
        BY ScannedFinite DEF Visited
      <4>3. QED
        BY <1>4, <4>1, <4>2, FS_Subset
    <3>2. Cardinality(j.entities \cup {p}) = Cardinality(j.entities) + 1
      BY <3>1, FS_AddElement
    <3>3. QED
      BY <1>2, <1>3, <2>2, <3>2
  <2>6. /\ b.records.length <= b.cursor
        /\ includeAir => b.records.length = b.cursor
    BY <1>7, <1>8, <2>1
  <2>7. QED
    BY <2>3, <2>4, <2>5, <2>6
<1>11. ASSUME ~Kept(block)
      PROVE  /\ \A k \in DOMAIN Content(b.records) :
                  Content(b.records)[k] \in Records /\ Content(b.records)[k][2] <= Len(b.palette)
             /\ b.entities \subseteq WorldEntities(Visited(b)) /\ b.entities \subseteq Positions
             /\ b.bytes = Cardinality(b.entities) /\ b.bytes \in Nat
             /\ b.records.length <= b.cursor
             /\ includeAir => b.records.length = b.cursor
  <2>1. /\ b.records = j.records /\ b.palette = j.palette
        /\ b.entities = j.entities /\ b.bytes = j.bytes
    BY <1>1, <1>2, <1>11, ScanBlockIs
  <2>2. WorldEntities(Visited(j)) \subseteq WorldEntities(Visited(b))
    BY <1>4 DEF WorldEntities
  <2>3. ~includeAir
    BY <1>11 DEF Kept
  <2>4. QED
    BY <1>2, <1>3, <1>5, <2>1, <2>2, <2>3
<1>12. /\ \A k \in DOMAIN Content(b.records) :
            Content(b.records)[k] \in Records /\ Content(b.records)[k][2] <= Len(b.palette)
       /\ b.entities \subseteq WorldEntities(Visited(b)) /\ b.entities \subseteq Positions
       /\ b.bytes = Cardinality(b.entities) /\ b.bytes \in Nat
       /\ b.records.length <= b.cursor
       /\ includeAir => b.records.length = b.cursor
  BY <1>10, <1>11
<1>13. /\ b.nonAir <= b.cursor /\ b.nonAir \in Nat /\ Len(b.palette) <= b.cursor
  BY <1>7, <1>8
<1>14. b \in Jobs
  <2>1. /\ b.region \in 1 .. (Len(Selection) + 1) /\ b.verified \in 0 .. Len(Selection)
        /\ b.retries \in 0 .. (MaxRetries + 1)
    BY <1>2, <1>5 DEF Jobs
  <2>2. /\ b.regionCursor \in Nat /\ b.cursor \in 0 .. TotalVolume
        /\ b.nonAir \in 0 .. TotalVolume
    <3>1. b.regionCursor \in Nat
      BY <1>3, <1>5
    <3>2. QED
      BY <1>7, <1>8, <1>13, <3>1
  <2>3. QED
    BY <1>5, <1>6, <1>12, <2>1, <2>2, IsJob
<1>15. b.region \in Regions => b.regionCursor <= Volume(b.region)
  BY <1>3, <1>5 DEF Unfinished
<1>16. b.verified = b.region - 1 /\ b.cursor = Cardinality(Visited(b))
  BY <1>2, <1>4, <1>5
<1>17. Accounted(b)
  BY <1>6, <1>12, <1>13, <1>14, <1>15, <1>16 DEF Accounted
<1>18. QED
  BY <1>1, <1>17

----------------------------------------------------------------------------
(* Exactness, and what is preserved of it. *)

LEMMA FreezeIs ==
    ASSUME NEW b
    PROVE  Freeze(b).content = Content(b)
BY DEF Freeze, Content

\* Exact looks at four fields only.
LEMMA ExactSame ==
    ASSUME NEW S, NEW j, NEW q,
           Content(j.records) = Content(q.records), j.palette = q.palette,
           j.entities = q.entities, j.nonAir = q.nonAir
    PROVE  Exact(S, j) => Exact(S, q)
BY FreezeIs DEF Exact

\* Exact, written with the content.
ExactContent(S, j, c) ==
    /\ \A k \in DOMAIN c :
         /\ c[k] # Unwritten
         /\ j.palette[c[k][2]] = Block(c[k][1]).key
         /\ \A l \in 1 .. (k - 1) : Precedes(c[l][1], c[k][1])
    /\ {c[k][1] : k \in DOMAIN c} = {p \in S : Kept(Block(p))}
    /\ j.entities = {p \in S : Kept(Block(p)) /\ Block(p).entity}
    /\ j.nonAir = Cardinality({p \in S : Block(p).key # Air})

LEMMA ExactIs ==
    ASSUME NEW S, NEW j
    PROVE  Exact(S, j) <=> ExactContent(S, j, Content(j.records))
<1>1. {p \in {q \in S : Kept(Block(q))} : Block(p).entity}
        = {p \in S : Kept(Block(p)) /\ Block(p).entity}
  OBVIOUS
<1>2. QED
  BY <1>1, FreezeIs DEF Exact, ExactContent

LEMMA ScanBlockExact ==
    ASSUME Booleans, NEW j, Accounted(j), Unfinished(j), resident, Exact(Visited(j), j)
    PROVE  Exact(Visited(ScanBlock(j)), ScanBlock(j))
<1> DEFINE p == NextPosition(j)
           block == Block(p)
<1>1. PICK b : b = ScanBlock(j)
  OBVIOUS
<1>2. PICK c : c = Content(j.records)
  OBVIOUS
<1>3. PICK d : d = Content(b.records)
  OBVIOUS
<1>4. /\ j \in Jobs /\ DOMAIN c = 1 .. Len(c) /\ Len(c) \in Nat /\ c \in Seq(Units)
      /\ Len(j.palette) \in Nat /\ j.nonAir \in Nat
      /\ \A k \in DOMAIN c : c[k] \in Records /\ c[k][2] <= Len(j.palette)
  BY <1>2, JobParts DEF Accounted
<1>5. /\ \A k \in DOMAIN c :
           /\ c[k] # Unwritten
           /\ j.palette[c[k][2]] = Block(c[k][1]).key
           /\ \A l \in 1 .. (k - 1) : Precedes(c[l][1], c[k][1])
      /\ {c[k][1] : k \in DOMAIN c} = {q \in Visited(j) : Kept(Block(q))}
      /\ j.entities = {q \in Visited(j) : Kept(Block(q)) /\ Block(q).entity}
      /\ j.nonAir = Cardinality({q \in Visited(j) : Block(q).key # Air})
  BY <1>2, ExactIs DEF ExactContent
<1>6. /\ p \in Positions /\ p \notin Visited(j)
      /\ Visited(b) = Visited(j) \cup {p}
      /\ \A q \in Visited(j) : Precedes(q, p)
  BY <1>1, <1>4, NextVisited
<1>7. Read(p) = block /\ block.entity \in BOOLEAN
  BY <1>6, ReadIs, PositionParts DEF Booleans
<1>8. b.nonAir = Cardinality({q \in Visited(b) : Block(q).key # Air})
  <2> DEFINE solid == {q \in Visited(j) : Block(q).key # Air}
  <2>1. IsFiniteSet(solid)
    <3>1. solid \in SUBSET Visited(j)
      OBVIOUS
    <3>2. QED
      BY <3>1, ScannedFinite DEF Visited
  <2>2. b.nonAir = IF block.key = Air THEN j.nonAir ELSE j.nonAir + 1
    BY <1>1, <1>4, <1>7, ScanBlockIs
  <2>3. CASE block.key = Air
    <3>1. {q \in Visited(b) : Block(q).key # Air} = solid
      BY <1>6, <2>3
    <3>2. QED
      BY <1>5, <2>2, <2>3, <3>1
  <2>4. CASE block.key # Air
    <3>1. {q \in Visited(b) : Block(q).key # Air} = solid \cup {p} /\ p \notin solid
      BY <1>6, <2>4
    <3>2. Cardinality(solid \cup {p}) = Cardinality(solid) + 1
      BY <2>1, <3>1, FS_AddElement
    <3>3. QED
      BY <1>5, <2>2, <2>4, <3>1, <3>2
  <2>5. QED
    BY <2>3, <2>4
<1>9. CASE ~Kept(block)
  <2>1. b.records = j.records /\ b.palette = j.palette /\ b.entities = j.entities
    BY <1>1, <1>4, <1>7, <1>9, ScanBlockIs
  <2>2. /\ {q \in Visited(b) : Kept(Block(q))} = {q \in Visited(j) : Kept(Block(q))}
        /\ {q \in Visited(b) : Kept(Block(q)) /\ Block(q).entity}
             = {q \in Visited(j) : Kept(Block(q)) /\ Block(q).entity}
    BY <1>6, <1>9
  <2>3. c = Content(b.records)
    BY <1>2, <2>1
  <2>4. Exact(Visited(b), b)
    BY <1>5, <1>8, <2>1, <2>2, <2>3, ExactIs DEF ExactContent
  <2>5. QED
    BY <1>1, <2>4
<1>10. CASE Kept(block)
  <2>1. PICK x : x = <<p, PaletteIndex(b.palette, block.key)>>
    OBVIOUS
  <2>2. /\ \A k \in 1 .. Len(j.palette) : b.palette[k] = j.palette[k]
        /\ b.palette[x[2]] = block.key /\ x[1] = p
        /\ x \in Records /\ d = Append(c, x)
    BY <1>1, <1>2, <1>3, <1>7, <1>10, <2>1, ScanBlockKeeps
  <2>3. b.entities = IF block.entity THEN j.entities \cup {p} ELSE j.entities
    BY <1>1, <1>4, <1>7, <1>10, ScanBlockIs
  <2>4. x \in Units /\ x # Unwritten
    BY <2>2, UnwrittenAssumption DEF Units
  <2>5. /\ DOMAIN d = 1 .. Len(c) + 1
        /\ \A k \in DOMAIN c : k \in DOMAIN d /\ d[k] = c[k]
        /\ \A k \in DOMAIN d : k \in DOMAIN c \/ k = Len(c) + 1
        /\ d[Len(c) + 1] = x
    BY <1>4, <2>2, <2>4, AppendedUnit
  <2>6. \A k \in DOMAIN c : /\ b.palette[c[k][2]] = Block(c[k][1]).key
                            /\ c[k][1] \in Visited(j)
    <3>1. SUFFICES ASSUME NEW k \in DOMAIN c
                   PROVE  /\ b.palette[c[k][2]] = Block(c[k][1]).key
                          /\ c[k][1] \in Visited(j)
      OBVIOUS
    <3>2. c[k][2] \in 1 .. TotalVolume /\ TotalVolume \in Nat
      BY <1>4, PositionsFinite DEF Records
    <3>3. c[k][2] \in 1 .. Len(j.palette)
      BY <1>4, <3>2
    <3>4. QED
      BY <1>5, <2>2, <3>3
  <2>7. ASSUME NEW k \in DOMAIN d
        PROVE  /\ d[k] # Unwritten
               /\ b.palette[d[k][2]] = Block(d[k][1]).key
               /\ \A l \in 1 .. (k - 1) : Precedes(d[l][1], d[k][1])
    <3>1. CASE k \in DOMAIN c
      <4>1. \A l \in 1 .. (k - 1) : l \in DOMAIN c
        BY <1>4, <3>1
      <4>2. QED
        BY <1>5, <2>5, <2>6, <3>1, <4>1
    <3>2. CASE k = Len(c) + 1
      <4>1. \A l \in 1 .. (k - 1) : l \in DOMAIN c /\ d[l] = c[l]
        BY <1>4, <2>5, <3>2
      <4>2. d[k] = x
        BY <2>5, <3>2
      <4>3. QED
        BY <1>6, <2>2, <2>4, <2>6, <4>1, <4>2
    <3>3. QED
      BY <2>5, <2>7, <3>1, <3>2
  <2>8. {d[k][1] : k \in DOMAIN d} = {q \in Visited(b) : Kept(Block(q))}
    <3>1. {d[k][1] : k \in DOMAIN d} = {c[k][1] : k \in DOMAIN c} \cup {p}
      <4>1. Len(c) + 1 \in DOMAIN d
        BY <1>4, <2>5
      <4>2. QED
        BY <2>2, <2>5, <4>1
    <3>2. QED
      BY <1>5, <1>6, <1>10, <3>1
  <2>9. b.entities = {q \in Visited(b) : Kept(Block(q)) /\ Block(q).entity}
    BY <1>5, <1>6, <1>7, <1>10, <2>3
  <2>10. Exact(Visited(b), b)
    <3>1. ExactContent(Visited(b), b, d)
      BY <1>8, <2>7, <2>8, <2>9 DEF ExactContent
    <3>2. QED
      BY <1>3, <3>1, ExactIs
  <2>11. QED
    BY <1>1, <2>10
<1>11. QED
  BY <1>9, <1>10

LEMMA PrefixSame ==
    ASSUME NEW U, NEW s \in Seq(U), NEW V, NEW t \in Seq(V), NEW l \in Nat,
           l <= Len(s), l <= Len(t), \A k \in 1 .. l : s[k] = t[k]
    PROVE  /\ SubSeq(s, 1, l) = SubSeq(t, 1, l)
           /\ SubSeq(s, 1, l) \in Seq(U) /\ Len(SubSeq(s, 1, l)) = l
           /\ \A k \in 1 .. l : SubSeq(s, 1, l)[k] = s[k]
<1>1. Len(s) \in Nat /\ Len(t) \in Nat
  OBVIOUS
<1>2. SubSeq(s, 1, l) = [k \in 1 .. l |-> s[k]]
  BY <1>1
<1>3. SubSeq(t, 1, l) = [k \in 1 .. l |-> t[k]]
  BY <1>1
<1>4. SubSeq(s, 1, l) \in Seq(U) /\ Len(SubSeq(s, 1, l)) = l
  BY <1>1
<1>5. QED
  BY <1>2, <1>3, <1>4

\* What Undone depends on.
LEMMA UndoneSame ==
    ASSUME NEW S, NEW s, s.records \in Nat, s.palette \in Nat,
           NEW j \in Jobs, s.records <= j.records.length, s.palette <= Len(j.palette),
           NEW b \in Jobs, j.records.length <= b.records.length,
           Len(j.palette) <= Len(b.palette),
           \A k \in 1 .. s.records : Content(b.records)[k] = Content(j.records)[k],
           \A k \in 1 .. s.palette : b.palette[k] = j.palette[k],
           {p \in b.entities : p[1] < b.region} = {p \in j.entities : p[1] < j.region},
           Exact(S, Undone(j, s))
    PROVE  Exact(S, Undone(b, s))
<1>1. PICK c, d : c = Content(j.records) /\ d = Content(b.records)
  OBVIOUS
<1>2. PICK l, m : l = s.records /\ m = s.palette
  OBVIOUS
<1>3. /\ j.records \in Buffers(Units) /\ c \in Seq(Units) /\ Len(c) = j.records.length
      /\ b.records \in Buffers(Units) /\ d \in Seq(Units) /\ Len(d) = b.records.length
      /\ j.palette \in Seq(Keys) /\ b.palette \in Seq(Keys)
      /\ Len(j.palette) \in Nat /\ Len(b.palette) \in Nat
      /\ j.records.length \in Nat /\ b.records.length \in Nat
  BY <1>1, JobParts
<1>4. /\ l \in Nat /\ l <= Len(c) /\ l <= Len(d) /\ \A k \in 1 .. l : d[k] = c[k]
      /\ m \in Nat /\ m <= Len(j.palette) /\ m <= Len(b.palette)
      /\ \A k \in 1 .. m : b.palette[k] = j.palette[k]
  BY <1>1, <1>2, <1>3
<1>5. SubSeq(d, 1, l) = SubSeq(c, 1, l)
  BY <1>3, <1>4, PrefixSame
<1>6. SubSeq(b.palette, 1, m) = SubSeq(j.palette, 1, m)
  BY <1>3, <1>4, PrefixSame
<1>7. /\ Content(Truncate(j.records, l)) = SubSeq(c, 1, l)
      /\ Content(Truncate(b.records, l)) = SubSeq(d, 1, l)
  <2>1. PICK v, w : v = j.records /\ w = b.records
    OBVIOUS
  <2>2. PICK y, z : y = Truncate(v, l) /\ z = Truncate(w, l)
    OBVIOUS
  <2>3. v \in Buffers(Units) /\ l \in Nat /\ l <= v.length
    BY <1>3, <1>4, <2>1
  <2>4. w \in Buffers(Units) /\ l <= w.length
    BY <1>3, <1>4, <2>1
  <2>5. Content(y) = SubSeq(Content(v), 1, l)
    BY <2>2, <2>3, TruncateKeeps
  <2>6. Content(z) = SubSeq(Content(w), 1, l)
    BY <2>2, <2>3, <2>4, TruncateKeeps
  <2>7. QED
    BY <1>1, <2>1, <2>2, <2>5, <2>6
<1>8. PICK q, r : q = Undone(j, s) /\ r = Undone(b, s)
  OBVIOUS
<1>9. Content(q.records) = Content(r.records)
  BY <1>2, <1>5, <1>7, <1>8 DEF Undone
<1>10. q.palette = r.palette
  BY <1>2, <1>6, <1>8 DEF Undone
<1>11. q.entities = r.entities /\ q.nonAir = r.nonAir
  BY <1>8 DEF Undone
<1>12. Exact(S, q)
  BY <1>8
<1>13. Exact(S, r)
  BY <1>9, <1>10, <1>11, <1>12, ExactSame
<1>14. QED
  BY <1>8, <1>13

LEMMA ScanBlockPreserves ==
    ASSUME Booleans, NEW j, Accounted(j), Unfinished(j), NEW s, Preserved(j, s)
    PROVE  Preserved(ScanBlock(j), s)
<1> DEFINE p == NextPosition(j)
<1>1. PICK b : b = ScanBlock(j)
  OBVIOUS
<1>2. j \in Jobs /\ b \in Jobs /\ b.region = j.region
  BY <1>1, ScanBlockAccounted, ScanBlockIs DEF Accounted
<1>3. /\ j.records.length \in Nat /\ Len(j.palette) \in Nat
      /\ b.records.length \in Nat /\ Len(b.palette) \in Nat
      /\ DOMAIN Content(j.records) = 1 .. j.records.length
      /\ Content(j.records) \in Seq(Units) /\ Len(Content(j.records)) = j.records.length
      /\ j.region \in Nat
  BY <1>2, JobParts
<1>4. Len(j.palette) <= Len(b.palette) /\ \A k \in 1 .. Len(j.palette) : b.palette[k] = j.palette[k]
  BY <1>1, ScanBlockKeeps
<1>5. /\ j.records.length <= b.records.length
      /\ \A k \in 1 .. j.records.length : Content(b.records)[k] = Content(j.records)[k]
  <2>1. CASE ~Kept(Read(p))
    <3>1. b.records = j.records
      BY <1>1, <2>1, ScanBlockKeeps
    <3>2. QED
      BY <1>3, <3>1
  <2>2. CASE Kept(Read(p))
    <3>1. PICK x : x = <<p, PaletteIndex(b.palette, Read(p).key)>>
      OBVIOUS
    <3>2. /\ x \in Records /\ Content(b.records) = Append(Content(j.records), x)
          /\ b.records.length = j.records.length + 1
      BY <1>1, <2>2, <3>1, ScanBlockKeeps
    <3>3. x \in Units
      BY <3>2 DEF Units
    <3>4. PICK c : c = Content(j.records)
      OBVIOUS
    <3>5. c \in Seq(Units) /\ DOMAIN c = 1 .. j.records.length /\ DOMAIN c = 1 .. Len(c)
      BY <1>3, <3>4
    <3>6. \A k \in DOMAIN c : Append(c, x)[k] = c[k]
      <4>1. \A k \in 1 .. Len(c) : Append(c, x)[k] = c[k]
        BY <3>3, <3>5, AppendProperties
      <4>2. QED
        BY <3>5, <4>1
    <3>7. QED
      BY <1>3, <3>2, <3>4, <3>5, <3>6
  <2>3. QED
    BY <2>1, <2>2
<1>6. {q \in b.entities : q[1] < b.region} = {q \in j.entities : q[1] < j.region}
  <2>1. p[1] = j.region /\ ~(j.region < j.region)
    BY <1>2, <1>3, NextVisited
  <2>2. b.entities = j.entities \/ b.entities = j.entities \cup {p}
    BY <1>1, <1>2, ScanBlockIs
  <2>3. QED
    BY <1>2, <2>1, <2>2
<1>7. /\ s.records \in Nat /\ s.records <= j.records.length
      /\ s.palette \in Nat /\ s.palette <= Len(j.palette)
      /\ s.cursor = Cardinality(Scanned(j.region, 0))
      /\ s.records <= s.cursor /\ s.palette <= s.cursor
      /\ s.nonAir \in Nat /\ s.nonAir <= s.cursor
      /\ includeAir => s.records = s.cursor
      /\ s.bytes = Cardinality({q \in j.entities : q[1] < j.region})
      /\ \A k \in 1 .. s.records : Content(j.records)[k][2] <= s.palette
      /\ ReloadUnnoticed \/ Exact(Scanned(j.region, 0), Undone(j, s))
  BY DEF Preserved
<1>8. /\ s.records <= b.records.length /\ s.palette <= Len(b.palette)
      /\ \A k \in 1 .. s.records : Content(b.records)[k] = Content(j.records)[k]
      /\ \A k \in 1 .. s.palette : b.palette[k] = j.palette[k]
  <2>1. PICK l, m : l = s.records /\ m = s.palette
    OBVIOUS
  <2>2. l \in Nat /\ l <= j.records.length /\ m \in Nat /\ m <= Len(j.palette)
    BY <1>7, <2>1
  <2>3. l <= b.records.length /\ m <= Len(b.palette)
    BY <1>3, <1>4, <1>5, <2>2
  <2>4. \A k \in 1 .. l : k \in 1 .. j.records.length
    BY <1>3, <2>2
  <2>5. \A k \in 1 .. m : k \in 1 .. Len(j.palette)
    BY <1>3, <2>2
  <2>6. QED
    BY <1>4, <1>5, <2>1, <2>3, <2>4, <2>5
<1>9. ReloadUnnoticed \/ Exact(Scanned(b.region, 0), Undone(b, s))
  BY <1>2, <1>4, <1>5, <1>6, <1>7, <1>8, UndoneSame
<1>10. Preserved(b, s)
  BY <1>2, <1>6, <1>7, <1>8, <1>9 DEF Preserved
<1>11. QED
  BY <1>1, <1>10

\* A position visited in no region but the current one lies before it.
LEMMA EntitiesBefore ==
    ASSUME NEW j, Accounted(j)
    PROVE  LET before == {p \in j.entities : p[1] < j.region}
           IN /\ j.entities = before \cup {p \in j.entities : p[1] = j.region}
              /\ before \subseteq WorldEntities(Scanned(j.region, 0))
              /\ before \subseteq Positions
              /\ IsFiniteSet(before) /\ Cardinality(before) \in Nat
<1> DEFINE before == {p \in j.entities : p[1] < j.region}
<1>1. /\ j.entities \subseteq WorldEntities(Visited(j))
      /\ j.region \in Nat
  BY JobParts DEF Accounted
<1>2. \A p \in j.entities : /\ p \in Positions /\ Kept(Block(p)) /\ Block(p).entity
                            /\ p[1] < j.region \/ p[1] = j.region
  BY <1>1 DEF WorldEntities, Visited, Scanned
<1>3. before \subseteq WorldEntities(Scanned(j.region, 0))
  BY <1>2 DEF WorldEntities, Scanned
<1>4. before \in SUBSET Scanned(j.region, 0)
  BY <1>3 DEF WorldEntities
<1>5. IsFiniteSet(before) /\ Cardinality(before) \in Nat
  BY <1>4, ScannedFinite
<1>6. QED
  BY <1>2, <1>3, <1>5

LEMMA RollbackIs ==
    ASSUME NEW j, Accounted(j), j.region \in Regions, j.retries <= MaxRetries,
           NEW s, Preserved(j, s), KeysCaptured(j, s)
    PROVE  LET r == Rollback(j, s)
           IN /\ Accounted(r)
              /\ r.region = j.region /\ r.regionCursor = 0 /\ r.retries = j.retries + 1
              /\ r.bytes = Cardinality(r.entities)
              /\ ReloadUnnoticed \/ Exact(Scanned(j.region, 0), r)
<1> DEFINE before == {p \in j.entities : p[1] < j.region}
<1>1. /\ j \in Jobs /\ j.verified = j.region - 1
      /\ \A k \in DOMAIN Content(j.records) :
           Content(j.records)[k] \in Records /\ Content(j.records)[k][2] <= Len(j.palette)
  BY DEF Accounted
<1>2. /\ s.records \in Nat /\ s.records <= j.records.length
      /\ s.palette \in Nat /\ s.palette <= Len(j.palette)
      /\ s.cursor = Cardinality(Scanned(j.region, 0))
      /\ s.records <= s.cursor /\ s.palette <= s.cursor
      /\ s.nonAir \in Nat /\ s.nonAir <= s.cursor
      /\ includeAir => s.records = s.cursor
      /\ s.bytes = Cardinality(before)
      /\ \A k \in 1 .. s.records : Content(j.records)[k][2] <= s.palette
      /\ ReloadUnnoticed \/ Exact(Scanned(j.region, 0), Undone(j, s))
  BY DEF Preserved
<1>3. PICK records, palette, entities :
        /\ records = Truncate(j.records, s.records)
        /\ palette = SubSeq(j.palette, 1, s.palette)
        /\ entities = j.entities \ s.keys
  OBVIOUS
<1>4. PICK r : r = Rollback(j, s)
  OBVIOUS
<1>5. r = [region |-> j.region, regionCursor |-> 0, cursor |-> s.cursor, nonAir |-> s.nonAir,
           palette |-> palette, records |-> records, entities |-> entities,
           bytes |-> s.bytes, verified |-> j.verified, retries |-> j.retries + 1]
  <2>1. j = [region |-> j.region, regionCursor |-> j.regionCursor, cursor |-> j.cursor,
             nonAir |-> j.nonAir, palette |-> j.palette, records |-> j.records,
             entities |-> j.entities, bytes |-> j.bytes, verified |-> j.verified,
             retries |-> j.retries]
    BY <1>1, JobParts
  <2>2. r = [j EXCEPT !.records = records, !.palette = palette, !.nonAir = s.nonAir,
                      !.entities = entities, !.bytes = s.bytes, !.cursor = s.cursor,
                      !.regionCursor = 0, !.retries = j.retries + 1]
    BY <1>3, <1>4 DEF Rollback
  <2>3. PICK nonAir, bytes, cursor, retries, zero :
          /\ nonAir = s.nonAir /\ bytes = s.bytes /\ cursor = s.cursor
          /\ retries = j.retries + 1 /\ zero = 0
    OBVIOUS
  <2>4. r = [j EXCEPT !.records = records, !.palette = palette, !.nonAir = nonAir,
                      !.entities = entities, !.bytes = bytes, !.cursor = cursor,
                      !.regionCursor = zero, !.retries = retries]
    BY <2>2, <2>3
  <2>5. r = [region |-> j.region, regionCursor |-> zero, cursor |-> cursor, nonAir |-> nonAir,
             palette |-> palette, records |-> records, entities |-> entities,
             bytes |-> bytes, verified |-> j.verified, retries |-> retries]
    BY <2>1, <2>4, JobExcept
  <2>6. QED
    BY <2>3, <2>5
<1>6. /\ j.records \in Buffers(Units) /\ j.palette \in Seq(Keys) /\ Len(j.palette) \in Nat
      /\ j.region \in Nat /\ j.retries \in Nat /\ MaxRetries \in Nat
      /\ DOMAIN Content(j.records) = 1 .. j.records.length /\ j.records.length \in Nat
  BY <1>1, JobParts, ScanAssumption
<1>7. /\ records \in Buffers(Units) /\ AtEnd(records)
      /\ records.length = s.records /\ Len(Content(records)) = s.records
      /\ \A k \in 1 .. s.records : Content(records)[k] = Content(j.records)[k]
  <2>1. PICK b, l : b = j.records /\ l = s.records
    OBVIOUS
  <2>2. b \in Buffers(Units) /\ l \in Nat /\ l <= b.length /\ records = Truncate(b, l)
    BY <1>2, <1>3, <1>6, <2>1
  <2>3. /\ records \in Buffers(Units) /\ AtEnd(records)
        /\ records.length = l /\ Len(Content(records)) = l
        /\ \A k \in 1 .. l : Content(records)[k] = Content(b)[k]
    BY <2>2, TruncateKeeps
  <2>4. QED
    BY <2>1, <2>3
<1>8. palette \in Seq(Keys) /\ Len(palette) = s.palette
  <2>1. PICK m : m = s.palette
    OBVIOUS
  <2>2. m \in Nat /\ m <= Len(j.palette) /\ palette = SubSeq(j.palette, 1, m)
    BY <1>2, <1>3, <2>1
  <2>3. QED
    BY <1>6, <2>1, <2>2, PrefixSame
<1>9. /\ entities = before
      /\ before \subseteq WorldEntities(Scanned(j.region, 0)) /\ before \subseteq Positions
      /\ Cardinality(before) \in Nat
  <2>1. /\ j.entities = before \cup {p \in j.entities : p[1] = j.region}
        /\ before \subseteq WorldEntities(Scanned(j.region, 0)) /\ before \subseteq Positions
        /\ Cardinality(before) \in Nat
    BY EntitiesBefore
  <2>2. \A p \in s.keys : p[1] = j.region
    BY DEF KeysCaptured
  <2>3. QED
    BY <1>3, <1>6, <2>1, <2>2 DEF KeysCaptured
<1>10. s.cursor \in Nat /\ s.cursor <= TotalVolume /\ TotalVolume \in Nat
  BY <1>2, ScannedFinite, PositionsFinite
<1>11. r \in Jobs
  <2>1. j.region \in 1 .. (Len(Selection) + 1) /\ j.verified \in 0 .. Len(Selection)
    BY <1>1 DEF Jobs
  <2>2. /\ 0 \in Nat /\ s.cursor \in 0 .. TotalVolume /\ s.nonAir \in 0 .. TotalVolume
        /\ entities \in SUBSET Positions /\ s.bytes \in Nat
        /\ j.retries + 1 \in 0 .. (MaxRetries + 1)
    BY <1>2, <1>6, <1>9, <1>10
  <2>3. QED
    BY <1>5, <1>7, <1>8, <2>1, <2>2, IsJob
<1>12. /\ r.region = j.region /\ r.regionCursor = 0 /\ r.cursor = s.cursor
       /\ r.nonAir = s.nonAir /\ r.palette = palette /\ r.records = records
       /\ r.entities = entities /\ r.bytes = s.bytes /\ r.verified = j.verified
       /\ r.retries = j.retries + 1
  BY <1>5
<1>13. Visited(r) = Scanned(j.region, 0)
  BY <1>12 DEF Visited
<1>14. \A k \in DOMAIN Content(r.records) :
         Content(r.records)[k] \in Records /\ Content(r.records)[k][2] <= Len(r.palette)
  <2>1. DOMAIN Content(records) = 1 .. s.records
    BY <1>7, BufferParts
  <2>2. \A k \in 1 .. s.records : k \in DOMAIN Content(j.records)
    BY <1>2, <1>6
  <2>3. QED
    BY <1>1, <1>2, <1>7, <1>8, <1>12, <2>1, <2>2
<1>15. 0 <= Volume(j.region)
  BY PositionsFinite
<1>16. Accounted(r)
  BY <1>1, <1>2, <1>7, <1>8, <1>9, <1>11, <1>12, <1>13, <1>14, <1>15 DEF Accounted
<1>17. ReloadUnnoticed \/ Exact(Scanned(j.region, 0), r)
  <2>1. SUFFICES ASSUME ~ReloadUnnoticed
                 PROVE  Exact(Scanned(j.region, 0), r)
    OBVIOUS
  <2>2. PICK u : u = Undone(j, s)
    OBVIOUS
  <2>3. Exact(Scanned(j.region, 0), u)
    BY <1>2, <2>1, <2>2
  <2>4. /\ u.records = records /\ u.palette = palette /\ u.nonAir = s.nonAir
        /\ u.entities = before
    BY <1>3, <2>2 DEF Undone
  <2>5. QED
    BY <1>9, <1>12, <2>3, <2>4, ExactSame
<1>18. QED
  BY <1>2, <1>4, <1>9, <1>12, <1>16, <1>17

LEMMA FreshSnapshot ==
    ASSUME NEW j, Accounted(j), j.region \in Regions, j.regionCursor = 0,
           ReloadUnnoticed \/ Exact(Visited(j), j)
    PROVE  /\ Preserved(j, SnapshotOf(j)) /\ KeysCaptured(j, SnapshotOf(j))
           /\ SnapshotOf(j) \in Snapshots
<1> DEFINE before == {p \in j.entities : p[1] < j.region}
<1>1. PICK s : s = SnapshotOf(j)
  OBVIOUS
<1>2. /\ s.records = j.records.length /\ s.palette = Len(j.palette) /\ s.nonAir = j.nonAir
      /\ s.bytes = j.bytes /\ s.cursor = j.cursor /\ s.keys = {} /\ s.active = TRUE
  BY <1>1 DEF SnapshotOf
<1>3. /\ j \in Jobs /\ j.cursor = Cardinality(Visited(j))
      /\ j.nonAir <= j.cursor /\ j.records.length <= j.cursor /\ Len(j.palette) <= j.cursor
      /\ includeAir => j.records.length = j.cursor
      /\ \A k \in DOMAIN Content(j.records) : Content(j.records)[k][2] <= Len(j.palette)
      /\ j.entities \subseteq WorldEntities(Visited(j))
      /\ j.bytes = Cardinality(j.entities)
  BY DEF Accounted
<1>4. /\ j.records.length \in Nat /\ Len(j.palette) \in Nat /\ j.nonAir \in Nat
      /\ j.bytes \in Nat /\ j.cursor \in Nat
      /\ DOMAIN Content(j.records) = 1 .. j.records.length
      /\ j.palette \in Seq(Keys) /\ j.records \in Buffers(Units)
  BY <1>3, JobParts
<1>5. Visited(j) = Scanned(j.region, 0)
  BY DEF Visited
<1>6. \A p \in j.entities : p \in Positions /\ p[1] # j.region
  <2>1. \A p \in Scanned(j.region, 0) : p \in Positions /\ p[1] # j.region
    <3>1. \A p \in Positions : p[2] \in Nat /\ p[2] > 0 /\ p[1] \in Nat
      BY PositionParts
    <3>2. j.region \in Nat
      BY <1>3, JobParts
    <3>3. QED
      BY <3>1, <3>2 DEF Scanned
  <2>2. QED
    BY <1>3, <1>5, <2>1 DEF WorldEntities
<1>7. j.entities = before
  BY <1>6, EntitiesBefore
<1>8. ReloadUnnoticed \/ Exact(Scanned(j.region, 0), Undone(j, s))
  <2>1. SUFFICES ASSUME ~ReloadUnnoticed
                 PROVE  Exact(Scanned(j.region, 0), Undone(j, s))
    OBVIOUS
  <2>2. PICK u : u = Undone(j, s)
    OBVIOUS
  <2>3. u.records = Truncate(j.records, s.records) /\ u.palette = SubSeq(j.palette, 1, s.palette)
    BY <2>2 DEF Undone
  <2>4. u.nonAir = j.nonAir /\ u.entities = j.entities
    BY <1>2, <1>7, <2>2 DEF Undone
  <2>5. u.palette = j.palette
    BY <1>2, <1>4, <2>3
  <2>6. Content(u.records) = Content(j.records)
    <3>1. PICK b, l : b = j.records /\ l = s.records
      OBVIOUS
    <3>2. b \in Buffers(Units) /\ l \in Nat /\ l <= b.length
      BY <1>2, <1>4, <3>1
    <3>3. u.records = Truncate(b, l)
      BY <2>3, <3>1
    <3>4. Content(u.records) = SubSeq(Content(b), 1, l)
      BY <3>2, <3>3, TruncateKeeps
    <3>5. Content(b) \in Seq(Units) /\ Len(Content(b)) = l
      BY <1>2, <1>4, <3>1, BufferParts
    <3>6. QED
      BY <3>1, <3>4, <3>5
  <2>7. Exact(Scanned(j.region, 0), j)
    BY <1>5, <2>1
  <2>8. QED
    BY <2>2, <2>4, <2>5, <2>6, <2>7, ExactSame
<1>9. Preserved(j, s)
  <2>1. /\ s.records \in Nat /\ s.records <= j.records.length
        /\ s.palette \in Nat /\ s.palette <= Len(j.palette)
        /\ s.cursor = Cardinality(Scanned(j.region, 0))
        /\ s.records <= s.cursor /\ s.palette <= s.cursor
        /\ s.nonAir \in Nat /\ s.nonAir <= s.cursor
        /\ includeAir => s.records = s.cursor
    BY <1>2, <1>3, <1>4, <1>5
  <2>2. s.bytes = Cardinality(before)
    BY <1>2, <1>3, <1>7
  <2>3. \A k \in 1 .. s.records : Content(j.records)[k][2] <= s.palette
    BY <1>2, <1>3, <1>4
  <2>4. QED
    BY <1>8, <2>1, <2>2, <2>3 DEF Preserved
<1>10. KeysCaptured(j, s)
  BY <1>2, <1>6 DEF KeysCaptured
<1>11. s \in Snapshots
  <2>1. /\ j.records.length \in 0 .. TotalVolume /\ Len(j.palette) \in 0 .. TotalVolume
        /\ j.nonAir \in 0 .. TotalVolume /\ j.cursor \in 0 .. TotalVolume
    <3>1. j.cursor <= TotalVolume /\ TotalVolume \in Nat
      BY <1>3, <1>5, ScannedFinite, PositionsFinite
    <3>2. QED
      BY <1>3, <1>4, <3>1
  <2>2. s = [active |-> TRUE, records |-> j.records.length, palette |-> Len(j.palette),
             nonAir |-> j.nonAir, bytes |-> j.bytes, cursor |-> j.cursor, keys |-> {}]
    BY <1>1 DEF SnapshotOf
  <2>3. QED
    BY <1>4, <2>1, <2>2 DEF Snapshots
<1>12. QED
  BY <1>1, <1>9, <1>10, <1>11

LEMMA SnapshotPreserved ==
    ASSUME TypeOK, Accounted(job), Scanning
    PROVE  /\ Preserved(job, Snapshot) /\ KeysCaptured(job, Snapshot)
           /\ Snapshot \in Snapshots /\ Snapshot.active
<1>1. job.region \in Regions
  BY DEF Scanning
<1>2. CASE snap.active
  <2>1. Snapshot = snap
    BY <1>2 DEF Snapshot
  <2>2. Preserved(job, snap) /\ KeysCaptured(job, snap) /\ snap \in Snapshots
    BY <1>2 DEF Scanning, TypeOK
  <2>3. QED
    BY <1>2, <2>1, <2>2
<1>3. CASE ~snap.active
  <2>1. Snapshot = SnapshotOf(job)
    BY <1>3 DEF Snapshot, SnapshotOf
  <2>2. job.regionCursor = 0 /\ (ReloadUnnoticed \/ Exact(Visited(job), job))
    BY <1>3 DEF Scanning, Tainted
  <2>3. SnapshotOf(job).active
    BY DEF SnapshotOf
  <2>4. QED
    BY <1>1, <2>1, <2>2, <2>3, FreshSnapshot
<1>4. QED
  BY <1>2, <1>3

----------------------------------------------------------------------------
(* A batch. *)

LEMMA LeastNatural ==
    ASSUME NEW S \in SUBSET Nat, S # {}
    PROVE  \E m \in S : \A n \in S : m <= n
<1>1. PICK m \in S : \A n \in S : <<n, m>> \notin OpToRel(<, Nat)
  BY NatLessThanWellFounded, WFMin
<1>2. \A n \in S : ~(n < m)
  BY <1>1 DEF OpToRel
<1>3. QED
  BY <1>2

\* f follows the scan for n blocks, as after does in Batch.
Follows(f, n) ==
    f = [i \in 0 .. n |-> IF i = 0 THEN {job} ELSE {ScanBlock(j) : j \in f[i - 1]}]

LEMMA ScanFollowed ==
    ASSUME NEW n \in Nat
    PROVE  \E f : Follows(f, n)
<1>1. SUFFICES ASSUME ~ \E f : Follows(f, n) PROVE FALSE
  OBVIOUS
<1>2. PICK m \in 0 .. n : /\ ~ \E f : Follows(f, m)
                         /\ \A k \in 0 .. n : (~ \E f : Follows(f, k)) => m <= k
  <2> DEFINE S == {k \in 0 .. n : ~ \E f : Follows(f, k)}
  <2>1. n \in 0 .. n
    OBVIOUS
  <2>2. S \in SUBSET Nat /\ n \in S
    BY <1>1, <2>1
  <2> HIDE DEF S
  <2>3. PICK k \in S : \A l \in S : k <= l
    BY <2>2, LeastNatural
  <2>4. QED
    BY <2>3 DEF S
<1>3. Follows([i \in 0 .. 0 |-> {job}], 0)
  BY DEF Follows
<1>4. m # 0
  BY <1>2, <1>3
<1>5. m - 1 \in 0 .. n /\ ~(m <= m - 1)
  BY <1>2, <1>4
<1>6. PICK f : Follows(f, m - 1)
  BY <1>2, <1>5
<1>7. PICK h : h = [i \in 0 .. m |-> IF i = m THEN {ScanBlock(j) : j \in f[m - 1]} ELSE f[i]]
  OBVIOUS
<1>8. \A i \in 0 .. m : h[i] = IF i = 0 THEN {job} ELSE {ScanBlock(j) : j \in h[i - 1]}
  <2>1. ASSUME NEW i \in 0 .. m
        PROVE  h[i] = IF i = 0 THEN {job} ELSE {ScanBlock(j) : j \in h[i - 1]}
    <3>1. CASE i = m
      <4>1. h[m - 1] = f[m - 1] /\ h[m] = {ScanBlock(j) : j \in f[m - 1]}
        BY <1>4, <1>5, <1>7
      <4>2. QED
        BY <1>4, <3>1, <4>1
    <3>2. CASE i # m
      <4>1. i \in 0 .. (m - 1) /\ h[i] = f[i]
        BY <1>5, <1>7, <3>2
      <4>2. f[i] = IF i = 0 THEN {job} ELSE {ScanBlock(j) : j \in f[i - 1]}
        BY <1>6, <4>1 DEF Follows
      <4>3. CASE i = 0
        BY <4>1, <4>2, <4>3
      <4>4. CASE i # 0
        <5>1. h[i - 1] = f[i - 1]
          BY <1>5, <1>7, <4>1, <4>4
        <5>2. QED
          BY <4>1, <4>2, <4>4, <5>1
      <4>5. QED
        BY <4>3, <4>4
    <3>3. QED
      BY <3>1, <3>2
  <2>2. QED
    BY <2>1
<1>9. Follows(h, m)
  BY <1>7, <1>8 DEF Follows
<1>10. QED
  BY <1>2, <1>9

LEMMA BatchFollows ==
    ASSUME NEW n \in Nat
    PROVE  \E f : Follows(f, n) /\ Batch(n) = f[n]
BY ScanFollowed DEF Follows, Batch

\* What holds of a job i blocks into a batch.
Good(j, i) ==
    /\ Accounted(j) /\ j.region = job.region /\ j.retries = job.retries
    /\ j.regionCursor = job.regionCursor + i
    /\ Preserved(j, Snapshot)
    /\ resident /\ Exact(Visited(job), job) => Exact(Visited(j), j)

LEMMA GoodNext ==
    ASSUME Booleans, NEW j, NEW i \in Nat, Good(j, i), job \in Jobs,
           job.region \in Regions, job.regionCursor + i < Volume(job.region)
    PROVE  Good(ScanBlock(j), i + 1)
<1>1. PICK b : b = ScanBlock(j)
  OBVIOUS
<1>2. /\ Accounted(j) /\ Unfinished(j) /\ j \in Jobs
      /\ Preserved(j, Snapshot)
  BY DEF Good, Unfinished, Accounted
<1>3. Accounted(b)
  BY <1>1, <1>2, ScanBlockAccounted
<1>4. Preserved(b, Snapshot)
  BY <1>1, <1>2, ScanBlockPreserves
<1>5. b.region = j.region /\ b.retries = j.retries /\ b.regionCursor = j.regionCursor + 1
  BY <1>1, <1>2, ScanBlockIs
<1>6. job.regionCursor \in Nat
  BY JobParts
<1>7. b.regionCursor = job.regionCursor + (i + 1)
  BY <1>5, <1>6 DEF Good
<1>8. ASSUME resident, Exact(Visited(job), job)
      PROVE  Exact(Visited(b), b)
  <2>1. Exact(Visited(j), j)
    BY <1>8 DEF Good
  <2>2. QED
    BY <1>1, <1>2, <1>8, <2>1, ScanBlockExact
<1>9. Good(b, i + 1)
  BY <1>3, <1>4, <1>5, <1>7, <1>8 DEF Good
<1>10. QED
  BY <1>1, <1>9

LEMMA BatchGood ==
    ASSUME Booleans, TypeOK, Accounted(job), Scanning, NEW n \in Batches, NEW j \in Batch(n)
    PROVE  Good(j, n)
<1>1. /\ n \in Nat /\ n >= 1 /\ job \in Jobs /\ job.region \in Regions
      /\ job.regionCursor \in Nat /\ Volume(job.region) \in Nat
      /\ job.regionCursor + n <= Volume(job.region)
  <2>1. job \in Jobs /\ job.region \in Regions
    BY DEF Scanning, TypeOK
  <2>2. job.regionCursor \in Nat /\ Volume(job.region) \in Nat
    BY <2>1, JobParts, PositionsFinite
  <2>3. QED
    BY <2>1, <2>2 DEF Batches
<1>2. PICK f : Follows(f, n) /\ Batch(n) = f[n]
  BY <1>1, BatchFollows
<1>3. SUFFICES ASSUME ~ \A q \in f[n] : Good(q, n) PROVE FALSE
  BY <1>2
<1>4. PICK m \in 0 .. n : /\ ~ \A q \in f[m] : Good(q, m)
                         /\ \A k \in 0 .. n : (~ \A q \in f[k] : Good(q, k)) => m <= k
  <2> DEFINE S == {k \in 0 .. n : ~ \A q \in f[k] : Good(q, k)}
  <2>1. n \in 0 .. n
    BY <1>1
  <2>2. S \in SUBSET Nat /\ n \in S
    BY <1>3, <2>1
  <2> HIDE DEF S
  <2>3. PICK k \in S : \A l \in S : k <= l
    BY <2>2, LeastNatural
  <2>4. QED
    BY <2>3 DEF S
<1>5. m # 0
  <2>1. SUFFICES ASSUME m = 0 PROVE FALSE
    OBVIOUS
  <2>2. f[0] = {job}
    BY <1>1, <1>2 DEF Follows
  <2>3. Good(job, 0)
    BY <1>1, SnapshotPreserved DEF Good
  <2>4. QED
    BY <1>4, <2>1, <2>2, <2>3
<1>6. m - 1 \in 0 .. n /\ m \in 0 .. n /\ ~(m <= m - 1) /\ m - 1 \in Nat
  BY <1>1, <1>4, <1>5
<1>7. \A q \in f[m - 1] : Good(q, m - 1)
  BY <1>4, <1>6
<1>8. f[m] = {ScanBlock(q) : q \in f[m - 1]}
  BY <1>2, <1>5, <1>6 DEF Follows
<1>9. ASSUME NEW q \in f[m - 1]
      PROVE  Good(ScanBlock(q), m)
  <2>1. PICK i : i = m - 1
    OBVIOUS
  <2>2. i \in Nat /\ Good(q, i) /\ job.regionCursor + i < Volume(job.region) /\ i + 1 = m
    BY <1>1, <1>6, <1>7, <1>9, <2>1
  <2>3. Good(ScanBlock(q), i + 1)
    BY <1>1, <2>2, GoodNext
  <2>4. QED
    BY <2>2, <2>3
<1>10. QED
  BY <1>4, <1>8, <1>9

----------------------------------------------------------------------------
(* The gate. *)

LEMMA GateParts ==
    ASSUME NEW g \in Gates
    PROVE  /\ g.held \in BOOLEAN /\ g.waited \in Unset .. (LoadTimeout + 1)
           /\ g.ready \in Unset .. StabilizeTicks /\ g.verified \in Unset .. VerifyEvery
           /\ Unset \in Int /\ LoadTimeout \in Nat /\ StabilizeTicks \in Nat /\ VerifyEvery \in Nat
           /\ g = [held |-> g.held, waited |-> g.waited, ready |-> g.ready,
                   verified |-> g.verified]
BY GateAssumption DEF Gates, Unset

LEMMA IsGate ==
    ASSUME NEW held \in BOOLEAN, NEW waited \in Unset .. (LoadTimeout + 1),
           NEW ready \in Unset .. StabilizeTicks, NEW verified \in Unset .. VerifyEvery
    PROVE  [held |-> held, waited |-> waited, ready |-> ready, verified |-> verified] \in Gates
BY DEF Gates

LEMMA ReleasedIsGate == Released \in Gates
BY GateAssumption DEF Released, Gates, Unset

LEMMA OlderIs ==
    ASSUME NEW cap \in Nat, NEW age \in Unset .. cap
    PROVE  Older(age, cap) \in Unset .. cap /\ (age # Unset => Older(age, cap) # Unset)
BY DEF Older, Unset

LEMMA AgedIs ==
    ASSUME NEW g \in Gates
    PROVE  /\ Aged(g) \in Gates /\ Aged(g).held = g.held
           /\ g.verified # Unset => Aged(g).verified # Unset
<1>1. /\ g.held \in BOOLEAN /\ g.waited \in Unset .. (LoadTimeout + 1)
      /\ g.ready \in Unset .. StabilizeTicks /\ g.verified \in Unset .. VerifyEvery
      /\ LoadTimeout \in Nat /\ StabilizeTicks \in Nat /\ VerifyEvery \in Nat /\ Unset = -1
  BY GateParts DEF Unset
<1>2. PICK waited, ready, verified : /\ waited = Older(g.waited, LoadTimeout + 1)
                                     /\ ready = Older(g.ready, StabilizeTicks)
                                     /\ verified = Older(g.verified, VerifyEvery)
  OBVIOUS
<1>3. /\ waited \in Unset .. (LoadTimeout + 1) /\ ready \in Unset .. StabilizeTicks
      /\ verified \in Unset .. VerifyEvery
      /\ g.verified # Unset => verified # Unset
  <2>1. LoadTimeout + 1 \in Nat
    BY <1>1
  <2>2. waited \in Unset .. (LoadTimeout + 1)
    BY <1>1, <1>2, <2>1, OlderIs
  <2>3. ready \in Unset .. StabilizeTicks
    BY <1>1, <1>2, OlderIs
  <2>4. verified \in Unset .. VerifyEvery /\ (g.verified # Unset => verified # Unset)
    BY <1>1, <1>2, OlderIs
  <2>5. QED
    BY <2>2, <2>3, <2>4
<1>4. Aged(g) = [held |-> g.held, waited |-> waited, ready |-> ready, verified |-> verified]
  <2>1. Aged(g) = [g EXCEPT !.waited = waited, !.ready = ready, !.verified = verified]
    BY <1>2 DEF Aged
  <2>2. g = [held |-> g.held, waited |-> g.waited, ready |-> g.ready, verified |-> g.verified]
    BY GateParts
  <2>3. QED
    BY <2>1, <2>2
<1>5. QED
  BY <1>1, <1>3, <1>4, IsGate

LEMMA CheckedIs ==
    ASSUME NEW g \in Gates, NEW a, NEW r \in BOOLEAN, NEW complete
    PROVE  LET c == Checked(a, g, r, complete)
           IN /\ c \in Gates /\ c.held = g.held
              /\ Cached(a, g, complete) => c = g
<1>1. /\ g.held \in BOOLEAN /\ g.waited \in Unset .. (LoadTimeout + 1)
      /\ g.ready \in Unset .. StabilizeTicks /\ g.verified \in Unset .. VerifyEvery
  BY GateParts
<1>2. 0 \in Unset .. VerifyEvery /\ Unset \in Unset .. VerifyEvery
  BY GateAssumption DEF Unset
<1>3. PICK verified : verified = IF r THEN 0 ELSE Unset
  OBVIOUS
<1>4. PICK c : c = Checked(a, g, r, complete)
  OBVIOUS
<1>5. CASE a # "legacy" \/ ~g.held \/ Cached(a, g, complete)
  BY <1>4, <1>5 DEF Checked
<1>6. CASE ~(a # "legacy" \/ ~g.held \/ Cached(a, g, complete))
  <2>1. c = [held |-> g.held, waited |-> g.waited, ready |-> g.ready, verified |-> verified]
    BY <1>3, <1>4, <1>6, GateParts DEF Checked
  <2>2. c \in Gates
    BY <1>1, <1>2, <1>3, <2>1, IsGate
  <2>3. QED
    BY <1>4, <1>6, <2>1, <2>2
<1>7. QED
  BY <1>5, <1>6

LEMMA ObservedIs ==
    ASSUME NEW g \in Gates, NEW a, NEW r \in BOOLEAN, NEW complete
    PROVE  LET e == Observed(a, g, r, complete)
           IN /\ e.gate \in Gates /\ e.gate.held = g.held
              /\ Cached(a, g, complete) => e.gate.verified = g.verified
              /\ e.verdict \in {"go", "wait"} => ChunkState(a, g, r, complete)
<1>1. PICK c : c = Checked(a, g, r, complete)
  OBVIOUS
<1>2. c \in Gates /\ c.held = g.held /\ (Cached(a, g, complete) => c.verified = g.verified)
  BY <1>1, CheckedIs
<1>3. /\ c.held \in BOOLEAN /\ c.waited \in Unset .. (LoadTimeout + 1)
      /\ c.ready \in Unset .. StabilizeTicks /\ c.verified \in Unset .. VerifyEvery
      /\ c = [held |-> c.held, waited |-> c.waited, ready |-> c.ready, verified |-> c.verified]
  BY <1>2, GateParts
<1>4. /\ 0 \in Unset .. (LoadTimeout + 1) /\ 0 \in Unset .. StabilizeTicks
      /\ Unset \in Unset .. StabilizeTicks
  BY GateAssumption DEF Unset
<1>5. PICK e : e = Observed(a, g, r, complete)
  OBVIOUS
<1>6. PICK waited, ready :
        /\ waited \in Unset .. (LoadTimeout + 1) /\ ready \in Unset .. StabilizeTicks
        /\ e.gate = [held |-> c.held, waited |-> waited, ready |-> ready, verified |-> c.verified]
        /\ e.verdict \in {"go", "wait"} => ChunkState(a, g, r, complete)
  <2>1. CASE ~ChunkState(a, g, r, complete)
    <3>1. CASE c.waited = Unset
      <4>1. e = Ensured("lost", [c EXCEPT !.ready = Unset, !.waited = 0])
        BY <1>1, <1>5, <2>1, <3>1 DEF Observed
      <4>2. e.gate = [held |-> c.held, waited |-> 0, ready |-> Unset, verified |-> c.verified]
        BY <1>3, <4>1 DEF Ensured
      <4>3. e.verdict = "lost"
        BY <4>1 DEF Ensured
      <4>4. QED
        BY <1>4, <4>2, <4>3
    <3>2. CASE c.waited # Unset
      <4>1. e = Ensured(IF c.waited > LoadTimeout THEN "late" ELSE "lost",
                        [c EXCEPT !.ready = Unset])
        BY <1>1, <1>5, <2>1, <3>2 DEF Observed
      <4>2. e.gate = [held |-> c.held, waited |-> c.waited, ready |-> Unset,
                      verified |-> c.verified]
        BY <1>3, <4>1 DEF Ensured
      <4>3. e.verdict = "late" \/ e.verdict = "lost"
        BY <4>1 DEF Ensured
      <4>4. QED
        BY <1>3, <1>4, <4>2, <4>3
    <3>3. QED
      BY <3>1, <3>2
  <2>2. CASE ChunkState(a, g, r, complete)
    <3>1. CASE c.ready = Unset
      <4>1. e = Ensured(IF StabilizeTicks = 0 THEN "go" ELSE "wait",
                        [c EXCEPT !.waited = 0, !.ready = 0])
        BY <1>1, <1>5, <2>2, <3>1 DEF Observed
      <4>2. e.gate = [held |-> c.held, waited |-> 0, ready |-> 0, verified |-> c.verified]
        BY <1>3, <4>1 DEF Ensured
      <4>3. QED
        BY <1>4, <2>2, <4>2
    <3>2. CASE c.ready # Unset
      <4>1. e = Ensured(IF c.ready < StabilizeTicks THEN "wait" ELSE "go",
                        [c EXCEPT !.waited = 0])
        BY <1>1, <1>5, <2>2, <3>2 DEF Observed
      <4>2. e.gate = [held |-> c.held, waited |-> 0, ready |-> c.ready, verified |-> c.verified]
        BY <1>3, <4>1 DEF Ensured
      <4>3. QED
        BY <1>3, <1>4, <2>2, <4>2
    <3>3. QED
      BY <3>1, <3>2
  <2>3. QED
    BY <2>1, <2>2
<1>7. e.gate \in Gates
  BY <1>3, <1>6, IsGate
<1>8. QED
  BY <1>2, <1>5, <1>6, <1>7

LEMMA OutcomeIs ==
    ASSUME gate \in Gates, resident \in BOOLEAN, NEW e \in Outcomes
    PROVE  /\ e.gate \in Gates
           /\ Relied /\ ~resident /\ e.verdict \in {"go", "wait"} =>
                e.gate.held /\ e.gate.verified # Unset
<1> DEFINE complete == RegionComplete(job)
<1>1. CASE gate.held
  <2>1. e = Observed(api, gate, resident, complete)
    BY <1>1 DEF Outcomes, Ensure
  <2>2. /\ e.gate \in Gates /\ e.gate.held = gate.held
        /\ Cached(api, gate, complete) => e.gate.verified = gate.verified
        /\ e.verdict \in {"go", "wait"} => ChunkState(api, gate, resident, complete)
    BY <2>1, ObservedIs
  <2>3. QED
    BY <1>1, <2>2 DEF Relied, ChunkState
<1>2. CASE ~gate.held /\ api = "observed"
  <2>1. PICK g : g = [gate EXCEPT !.held = TRUE, !.waited = 0]
    OBVIOUS
  <2>2. e = Observed(api, g, resident, complete)
    BY <1>2, <2>1 DEF Outcomes, Ensure
  <2>3. g \in Gates
    <3>1. g = [held |-> TRUE, waited |-> 0, ready |-> gate.ready, verified |-> gate.verified]
      <4>1. gate = [held |-> gate.held, waited |-> gate.waited, ready |-> gate.ready,
                    verified |-> gate.verified]
        BY GateParts
      <4>2. QED
        BY <2>1, <4>1
    <3>2. /\ 0 \in Unset .. (LoadTimeout + 1) /\ gate.ready \in Unset .. StabilizeTicks
          /\ gate.verified \in Unset .. VerifyEvery
      BY GateParts DEF Unset
    <3>3. QED
      BY <3>1, <3>2, IsGate
  <2>4. e.gate \in Gates
    BY <2>2, <2>3, ObservedIs
  <2>5. QED
    BY <1>2, <2>4 DEF Relied
<1>3. CASE ~gate.held /\ api # "observed"
  <2>1. e \in Requested(api, resident)
    BY <1>3 DEF Outcomes, Ensure
  <2>2. \/ e.gate = Released
        \/ e.gate = [held |-> TRUE, waited |-> 0, ready |-> StabilizeTicks, verified |-> Unset]
        \/ e.gate = [held |-> TRUE, waited |-> 0, ready |-> Unset, verified |-> Unset]
    <3>1. \/ e = Ensured("wait", Released)
          \/ e = Ensured("go", [held |-> TRUE, waited |-> 0, ready |-> StabilizeTicks,
                                verified |-> Unset])
          \/ e = Ensured("wait", [held |-> TRUE, waited |-> 0, ready |-> Unset,
                                  verified |-> Unset])
      BY <2>1 DEF Requested
    <3>2. \A v, g : Ensured(v, g).gate = g
      BY DEF Ensured
    <3>3. QED
      BY <3>1, <3>2
  <2>3. /\ 0 \in Unset .. (LoadTimeout + 1) /\ StabilizeTicks \in Unset .. StabilizeTicks
        /\ Unset \in Unset .. StabilizeTicks /\ Unset \in Unset .. VerifyEvery
    BY GateAssumption DEF Unset
  <2>4. e.gate \in Gates
    BY <2>2, <2>3, ReleasedIsGate, IsGate
  <2>5. QED
    BY <1>3, <2>4 DEF Relied
<1>4. QED
  BY <1>1, <1>2, <1>3

----------------------------------------------------------------------------
(* The invariant. *)

\* What holds of a job and a snapshot holds of them as the next state's.
LEMMA Carried ==
    ASSUME includeAir' = includeAir, NEW j, job' = j, NEW s, snap' = s
    PROVE  /\ Accounted(j) => Accounted(job)'
           /\ Exact(Visited(j), j) => Exact(Visited(job), job)'
           /\ Exact(Positions, j) => Exact(Positions, job)'
           /\ Preserved(j, s) => Preserved(job, snap)'
           /\ KeysCaptured(j, s) => KeysCaptured(job, snap)'
           /\ Cardinality(WorldEntities(Positions)) = Cardinality(WorldEntities(Positions))'
<1>1. Accounted(j) => Accounted(job)'
  BY DEF Accounted, WorldEntities, Kept, Visited
<1>2. Exact(Visited(j), j) => Exact(Visited(job), job)'
  BY DEF Exact, Kept, Visited
<1>3. Exact(Positions, j) => Exact(Positions, job)'
  BY DEF Exact, Kept
<1>4. Exact(Scanned(j.region, 0), Undone(j, s)) => Exact(Scanned(job.region, 0), Undone(job, snap))'
  BY DEF Exact, Kept
<1>5. Preserved(j, s) => Preserved(job, snap)'
  BY <1>4 DEF Preserved
<1>6. KeysCaptured(j, s) => KeysCaptured(job, snap)'
  BY DEF KeysCaptured
<1>7. Cardinality(WorldEntities(Positions)) = Cardinality(WorldEntities(Positions))'
  BY DEF WorldEntities, Kept
<1>8. QED
  BY <1>1, <1>2, <1>3, <1>5, <1>6, <1>7

LEMMA Reached ==
    ASSUME api \in Apis, includeAir \in BOOLEAN, limit \in EntityLimits, UNCHANGED settings,
           NEW j, job' = j, Accounted(j),
           NEW s \in Snapshots, snap' = s,
           gate' \in Gates, resident' \in BOOLEAN, served' \in BOOLEAN,
           phase' \in {"scanning", "scanned", "failed", "tooLarge"},
           phase' = "scanning" =>
             /\ j.region \in Regions /\ j.retries <= MaxRetries
             /\ IF s.active THEN Preserved(j, s) /\ KeysCaptured(j, s) ELSE j.regionCursor = 0
             /\ ReloadUnnoticed \/ Tainted' \/ Exact(Visited(j), j),
           phase' = "scanned" => ReloadUnnoticed \/ Exact(Positions, j),
           phase' = "tooLarge" => Cardinality(WorldEntities(Positions)) > limit
    PROVE  IInv'
<1>1. includeAir' = includeAir /\ api' = api /\ limit' = limit
  BY DEF settings
<1>2. /\ Accounted(job)'
      /\ Exact(Visited(j), j) => Exact(Visited(job), job)'
      /\ Exact(Positions, j) => Exact(Positions, job)'
      /\ Preserved(j, s) => Preserved(job, snap)'
      /\ KeysCaptured(j, s) => KeysCaptured(job, snap)'
      /\ Cardinality(WorldEntities(Positions)) = Cardinality(WorldEntities(Positions))'
  BY <1>1, Carried
<1>3. j \in Jobs
  BY DEF Accounted
<1>4. TypeOK'
  BY <1>1, <1>3 DEF TypeOK
<1>5. phase' = "scanning" => Scanning'
  BY <1>2 DEF Scanning
<1>6. phase' = "scanned" => (ReloadUnnoticed \/ Exact(Positions, job)')
  BY <1>2
<1>7. phase' = "tooLarge" => Cardinality(WorldEntities(Positions))' > limit'
  BY <1>1, <1>2
<1>8. QED
  BY <1>2, <1>4, <1>5, <1>6, <1>7 DEF IInv

\* A region is discarded.
LEMMA Discarded ==
    ASSUME TypeOK, UNCHANGED settings,
           NEW j, Accounted(j), j.region \in Regions, j.retries <= MaxRetries,
           NEW s \in Snapshots, Preserved(j, s), KeysCaptured(j, s),
           job' = Rollback(j, s), snap' = [s EXCEPT !.active = FALSE, !.keys = {}],
           phase' = PhaseAfterRetry(job'),
           gate' \in Gates, resident' \in BOOLEAN, served' \in BOOLEAN
    PROVE  IInv'
<1>1. PICK r : r = Rollback(j, s)
  OBVIOUS
<1>2. /\ Accounted(r)
      /\ r.region = j.region /\ r.regionCursor = 0
      /\ ReloadUnnoticed \/ Exact(Scanned(j.region, 0), r)
  BY <1>1, RollbackIs
<1>3. PICK t : t = [s EXCEPT !.active = FALSE, !.keys = {}]
  OBVIOUS
<1>4. t \in Snapshots /\ ~t.active
  BY <1>3 DEF Snapshots
<1>5. Visited(r) = Scanned(j.region, 0)
  BY <1>2 DEF Visited
<1>6. /\ phase' \in {"scanning", "failed"}
      /\ phase' = "scanning" => r.retries <= MaxRetries
  <2>1. r.retries \in Nat /\ MaxRetries \in Nat
    BY <1>2, JobParts, ScanAssumption DEF Accounted
  <2>2. phase' = IF r.retries > MaxRetries THEN "failed" ELSE "scanning"
    BY <1>1 DEF PhaseAfterRetry
  <2>3. QED
    BY <2>1, <2>2
<1>7. api \in Apis /\ includeAir \in BOOLEAN /\ limit \in EntityLimits
  BY DEF TypeOK
<1>8. job' = r /\ snap' = t
  BY <1>1, <1>3
<1>9. QED
  BY <1>2, <1>4, <1>5, <1>6, <1>7, <1>8, Reached

----------------------------------------------------------------------------
(* The steps. *)

LEMMA Stays ==
    ASSUME IInv, UNCHANGED <<settings, phase, job, snap>>,
           gate' \in Gates, resident' \in BOOLEAN, served' \in BOOLEAN,
           phase = "scanning" /\ Tainted => ReloadUnnoticed \/ Tainted'
    PROVE  IInv'
<1>1. /\ api \in Apis /\ includeAir \in BOOLEAN /\ limit \in EntityLimits
      /\ snap \in Snapshots /\ Accounted(job)
      /\ phase \in {"scanning", "scanned", "failed", "tooLarge"}
      /\ UNCHANGED settings
  BY DEF IInv, TypeOK
<1>2. phase' = "scanning" =>
        /\ job.region \in Regions /\ job.retries <= MaxRetries
        /\ IF snap.active THEN Preserved(job, snap) /\ KeysCaptured(job, snap)
                          ELSE job.regionCursor = 0
        /\ ReloadUnnoticed \/ Tainted' \/ Exact(Visited(job), job)
  BY DEF IInv, Scanning
<1>3. /\ phase' = "scanned" => ReloadUnnoticed \/ Exact(Positions, job)
      /\ phase' = "tooLarge" => Cardinality(WorldEntities(Positions)) > limit
  BY DEF IInv
<1>4. PICK j, s, p : j = job /\ s = snap /\ p = phase
  OBVIOUS
<1>5. job' = j /\ snap' = s
  BY <1>4
<1>6. phase' \in {"scanning", "scanned", "failed", "tooLarge"}
  BY <1>1
<1>7. QED
  BY <1>1, <1>2, <1>3, <1>4, <1>5, <1>6, Reached

LEMMA Stops ==
    ASSUME IInv, UNCHANGED <<settings, job, snap>>,
           \/ phase' = "failed"
           \/ phase' = "tooLarge" /\ Cardinality(WorldEntities(Positions)) > limit,
           gate' = Released, resident' \in BOOLEAN, served' \in BOOLEAN
    PROVE  IInv'
<1>1. /\ api \in Apis /\ includeAir \in BOOLEAN /\ limit \in EntityLimits
      /\ snap \in Snapshots /\ Accounted(job) /\ UNCHANGED settings
  BY DEF IInv, TypeOK
<1>2. gate' \in Gates
  BY ReleasedIsGate
<1>3. PICK j, s : j = job /\ s = snap
  OBVIOUS
<1>4. /\ job' = j /\ snap' = s
      /\ phase' \in {"scanning", "scanned", "failed", "tooLarge"}
      /\ phase' # "scanning" /\ phase' # "scanned"
  BY <1>3
<1>5. QED
  BY <1>1, <1>2, <1>3, <1>4, Reached

\* What a batch makes of the job, with the snapshot and its keys.
LEMMA ScannedBatch ==
    ASSUME IInv, phase = "scanning", NEW n \in Batches, NEW j \in Batch(n),
           NEW s, s = WithKeys(Snapshot, j)
    PROVE  /\ Accounted(j) /\ j.region = job.region /\ j.retries = job.retries
           /\ j.region \in Regions /\ j.retries <= MaxRetries
           /\ s \in Snapshots /\ s.active /\ Preserved(j, s) /\ KeysCaptured(j, s)
           /\ resident => ReloadUnnoticed \/ Exact(Visited(j), j)
<1>1. Booleans /\ TypeOK /\ Accounted(job) /\ Scanning
  BY DEF IInv, TypeOK, Booleans
<1>2. Good(j, n)
  BY <1>1, BatchGood
<1>3. /\ Accounted(j) /\ j.region = job.region /\ j.retries = job.retries
      /\ j.region \in Regions /\ j.retries <= MaxRetries /\ Preserved(j, Snapshot)
  BY <1>1, <1>2 DEF Good, Scanning
<1>4. Snapshot \in Snapshots /\ Snapshot.active /\ KeysCaptured(job, Snapshot)
  BY <1>1, SnapshotPreserved
<1>5. PICK f, keys : f = Snapshot /\ keys = f.keys \cup {p \in j.entities : p[1] = j.region}
  OBVIOUS
<1>6. s = [f EXCEPT !.keys = keys]
  BY <1>5 DEF WithKeys
<1>7. keys \subseteq {p \in Positions : p[1] = j.region}
  <2>1. j.entities \subseteq Positions
    BY <1>3, JobParts DEF Accounted
  <2>2. f.keys \subseteq {p \in Positions : p[1] = j.region}
    BY <1>3, <1>4, <1>5 DEF KeysCaptured
  <2>3. QED
    BY <1>5, <2>1, <2>2
<1>8. s \in Snapshots /\ s.active /\ s.keys = keys
  BY <1>4, <1>5, <1>6, <1>7 DEF Snapshots
<1>9. /\ s.records = f.records /\ s.palette = f.palette /\ s.nonAir = f.nonAir
      /\ s.bytes = f.bytes /\ s.cursor = f.cursor
  BY <1>4, <1>5, <1>6 DEF Snapshots
<1>10. Preserved(j, s)
  <2>1. ReloadUnnoticed \/ Exact(Scanned(j.region, 0), Undone(j, s))
    BY <1>3, <1>5, <1>9 DEF Preserved, Undone
  <2>2. QED
    BY <1>3, <1>5, <1>9, <2>1 DEF Preserved
<1>11. KeysCaptured(j, s)
  BY <1>5, <1>7, <1>8 DEF KeysCaptured
<1>12. ASSUME resident PROVE ReloadUnnoticed \/ Exact(Visited(j), j)
  BY <1>1, <1>2, <1>12 DEF Good, Scanning, Tainted
<1>13. QED
  BY <1>3, <1>8, <1>10, <1>11, <1>12

LEMMA TooLarge ==
    ASSUME IInv, phase = "scanning", NEW n \in Batches, EntitiesTooLarge(n),
           UNCHANGED <<settings, resident>>, served' \in BOOLEAN
    PROVE  IInv'
<1>1. PICK j \in Batch(n) : j.bytes > limit
  BY DEF EntitiesTooLarge
<1>2. Accounted(j)
  BY <1>1, ScannedBatch
<1>3. /\ j.entities \subseteq WorldEntities(Visited(j)) /\ j.bytes = Cardinality(j.entities)
      /\ j.bytes \in Nat
  BY <1>2, JobParts DEF Accounted
<1>4. j.entities \subseteq WorldEntities(Positions) /\ WorldEntities(Positions) \subseteq Positions
  BY <1>3 DEF WorldEntities, Visited, Scanned
<1>5. /\ Cardinality(j.entities) <= Cardinality(WorldEntities(Positions))
      /\ Cardinality(WorldEntities(Positions)) \in Nat
  <2>1. IsFiniteSet(WorldEntities(Positions))
    BY <1>4, PositionsFinite, FS_Subset
  <2>2. QED
    BY <1>4, <2>1, FS_Subset, FS_CardinalityType
<1>6. limit \in Nat
  BY ScanAssumption DEF IInv, TypeOK
<1>7. Cardinality(WorldEntities(Positions)) > limit
  BY <1>1, <1>3, <1>5, <1>6
<1>8. /\ phase' = "tooLarge" /\ gate' = Released /\ UNCHANGED <<job, snap>>
      /\ resident' \in BOOLEAN
  BY DEF EntitiesTooLarge, Fail, IInv, TypeOK
<1>9. QED
  BY <1>7, <1>8, Stops

LEMMA RegionLost ==
    ASSUME IInv, phase = "scanning", LoseRegion, UNCHANGED <<settings, resident>>,
           served' \in BOOLEAN
    PROVE  IInv'
<1>1. TypeOK /\ Accounted(job) /\ Scanning
  BY DEF IInv
<1>2. PICK e \in Outcomes : /\ snap.active
                            /\ job' = Rollback(job, snap)
                            /\ phase' = PhaseAfterRetry(job')
                            /\ snap' = [snap EXCEPT !.active = FALSE, !.keys = {}]
                            /\ gate' = IF phase' = "failed" THEN Released ELSE e.gate
  BY DEF LoseRegion
<1>3. gate' \in Gates /\ resident' \in BOOLEAN
  BY <1>1, <1>2, OutcomeIs, ReleasedIsGate DEF TypeOK
<1>4. PICK j, s : j = job /\ s = snap
  OBVIOUS
<1>5. /\ Accounted(j) /\ j.region \in Regions /\ j.retries <= MaxRetries
      /\ s \in Snapshots /\ Preserved(j, s) /\ KeysCaptured(j, s)
      /\ job' = Rollback(j, s) /\ snap' = [s EXCEPT !.active = FALSE, !.keys = {}]
  BY <1>1, <1>2, <1>4 DEF Scanning, TypeOK
<1>6. QED
  BY <1>1, <1>2, <1>3, <1>5, Discarded

LEMMA AdvancedIs ==
    ASSUME Booleans, NEW j, Accounted(j), j.region \in Regions, RegionComplete(j)
    PROVE  LET a == Advanced(j)
           IN /\ Accounted(a) /\ a.regionCursor = 0 /\ a.retries <= MaxRetries
              /\ Exact(Visited(j), j) => Exact(Visited(a), a)
              /\ a.cursor < TotalVolume => a.region \in Regions
              /\ ~(a.cursor < TotalVolume) => Valid(a) /\ Visited(a) = Positions
<1>1. PICK a : a = Advanced(j)
  OBVIOUS
<1>2. /\ j \in Jobs /\ j.verified = j.region - 1 /\ j.cursor = Cardinality(Visited(j))
      /\ j.nonAir <= j.cursor /\ j.records.length <= j.cursor /\ Len(j.palette) <= j.cursor
      /\ includeAir => j.records.length = j.cursor
      /\ AtEnd(j.records)
      /\ \A k \in DOMAIN Content(j.records) :
           Content(j.records)[k] \in Records /\ Content(j.records)[k][2] <= Len(j.palette)
      /\ j.entities \subseteq WorldEntities(Visited(j))
      /\ j.bytes = Cardinality(j.entities)
      /\ j.regionCursor <= Volume(j.region)
  BY DEF Accounted
<1>3. /\ j.regionCursor \in Nat /\ j.cursor \in Nat /\ j.nonAir \in Nat /\ j.bytes \in Nat
      /\ j.records.length \in Nat /\ j.palette \in Seq(Keys) /\ j.records \in Buffers(Units)
      /\ j.entities \in SUBSET Positions /\ Volume(j.region) \in Nat /\ j.region \in Nat
      /\ j = [region |-> j.region, regionCursor |-> j.regionCursor, cursor |-> j.cursor,
              nonAir |-> j.nonAir, palette |-> j.palette, records |-> j.records,
              entities |-> j.entities, bytes |-> j.bytes, verified |-> j.verified,
              retries |-> j.retries]
  BY <1>2, JobParts, PositionsFinite
<1>4. j.regionCursor = Volume(j.region)
  BY <1>2, <1>3 DEF RegionComplete
<1>5. a = [region |-> j.region + 1, regionCursor |-> 0, cursor |-> j.cursor,
           nonAir |-> j.nonAir, palette |-> j.palette, records |-> j.records,
           entities |-> j.entities, bytes |-> j.bytes, verified |-> j.verified + 1,
           retries |-> 0]
  <2>1. PICK verified, region, zero : verified = j.verified + 1 /\ region = j.region + 1 /\ zero = 0
    OBVIOUS
  <2>2. a = [j EXCEPT !.verified = verified, !.retries = zero, !.region = region,
                      !.regionCursor = zero]
    BY <1>1, <2>1 DEF Advanced
  <2>3. a = [region |-> region, regionCursor |-> zero, cursor |-> j.cursor,
             nonAir |-> j.nonAir, palette |-> j.palette, records |-> j.records,
             entities |-> j.entities, bytes |-> j.bytes, verified |-> verified,
             retries |-> zero]
    BY <1>3, <2>2, JobExcept
  <2>4. QED
    BY <2>1, <2>3
<1>6. /\ a.region = j.region + 1 /\ a.regionCursor = 0 /\ a.cursor = j.cursor
      /\ a.nonAir = j.nonAir /\ a.palette = j.palette /\ a.records = j.records
      /\ a.entities = j.entities /\ a.bytes = j.bytes /\ a.verified = j.verified + 1
      /\ a.retries = 0
  BY <1>5
<1>7. Visited(a) = Visited(j)
  BY <1>4, <1>6, ScannedRegion DEF Visited
<1>8. /\ Len(Selection) \in Nat /\ TotalVolume \in Nat /\ MaxRetries \in Nat
      /\ j.cursor <= TotalVolume
  <2>1. Cardinality(Visited(j)) <= TotalVolume
    BY ScannedFinite DEF Visited
  <2>2. QED
    BY <1>2, <2>1, PositionsFinite, ScanAssumption
<1>9. a \in Jobs
  <2>1. /\ j.region + 1 \in 1 .. (Len(Selection) + 1) /\ j.verified + 1 \in 0 .. Len(Selection)
        /\ j.cursor \in 0 .. TotalVolume /\ j.nonAir \in 0 .. TotalVolume
        /\ 0 \in 0 .. (MaxRetries + 1) /\ 0 \in Nat
    BY <1>2, <1>3, <1>8 DEF Regions
  <2>2. QED
    BY <1>3, <1>5, <2>1, IsJob
<1>10. a.region \in Regions => 0 <= Volume(a.region)
  BY PositionsFinite
<1>11. a.verified = a.region - 1
  BY <1>2, <1>3, <1>6
<1>12. Accounted(a)
  BY <1>2, <1>6, <1>7, <1>9, <1>10, <1>11 DEF Accounted
<1>13. Exact(Visited(j), j) => Exact(Visited(a), a)
  BY <1>6, <1>7, ExactSame
<1>14. a.region \in Regions \/ a.region = Len(Selection) + 1
  BY <1>3, <1>6, <1>8 DEF Regions
<1>15. ASSUME a.region = Len(Selection) + 1
       PROVE  Visited(a) = Positions /\ a.cursor = TotalVolume /\ Valid(a)
  <2>1. Visited(a) = Positions
    BY <1>6, <1>15, ScannedEnds DEF Visited
  <2>2. a.cursor = TotalVolume
    BY <1>2, <1>6, <1>7, <2>1 DEF TotalVolume
  <2>3. a.verified = Len(Selection)
    BY <1>8, <1>11, <1>15
  <2>4. QED
    BY <1>2, <1>6, <2>1, <2>2, <2>3 DEF Valid
<1>16. ASSUME a.region \in Regions
       PROVE  a.cursor < TotalVolume
  BY <1>2, <1>6, <1>7, <1>16, ScannedEnds DEF Visited
<1>17. a.retries <= MaxRetries
  BY <1>6, <1>8
<1>18. QED
  BY <1>1, <1>6, <1>8, <1>12, <1>13, <1>14, <1>15, <1>16, <1>17

LEMMA BatchScanned ==
    ASSUME IInv, phase = "scanning", NEW n \in Batches, ScanBatch(n),
           UNCHANGED settings, served' \in BOOLEAN
    PROVE  IInv'
<1>1. /\ TypeOK /\ Accounted(job) /\ Scanning /\ Booleans
      /\ api \in Apis /\ includeAir \in BOOLEAN /\ limit \in EntityLimits
      /\ gate \in Gates /\ resident \in BOOLEAN
  BY DEF IInv, TypeOK, Booleans
<1>2. PICK e \in Outcomes, j \in Batch(n) :
        LET s == WithKeys(Snapshot, j)
            complete == RegionComplete(j)
        IN /\ e.verdict = "go"
           /\ \/ /\ ~ChunkState(api, e.gate, resident, complete)
                 /\ job' = Rollback(j, s)
                 /\ phase' = PhaseAfterRetry(job')
                 /\ snap' = [s EXCEPT !.active = FALSE, !.keys = {}]
                 /\ gate' = Released
                 /\ UNCHANGED resident
              \/ /\ ChunkState(api, e.gate, resident, complete)
                 /\ ~complete
                 /\ job' = j
                 /\ snap' = s
                 /\ gate' = Checked(api, e.gate, resident, complete)
                 /\ UNCHANGED <<phase, resident>>
              \/ /\ ChunkState(api, e.gate, resident, complete)
                 /\ complete
                 /\ job' = Advanced(j)
                 /\ snap' = [s EXCEPT !.active = FALSE]
                 /\ gate' = Released
                 /\ phase' = IF job'.cursor < TotalVolume THEN "scanning"
                             ELSE IF Valid(job') THEN "scanned" ELSE "invalid"
                 /\ resident' \in BOOLEAN
  BY DEF ScanBatch
<1>3. PICK s : s = WithKeys(Snapshot, j)
  OBVIOUS
<1>4. PICK complete : complete = RegionComplete(j)
  OBVIOUS
<1>5. /\ Accounted(j) /\ j.region \in Regions /\ j.retries <= MaxRetries
      /\ s \in Snapshots /\ s.active /\ Preserved(j, s) /\ KeysCaptured(j, s)
      /\ resident => ReloadUnnoticed \/ Exact(Visited(j), j)
  BY <1>3, ScannedBatch
<1>6. /\ e.gate \in Gates
      /\ Relied /\ ~resident => e.gate.held /\ e.gate.verified # Unset
  BY <1>1, <1>2, OutcomeIs
<1>7. CASE /\ ~ChunkState(api, e.gate, resident, complete)
           /\ job' = Rollback(j, s)
           /\ phase' = PhaseAfterRetry(job')
           /\ snap' = [s EXCEPT !.active = FALSE, !.keys = {}]
           /\ gate' = Released
           /\ UNCHANGED resident
  BY <1>1, <1>5, <1>7, ReleasedIsGate, Discarded
<1>8. CASE /\ ChunkState(api, e.gate, resident, complete)
           /\ ~complete
           /\ job' = j
           /\ snap' = s
           /\ gate' = Checked(api, e.gate, resident, complete)
           /\ UNCHANGED <<phase, resident>>
  <2>1. gate' \in Gates /\ gate'.held = e.gate.held
    BY <1>1, <1>6, <1>8, CheckedIs
  <2>2. ASSUME ~resident PROVE Tainted'
    <3>1. Cached(api, e.gate, complete)
      BY <1>8, <2>2 DEF ChunkState
    <3>2. gate' = e.gate
      BY <1>1, <1>6, <1>8, <3>1, CheckedIs
    <3>3. api = "legacy" /\ e.gate.held /\ e.gate.verified # Unset
      BY <3>1, GateAssumption DEF Cached, Unset
    <3>4. api' = api /\ resident' = resident /\ snap'.active
      BY <1>5, <1>8 DEF settings
    <3>5. QED
      BY <2>2, <3>2, <3>3, <3>4 DEF Tainted, Relied
  <2>3. ReloadUnnoticed \/ Tainted' \/ Exact(Visited(j), j)
    BY <1>5, <2>2
  <2>4. phase' = "scanning" /\ resident' \in BOOLEAN
    BY <1>1, <1>8
  <2>5. QED
    BY <1>1, <1>5, <1>8, <2>1, <2>3, <2>4, Reached
<1>9. CASE /\ ChunkState(api, e.gate, resident, complete)
           /\ complete
           /\ job' = Advanced(j)
           /\ snap' = [s EXCEPT !.active = FALSE]
           /\ gate' = Released
           /\ phase' = IF job'.cursor < TotalVolume THEN "scanning"
                       ELSE IF Valid(job') THEN "scanned" ELSE "invalid"
           /\ resident' \in BOOLEAN
  <2>1. resident
    BY <1>9 DEF ChunkState, Cached
  <2>2. PICK a : a = Advanced(j)
    OBVIOUS
  <2>3. /\ Accounted(a) /\ a.regionCursor = 0 /\ a.retries <= MaxRetries
        /\ Exact(Visited(j), j) => Exact(Visited(a), a)
        /\ a.cursor < TotalVolume => a.region \in Regions
        /\ ~(a.cursor < TotalVolume) => Valid(a) /\ Visited(a) = Positions
    BY <1>1, <1>4, <1>5, <1>9, <2>2, AdvancedIs
  <2>4. ReloadUnnoticed \/ Exact(Visited(a), a)
    BY <1>5, <2>1, <2>3
  <2>5. PICK t : t = [s EXCEPT !.active = FALSE]
    OBVIOUS
  <2>6. t \in Snapshots /\ ~t.active
    BY <1>5, <2>5 DEF Snapshots
  <2>7. job' = a /\ snap' = t
    BY <1>9, <2>2, <2>5
  <2>8. /\ a.cursor < TotalVolume => phase' = "scanning"
        /\ ~(a.cursor < TotalVolume) => phase' = "scanned"
    <3>1. Valid(a) => Valid(job')
      BY <2>7
    <3>2. QED
      BY <1>9, <2>3, <2>7, <3>1
  <2>9. phase' = "scanned" => ReloadUnnoticed \/ Exact(Positions, a)
    BY <2>3, <2>4, <2>8
  <2>10. QED
    BY <1>1, <1>9, <2>3, <2>4, <2>6, <2>7, <2>8, <2>9, ReleasedIsGate, Reached
<1>10. QED
  BY <1>2, <1>3, <1>4, <1>7, <1>8, <1>9

LEMMA Waits ==
    ASSUME IInv, phase = "scanning", HoldDenied \/ WaitForChunk,
           UNCHANGED <<settings, resident>>, served' \in BOOLEAN
    PROVE  IInv'
<1>1. gate \in Gates /\ resident \in BOOLEAN
  BY DEF IInv, TypeOK
<1>2. CASE HoldDenied
  BY <1>1, <1>2, Stays DEF HoldDenied, Tainted, Relied
<1>3. CASE WaitForChunk
  <2>1. PICK e \in Outcomes :
          /\ e.verdict = "wait" \/ (e.verdict = "lost" /\ ~snap.active /\ api # "observed")
          /\ gate' = e.gate
    BY <1>3 DEF WaitForChunk
  <2>2. UNCHANGED <<phase, job, snap, api>>
    BY <1>3 DEF WaitForChunk, settings
  <2>3. /\ gate' \in Gates
        /\ Relied /\ ~resident /\ e.verdict = "wait" => gate'.held /\ gate'.verified # Unset
    BY <1>1, <2>1, OutcomeIs
  <2>4. Tainted => Tainted'
    BY <2>1, <2>2, <2>3 DEF Tainted, Relied
  <2>5. resident' \in BOOLEAN
    BY <1>1
  <2>6. QED
    BY <2>2, <2>3, <2>4, <2>5, Stays
<1>4. QED
  BY <1>2, <1>3

LEMMA VisitPreserves ==
    ASSUME IInv, Visit
    PROVE  IInv'
<1>1. phase = "scanning" /\ UNCHANGED settings /\ served' \in BOOLEAN /\ resident \in BOOLEAN
  BY DEF Visit, IInv, TypeOK
<1>2. CASE (HoldDenied \/ WaitForChunk) /\ UNCHANGED resident
  BY <1>1, <1>2, Waits
<1>3. CASE (HoldRefused \/ ChunkMissing) /\ UNCHANGED resident
  <2>1. phase' = "failed" /\ gate' = Released /\ UNCHANGED <<job, snap>>
    BY <1>3 DEF HoldRefused, ChunkMissing, Fail
  <2>2. QED
    BY <1>1, <1>3, <2>1, Stops
<1>4. CASE LoseRegion /\ UNCHANGED resident
  BY <1>1, <1>4, RegionLost
<1>5. CASE \E n \in Batches : ScanBatch(n)
  BY <1>1, <1>5, BatchScanned
<1>6. CASE \E n \in Batches : EntitiesTooLarge(n) /\ UNCHANGED resident
  BY <1>1, <1>6, TooLarge
<1>7. QED
  BY <1>2, <1>3, <1>4, <1>5, <1>6 DEF Visit

\* A chunk that was lost behind a trusted answer stays lost, unless reloads go unnoticed.
LEMMA TickPreserves ==
    ASSUME IInv, WorldTick
    PROVE  IInv'
<1>1. gate \in Gates
  BY DEF IInv, TypeOK
<1>2. gate' \in Gates /\ gate'.held = gate.held
      /\ (gate.verified # Unset => gate'.verified # Unset)
  BY <1>1, AgedIs DEF WorldTick
<1>3. /\ UNCHANGED <<settings, phase, job, snap, api>>
      /\ resident' \in BOOLEAN /\ served' \in BOOLEAN
      /\ Relied /\ ~resident /\ ~ReloadUnnoticed => ~resident'
  BY DEF WorldTick, settings
<1>4. ReloadUnnoticed \in BOOLEAN
  BY ScanAssumption
<1>5. Tainted => ReloadUnnoticed \/ Tainted'
  BY <1>2, <1>3, <1>4 DEF Tainted, Relied
<1>6. QED
  BY <1>2, <1>3, <1>5, Stays

LEMMA StepPreserves ==
    ASSUME IInv, [Next]_vars
    PROVE  IInv'
<1>1. CASE Visit
  BY <1>1, VisitPreserves
<1>2. CASE Abandon
  BY <1>2, Stops DEF Abandon, Fail, IInv, TypeOK
<1>3. CASE WorldTick
  BY <1>3, TickPreserves
<1>4. CASE UNCHANGED vars
  <2>1. /\ UNCHANGED <<settings, phase, job, snap, gate, resident, served, api>>
        /\ gate \in Gates /\ resident \in BOOLEAN /\ served \in BOOLEAN
    BY <1>4 DEF vars, settings, IInv, TypeOK
  <2>2. Tainted => Tainted'
    BY <2>1 DEF Tainted, Relied
  <2>3. QED
    BY <2>1, <2>2, Stays
<1>5. QED
  BY <1>1, <1>2, <1>3, <1>4 DEF Next, Done

LEMMA InitEstablishes ==
    ASSUME Init
    PROVE  IInv
<1>1. /\ Len(Selection) \in Nat /\ Len(Selection) > 0 /\ TotalVolume \in Nat
      /\ MaxRetries \in Nat /\ IsFiniteSet(Positions)
  BY PositionsFinite, ScanAssumption
<1>2. NewBuffer \in Buffers(Units) /\ AtEnd(NewBuffer) /\ Content(NewBuffer) = <<>>
      /\ NewBuffer.length = 0
  BY DEF NewBuffer, Buffers, AtEnd, Content
<1>3. PICK records, palette : records = NewBuffer /\ palette = <<>>
  OBVIOUS
<1>4. job = [region |-> 1, regionCursor |-> 0, cursor |-> 0, nonAir |-> 0, palette |-> palette,
             records |-> records, entities |-> {}, bytes |-> 0, verified |-> 0, retries |-> 0]
  BY <1>3 DEF Init
<1>5. job \in Jobs
  <2>1. /\ 1 \in 1 .. (Len(Selection) + 1) /\ 0 \in Nat /\ 0 \in 0 .. TotalVolume
        /\ palette \in Seq(Keys) /\ {} \in SUBSET Positions
        /\ 0 \in 0 .. Len(Selection) /\ 0 \in 0 .. (MaxRetries + 1)
    BY <1>1, <1>3
  <2>2. records \in Buffers(Units)
    BY <1>2, <1>3
  <2>3. QED
    BY <1>4, <2>1, <2>2, IsJob
<1>6. Visited(job) = {} /\ Cardinality({}) = 0 /\ 1 \in Regions
  BY <1>1, <1>4, ScannedEnds, FS_EmptySet DEF Visited, Regions
<1>7. Accounted(job)
  <2>1. /\ job.region = 1 /\ job.regionCursor = 0 /\ job.cursor = 0 /\ job.nonAir = 0
        /\ job.palette = <<>> /\ job.records = NewBuffer /\ job.entities = {} /\ job.bytes = 0
        /\ job.verified = 0
    BY <1>3, <1>4
  <2>2. DOMAIN Content(job.records) = {}
    BY <1>2, <2>1
  <2>3. 0 <= Volume(1) /\ Len(job.palette) = 0
    BY <1>6, <2>1, PositionsFinite
  <2>4. QED
    BY <1>2, <1>5, <1>6, <2>1, <2>2, <2>3 DEF Accounted
<1>8. Exact(Visited(job), job)
  <2>1. /\ Content(job.records) = <<>> /\ job.entities = {} /\ job.nonAir = 0
    BY <1>2, <1>3, <1>4
  <2>2. ExactContent({}, job, <<>>)
    <3>1. /\ {p \in {} : Kept(Block(p))} = {}
          /\ {p \in {} : Kept(Block(p)) /\ Block(p).entity} = {}
          /\ {p \in {} : Block(p).key # Air} = {}
      OBVIOUS
    <3>2. \A k \in DOMAIN <<>> : FALSE
      OBVIOUS
    <3>3. QED
      BY <1>6, <2>1, <3>1, <3>2 DEF ExactContent
  <2>3. QED
    BY <1>6, <2>1, <2>2, ExactIs
<1>9. snap \in Snapshots /\ ~snap.active
  <2>1. 0 \in 0 .. TotalVolume
    BY <1>1
  <2>2. snap = [active |-> FALSE, records |-> 0, palette |-> 0, nonAir |-> 0,
                bytes |-> 0, cursor |-> 0, keys |-> {}]
    BY DEF Init, NoSnapshot
  <2>3. QED
    BY <2>1, <2>2 DEF Snapshots
<1>10. TypeOK
  BY <1>5, <1>9, ReleasedIsGate DEF Init, TypeOK
<1>11. Scanning
  <2>1. job.region = 1 /\ job.retries = 0 /\ job.regionCursor = 0
    BY <1>4
  <2>2. QED
    BY <1>1, <1>6, <1>8, <1>9, <2>1 DEF Scanning
<1>12. phase = "scanning"
  BY DEF Init
<1>13. QED
  BY <1>7, <1>10, <1>11, <1>12 DEF IInv

----------------------------------------------------------------------------
(* The theorems. *)

LEMMA InvariantHolds == Spec => []IInv
<1>1. Init => IInv
  BY InitEstablishes
<1>2. IInv /\ [Next]_vars => IInv'
  BY StepPreserves
<1>3. QED
  BY <1>1, <1>2, PTL DEF Spec

\* The counts of a save, its buffer, its palette and its snapshot stay within the selection
\* for any limits and timeouts, in memory and spilled: a rollback (_rollback_save_region)
\* never truncates beyond what is there, and a region is retried a bounded number of times.
THEOREM SaveScanTypeCorrect == Spec => []TypeOK
<1>1. IInv => TypeOK
  BY DEF IInv
<1>2. QED
  BY <1>1, InvariantHolds, PTL

\* A job that a batch, a loss or a retry has been through is never found inconsistent by
\* _validate_save_integrity, and what it hands on is exactly the selected blocks of the
\* world, as long as a chunk the plugin relies on does not come back unnoticed.
THEOREM ScanAlwaysExact ==
    ASSUME ~ReloadUnnoticed
    PROVE  Spec => []ScanExact
<1>1. IInv => ScanExact
  <2>1. SUFFICES ASSUME IInv PROVE ScanExact
    OBVIOUS
  <2>2. phase # "invalid" /\ (phase = "scanned" => Exact(Positions, job))
    BY <2>1 DEF IInv
  <2>3. Len(Freeze(job.records).content) = job.records.length
    <3>1. job \in Jobs
      BY <2>1 DEF IInv, TypeOK
    <3>2. QED
      BY <3>1, JobParts, FreezeIs
  <2>4. QED
    BY <2>2, <2>3 DEF ScanExact
<1>2. QED
  BY <1>1, InvariantHolds, PTL

\* Discarding the current region, at any moment of the scan, leaves the regions verified
\* before it exactly as they were read; entities are counted once, and a save that fails
\* as too large is too large.
THEOREM VerifiedRegionsAlwaysKept ==
    ASSUME ~ReloadUnnoticed
    PROVE  Spec => []VerifiedRegionsKept
<1>1. IInv => VerifiedRegionsKept
  <2>1. SUFFICES ASSUME IInv PROVE VerifiedRegionsKept
    OBVIOUS
  <2>2. TypeOK /\ Accounted(job)
    BY <2>1 DEF IInv
  <2>3. ASSUME phase = "scanning"
        PROVE  Exact(Scanned(job.region, 0), Rollback(job, Snapshot))
    <3>1. Scanning /\ job.region \in Regions /\ job.retries <= MaxRetries
      BY <2>1, <2>3 DEF IInv, Scanning
    <3>2. Preserved(job, Snapshot) /\ KeysCaptured(job, Snapshot)
      BY <2>2, <3>1, SnapshotPreserved
    <3>3. PICK j, s : j = job /\ s = Snapshot
      OBVIOUS
    <3>4. ReloadUnnoticed \/ Exact(Scanned(j.region, 0), Rollback(j, s))
      BY <2>2, <3>1, <3>2, <3>3, RollbackIs
    <3>5. QED
      BY <3>3, <3>4
  <2>4. job.bytes = Cardinality(job.entities)
    BY <2>2 DEF Accounted
  <2>5. phase = "tooLarge" =>
          Cardinality({p \in Positions : Kept(Block(p)) /\ Block(p).entity}) > limit
    BY <2>1 DEF IInv, WorldEntities
  <2>6. QED
    BY <2>3, <2>4, <2>5 DEF VerifiedRegionsKept
<1>2. QED
  BY <1>1, InvariantHolds, PTL
=============================================================================
