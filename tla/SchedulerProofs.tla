--------------------------- MODULE SchedulerProofs ---------------------------
(***************************************************************************)
(* Proofs about Scheduler for any number of players, every budget, however *)
(* long the ticks take, and whatever the jobs use of their shares.          *)
(***************************************************************************)
EXTENDS Scheduler, SequenceTheorems, TLAPS

\* The players a tick has still to visit have a job: only the job being visited ends.
UnvisitedActive == \A i \in (index + 1) .. Len(keys) : keys[i] \in Active

\* As much is left of both budgets as an equal part for each job still to come.
EqualPartsLeft ==
    Ticking =>
      /\ remaining >= JobsLeft * (Budget \div Len(keys))
      /\ changes >= JobsLeft * (limit \div Len(keys))

IInv == TypeOK /\ UnvisitedActive /\ EqualPartsLeft

----------------------------------------------------------------------------
(* Numbers. *)

LEMMA DivBounds ==
    ASSUME NEW r \in Nat, NEW j \in Nat, j > 0
    PROVE  /\ r \div j \in Nat
           /\ j * (r \div j) <= r
           /\ r < j * (r \div j) + j
<1>1. r \div j \in Nat
  BY SMT
<1>2. j * (r \div j) <= r
  BY <1>1, SMT
<1>3. r < j * (r \div j) + j
  BY <1>1, SMT
<1>4. QED
  BY <1>1, <1>2, <1>3

LEMMA TimesMonotonic ==
    ASSUME NEW j \in Nat, NEW a \in Nat, NEW b \in Nat, a <= b
    PROVE  j * a <= j * b
BY SMT

\* If at least j equal parts q are left, a j-th of what is left is no less than q.
LEMMA QuotientCoversPart ==
    ASSUME NEW r \in Nat, NEW j \in Nat, j > 0, NEW q \in Nat, r >= j * q
    PROVE  r \div j >= q
<1>1. SUFFICES ASSUME r \div j < q
               PROVE  FALSE
  BY DivBounds
<1>2. r \div j \in Nat /\ r < j * (r \div j) + j
  BY DivBounds
<1>3. j * ((r \div j) + 1) <= j * q
  BY <1>1, <1>2, TimesMonotonic
<1>4. j * ((r \div j) + 1) = j * (r \div j) + j
  BY <1>2, SMT
<1>5. QED
  BY <1>2, <1>3, <1>4, SMT

\* A share taken from what is left leaves the parts of the others, and more than nothing
\* is there to take while something is left.
LEMMA ShareLeavesParts ==
    ASSUME NEW r \in Nat, r > 0, NEW j \in Nat, j > 0, NEW q \in Nat, r >= j * q,
           NEW share \in Nat, share = 1 \/ share = r \div j, share >= r \div j,
           NEW n \in 0 .. share
    PROVE  /\ share >= q
           /\ r - n \in Nat
           /\ r - n >= (j - 1) * q
<1>1. r \div j \in Nat /\ j * (r \div j) <= r
  BY DivBounds
<1>2. r \div j >= q
  BY QuotientCoversPart
<1>3. CASE share = r \div j
  <2>1. (j - 1) * q <= (j - 1) * (r \div j)
    BY <1>1, <1>2, TimesMonotonic
  <2>2. (j - 1) * (r \div j) = j * (r \div j) - (r \div j)
    BY <1>1, SMT
  <2>3. (j - 1) * q \in Nat
    BY SMT
  <2>4. QED
    BY <1>1, <1>2, <1>3, <2>1, <2>2, <2>3, SMT
<1>4. CASE share = 1 /\ r \div j = 0
  <2>1. q = 0
    BY <1>2, <1>4
  <2>2. (j - 1) * q = 0
    BY <2>1, SMT
  <2>3. QED
    BY <1>4, <2>1, <2>2, SMT
<1>5. CASE share = 1 /\ r \div j = 1
  BY <1>3, <1>5
<1>6. QED
  BY <1>1, <1>3, <1>4, <1>5, SMT

\* What Share is, without the maximum of a set.
LEMMA ShareValue ==
    ASSUME NEW r \in Nat, JobsLeft \in Nat, JobsLeft > 0
    PROVE  /\ Share(r) \in Nat \ {0}
           /\ Share(r) = 1 \/ Share(r) = r \div JobsLeft
           /\ Share(r) >= r \div JobsLeft
<1>1. r \div JobsLeft \in Nat
  BY DivBounds
<1>2. \E x \in {1, r \div JobsLeft} : \A y \in {1, r \div JobsLeft} : x >= y
  BY <1>1
<1>3. /\ Max({1, r \div JobsLeft}) \in {1, r \div JobsLeft}
      /\ \A y \in {1, r \div JobsLeft} : Max({1, r \div JobsLeft}) >= y
  BY <1>2 DEF Max
<1>4. QED
  BY <1>1, <1>3 DEF Share

LEMMA MinOfTwo ==
    ASSUME NEW a \in Nat, NEW b \in Nat
    PROVE  /\ Min({a, b}) \in Nat /\ Min({a, b}) <= a /\ Min({a, b}) <= b
           /\ Min({a, b}) = a \/ Min({a, b}) = b
<1>1. \E x \in {a, b} : \A y \in {a, b} : x =< y
  OBVIOUS
<1>2. QED
  BY <1>1 DEF Min

LEMMA MaxOfTwo ==
    ASSUME NEW a \in Nat, NEW b \in Nat
    PROVE  /\ Max({a, b}) \in Nat /\ Max({a, b}) >= a /\ Max({a, b}) >= b
           /\ Max({a, b}) = a \/ Max({a, b}) = b
<1>1. \E x \in {a, b} : \A y \in {a, b} : x >= y
  OBVIOUS
<1>2. QED
  BY <1>1 DEF Max

----------------------------------------------------------------------------
(* The pacer. *)

\* The limit never leaves its bounds, and one block may change in any tick.
LEMMA PacerBounds ==
    /\ Ceiling \in Nat /\ Least \in Nat /\ FirstLimit \in Nat
    /\ 0 < Least /\ Least <= FirstLimit /\ FirstLimit <= Ceiling /\ Ceiling <= ChangeBudget
<1>1. /\ Budget \in Nat /\ ChangeBudget \in Nat /\ Floor \in Nat /\ StartLimit \in Nat
      /\ Budget > 0 /\ ChangeBudget > 0 /\ Floor > 0 /\ StartLimit > 0
      /\ Floor <= StartLimit
  BY PacingAssumption
<1>2. Ceiling \in Nat /\ Ceiling > 0 /\ Ceiling <= ChangeBudget
  BY <1>1, MinOfTwo DEF Ceiling
<1>3. Least \in Nat /\ Least > 0 /\ Least <= Floor /\ Least <= Ceiling
  BY <1>1, <1>2, MinOfTwo DEF Least
<1>4. /\ FirstLimit \in Nat /\ FirstLimit <= Ceiling
      /\ FirstLimit = StartLimit \/ FirstLimit = Ceiling
  BY <1>1, <1>2, MinOfTwo DEF FirstLimit
<1>5. QED
  BY <1>1, <1>2, <1>3, <1>4

LEMMA NewPacerIsPacer == NewPacer \in Pacers
<1>1. 0 \in 0 .. (SteadyTicks - 1)
  BY PacingAssumption
<1>2. FirstLimit \in Least .. Ceiling
  BY PacerBounds
<1>3. QED
  BY <1>1, <1>2 DEF NewPacer, Pacers

\* A pacer with another limit between the bounds starts counting anew.
LEMMA OtherLimit ==
    ASSUME NEW p \in Pacers, NEW other \in Least .. Ceiling,
           NEW q, q = [p EXCEPT !.limit = other, !.steady = 0]
    PROVE  q \in Pacers
<1>1. 0 \in 0 .. (SteadyTicks - 1)
  BY PacingAssumption
<1>2. q = [limit |-> other, steady |-> 0, timed |-> p.timed]
  BY DEF Pacers
<1>3. QED
  BY <1>1, <1>2 DEF Pacers

LEMMA ObservedIsPacer ==
    ASSUME NEW p \in Pacers, NEW interval \in Intervals, NEW active \in BOOLEAN
    PROVE  Observed(p, interval, active) \in Pacers
<1>1. /\ p.limit \in Nat /\ Least <= p.limit /\ p.limit <= Ceiling
      /\ p.steady \in 0 .. (SteadyTicks - 1) /\ p.timed \in BOOLEAN
      /\ p = [limit |-> p.limit, steady |-> p.steady, timed |-> p.timed]
  BY PacerBounds DEF Pacers
<1>2. SteadyTicks \in Nat /\ SteadyTicks > 0 /\ Step \in Nat
  BY PacingAssumption
<1>3. Halved(p.limit) \in Least .. Ceiling
  <2>1. p.limit \div 2 \in Nat /\ p.limit \div 2 <= p.limit
    BY <1>1
  <2>2. QED
    BY <1>1, <2>1, PacerBounds, MaxOfTwo DEF Halved
<1>4. Raised(p.limit) \in Least .. Ceiling
  <2>1. p.limit \div 4 \in Nat
    BY <1>1
  <2>2. Max({Step, p.limit \div 4}) \in Nat
    BY <1>2, <2>1, MaxOfTwo
  <2>3. PICK more : more = p.limit + Max({Step, p.limit \div 4})
    OBVIOUS
  <2>4. more \in Nat /\ more >= Least
    BY <1>1, <2>2, <2>3, PacerBounds
  <2>5. /\ Min({Ceiling, more}) \in Nat /\ Min({Ceiling, more}) <= Ceiling
        /\ Min({Ceiling, more}) = Ceiling \/ Min({Ceiling, more}) = more
    BY <2>4, PacerBounds, MinOfTwo
  <2>6. QED
    BY <2>3, <2>4, <2>5, PacerBounds DEF Raised
<1>5. CASE ~active
  BY <1>2, <1>5, PacerBounds DEF Observed, Pacers
<1>6. CASE active /\ ~p.timed
  BY <1>1, <1>6 DEF Observed, Pacers
<1>7. CASE active /\ p.timed /\ interval = "long"
  <2>1. Observed(p, interval, active) = [p EXCEPT !.limit = Halved(p.limit), !.steady = 0]
    BY <1>7 DEF Observed
  <2>2. QED
    BY <1>2, <1>3, <2>1, OtherLimit
<1>8. CASE active /\ p.timed /\ interval = "usual"
  <2>1. Observed(p, interval, active) =
          IF p.steady + 1 < SteadyTicks
            THEN [p EXCEPT !.steady = p.steady + 1]
            ELSE [p EXCEPT !.limit = Raised(p.limit), !.steady = 0]
    BY <1>8 DEF Observed
  <2>2. CASE p.steady + 1 < SteadyTicks
    BY <1>1, <1>2, <2>1, <2>2 DEF Pacers
  <2>3. CASE ~(p.steady + 1 < SteadyTicks)
    BY <1>2, <1>4, <2>1, <2>3, OtherLimit
  <2>4. QED
    BY <2>2, <2>3
<1>9. CASE active /\ p.timed /\ interval = "other"
  BY <1>1, <1>2, <1>9 DEF Observed, Pacers
<1>10. QED
  BY <1>5, <1>6, <1>7, <1>8, <1>9 DEF Intervals

LEMMA PacedIsPacer ==
    ASSUME pacer \in Pacers \cup {None}, NEW active \in BOOLEAN
    PROVE  Paced(active) \subseteq Pacers \cup {None}
BY ObservedIsPacer DEF Paced

LEMMA LimitWithinBudget ==
    ASSUME NEW p \in Pacers \cup {None}
    PROVE  ChangeLimit(p) \in 1 .. ChangeBudget
<1>1. ChangeBudget \in Nat /\ ChangeBudget > 0
  BY PacingAssumption
<1>2. CASE p = None
  BY <1>1, <1>2 DEF ChangeLimit
<1>3. CASE p # None
  <2>1. p.limit \in Nat /\ p.limit > 0
    BY <1>3, PacerBounds DEF Pacers
  <2>2. QED
    BY <1>1, <1>3, <2>1, MinOfTwo DEF ChangeLimit
<1>4. QED
  BY <1>2, <1>3

----------------------------------------------------------------------------
(* Sequences of players. *)

\* Turning a sequence at one of its places keeps its members, each once.
LEMMA TurnedSequence ==
    ASSUME NEW S, NEW s \in Seq(S), IsInjective(s), NEW i \in 1 .. Len(s),
           NEW t, t = SubSeq(s, i, Len(s)) \o SubSeq(s, 1, i - 1)
    PROVE  /\ t \in Seq(S) /\ IsInjective(t)
           /\ Len(t) = Len(s)
           /\ \A j \in 1 .. Len(t) : t[j] \in ToSet(s)
<1>1. Len(s) \in Nat /\ DOMAIN s = 1 .. Len(s) /\ \A j \in 1 .. Len(s) : s[j] \in S
  OBVIOUS
<1>2. PICK u : u = SubSeq(s, i, Len(s))
  OBVIOUS
<1>3. PICK v : v = SubSeq(s, 1, i - 1)
  OBVIOUS
<1>4. /\ u \in Seq(S) /\ Len(u) = Len(s) - i + 1
      /\ \A j \in 1 .. Len(u) : u[j] = s[i + j - 1]
  BY <1>1, <1>2, SubSeqProperties
<1>5. /\ v \in Seq(S) /\ Len(v) = i - 1
      /\ \A j \in 1 .. Len(v) : v[j] = s[j]
  <2>1. \A j \in 1 .. (i - 1) : s[j] \in S
    BY <1>1
  <2>2. /\ v \in Seq(S) /\ Len(v) = IF 1 <= i - 1 THEN (i - 1) - 1 + 1 ELSE 0
        /\ \A j \in 1 .. (i - 1) - 1 + 1 : v[j] = s[1 + j - 1]
    BY <2>1, <1>1, <1>3, SubSeqProperties
  <2>3. QED
    BY <1>1, <2>2
<1>6. /\ t \in Seq(S) /\ Len(t) = Len(s)
      /\ \A j \in 1 .. Len(t) : t[j] = IF j <= Len(u) THEN u[j] ELSE v[j - Len(u)]
  <2>1. /\ t \in Seq(S) /\ Len(t) = Len(u) + Len(v)
        /\ \A j \in 1 .. Len(u) + Len(v) : t[j] = IF j <= Len(u) THEN u[j] ELSE v[j - Len(u)]
    BY <1>2, <1>3, <1>4, <1>5, ConcatProperties
  <2>2. Len(u) + Len(v) = Len(s)
    BY <1>1, <1>4, <1>5
  <2>3. QED
    BY <2>1, <2>2
<1> DEFINE From(j) == IF j <= Len(u) THEN i + j - 1 ELSE j - Len(u)
<1>7. \A j \in 1 .. Len(t) : From(j) \in 1 .. Len(s) /\ t[j] = s[From(j)]
  <2>1. SUFFICES ASSUME NEW j \in 1 .. Len(t)
                 PROVE  From(j) \in 1 .. Len(s) /\ t[j] = s[From(j)]
    OBVIOUS
  <2>2. CASE j <= Len(u)
    BY <1>1, <1>4, <1>6, <2>2
  <2>3. CASE j > Len(u)
    <3>1. j - Len(u) \in 1 .. Len(v)
      BY <1>1, <1>4, <1>5, <1>6, <2>3
    <3>2. QED
      BY <1>1, <1>4, <1>5, <1>6, <2>3, <3>1
  <2>4. QED
    BY <1>1, <1>4, <2>2, <2>3
<1>8. \A j, k \in 1 .. Len(t) : From(j) = From(k) => j = k
  BY <1>1, <1>4, <1>6
<1>9. IsInjective(t)
  <2>1. SUFFICES ASSUME NEW j \in 1 .. Len(t), NEW k \in 1 .. Len(t), t[j] = t[k]
                 PROVE  j = k
    <3>1. DOMAIN t = 1 .. Len(t)
      BY <1>6
    <3>2. QED
      BY <3>1 DEF IsInjective
  <2>2. s[From(j)] = s[From(k)] /\ From(j) \in 1 .. Len(s) /\ From(k) \in 1 .. Len(s)
    BY <1>7, <2>1
  <2>3. From(j) = From(k)
    BY <1>1, <2>2 DEF IsInjective
  <2>4. QED
    BY <1>8, <2>3
<1>10. QED
  BY <1>1, <1>6, <1>7, <1>9 DEF ToSet

\* Removing one place of a sequence without repetitions removes its member and no other.
LEMMA ShorterSequence ==
    ASSUME NEW S, NEW s \in Seq(S), IsInjective(s), NEW i \in 1 .. Len(s),
           NEW t, t = RemoveAt(s, i)
    PROVE  /\ t \in Seq(S) /\ IsInjective(t)
           /\ ToSet(t) = ToSet(s) \ {s[i]}
<1>1. Len(s) \in Nat /\ DOMAIN s = 1 .. Len(s) /\ \A j \in 1 .. Len(s) : s[j] \in S
  OBVIOUS
<1>2. PICK u : u = SubSeq(s, 1, i - 1)
  OBVIOUS
<1>3. PICK v : v = SubSeq(s, i + 1, Len(s))
  OBVIOUS
<1>4. /\ u \in Seq(S) /\ Len(u) = i - 1
      /\ \A j \in 1 .. Len(u) : u[j] = s[j]
  <2>1. \A j \in 1 .. (i - 1) : s[j] \in S
    BY <1>1
  <2>2. /\ u \in Seq(S) /\ Len(u) = IF 1 <= i - 1 THEN (i - 1) - 1 + 1 ELSE 0
        /\ \A j \in 1 .. (i - 1) - 1 + 1 : u[j] = s[1 + j - 1]
    BY <2>1, <1>1, <1>2, SubSeqProperties
  <2>3. QED
    BY <1>1, <2>2
<1>5. /\ v \in Seq(S) /\ Len(v) = Len(s) - i
      /\ \A j \in 1 .. Len(v) : v[j] = s[i + j]
  <2>1. \A j \in (i + 1) .. Len(s) : s[j] \in S
    BY <1>1
  <2>2. /\ v \in Seq(S) /\ Len(v) = IF i + 1 <= Len(s) THEN Len(s) - (i + 1) + 1 ELSE 0
        /\ \A j \in 1 .. Len(s) - (i + 1) + 1 : v[j] = s[(i + 1) + j - 1]
    BY <2>1, <1>1, <1>3, SubSeqProperties
  <2>3. Len(v) = Len(s) - i /\ Len(s) - (i + 1) + 1 = Len(s) - i
    <3>1. Len(v) = IF i + 1 <= Len(s) THEN Len(s) - (i + 1) + 1 ELSE 0
      BY <2>2
    <3>2. Len(s) \in Nat /\ i \in Nat /\ i <= Len(s)
      BY <1>1
    <3>3. CASE i + 1 <= Len(s)
      BY <3>1, <3>2, <3>3
    <3>4. CASE i = Len(s)
      BY <3>1, <3>2, <3>4
    <3>5. QED
      BY <3>2, <3>3, <3>4
  <2>4. \A j \in 1 .. Len(v) : (i + 1) + j - 1 = i + j
    BY <1>1, <2>3
  <2>5. QED
    BY <2>2, <2>3, <2>4
<1>6. /\ t \in Seq(S) /\ Len(t) = Len(s) - 1
      /\ \A j \in 1 .. Len(t) : t[j] = IF j <= Len(u) THEN u[j] ELSE v[j - Len(u)]
  <2>1. /\ t \in Seq(S) /\ Len(t) = Len(u) + Len(v)
        /\ \A j \in 1 .. Len(u) + Len(v) : t[j] = IF j <= Len(u) THEN u[j] ELSE v[j - Len(u)]
    <3>1. t = u \o v
      BY <1>2, <1>3 DEF RemoveAt
    <3>2. u \in Seq(S) /\ v \in Seq(S)
      BY <1>4, <1>5
    <3>3. /\ u \o v \in Seq(S) /\ Len(u \o v) = Len(u) + Len(v)
          /\ \A j \in 1 .. Len(u) + Len(v) :
               (u \o v)[j] = IF j <= Len(u) THEN u[j] ELSE v[j - Len(u)]
      BY <3>2, ConcatProperties
    <3>4. QED
      BY <3>1, <3>3
  <2>2. Len(u) + Len(v) = Len(s) - 1
    BY <1>1, <1>4, <1>5
  <2>3. QED
    BY <2>1, <2>2
<1> DEFINE From(j) == IF j < i THEN j ELSE j + 1
<1>7. \A j \in 1 .. Len(t) : From(j) \in 1 .. Len(s) \ {i} /\ t[j] = s[From(j)]
  <2>1. SUFFICES ASSUME NEW j \in 1 .. Len(t)
                 PROVE  From(j) \in 1 .. Len(s) \ {i} /\ t[j] = s[From(j)]
    OBVIOUS
  <2>2. CASE j < i
    <3>1. j \in 1 .. Len(u) /\ j \in 1 .. Len(s) /\ j # i /\ From(j) = j
      BY <1>1, <1>4, <1>6, <2>2
    <3>2. t[j] = u[j]
      BY <1>6, <3>1
    <3>3. u[j] = s[j]
      BY <1>4, <3>1
    <3>4. QED
      BY <3>1, <3>2, <3>3
  <2>3. CASE j >= i
    <3>1. j - Len(u) \in 1 .. Len(v)
      BY <1>1, <1>4, <1>5, <1>6, <2>3
    <3>2. QED
      BY <1>1, <1>4, <1>5, <1>6, <2>3, <3>1
  <2>4. QED
    BY <1>1, <2>2, <2>3
<1>8. \A k \in 1 .. Len(s) \ {i} : \E j \in 1 .. Len(t) : From(j) = k
  <2>1. SUFFICES ASSUME NEW k \in 1 .. Len(s), k # i
                 PROVE  \E j \in 1 .. Len(t) : From(j) = k
    OBVIOUS
  <2>2. CASE k < i
    BY <1>1, <1>6, <2>2
  <2>3. CASE k > i
    <3>1. k - 1 \in 1 .. Len(t) /\ From(k - 1) = k
      BY <1>1, <1>6, <2>3
    <3>2. QED
      BY <3>1
  <2>4. QED
    BY <1>1, <2>1, <2>2, <2>3
<1>9. \A j, k \in 1 .. Len(t) : From(j) = From(k) => j = k
  BY <1>1, <1>6
<1>10. IsInjective(t)
  <2>1. SUFFICES ASSUME NEW j \in 1 .. Len(t), NEW k \in 1 .. Len(t), t[j] = t[k]
                 PROVE  j = k
    <3>1. DOMAIN t = 1 .. Len(t)
      BY <1>6
    <3>2. QED
      BY <3>1 DEF IsInjective
  <2>2. s[From(j)] = s[From(k)] /\ From(j) \in 1 .. Len(s) /\ From(k) \in 1 .. Len(s)
    BY <1>7, <2>1
  <2>3. From(j) = From(k)
    BY <1>1, <2>2 DEF IsInjective
  <2>4. QED
    BY <1>9, <2>3
<1>11. ToSet(t) = ToSet(s) \ {s[i]}
  <2>1. DOMAIN t = 1 .. Len(t)
    BY <1>6
  <2>2. \A k \in 1 .. Len(s) : s[k] = s[i] <=> k = i
    BY <1>1 DEF IsInjective
  <2>3. ASSUME NEW j \in 1 .. Len(t)
        PROVE  t[j] \in ToSet(s) \ {s[i]}
    BY <1>1, <1>7, <2>2 DEF ToSet
  <2>4. ASSUME NEW k \in 1 .. Len(s), s[k] # s[i]
        PROVE  s[k] \in ToSet(t)
    <3>1. PICK j \in 1 .. Len(t) : From(j) = k
      BY <1>8, <2>4
    <3>2. QED
      BY <1>7, <2>1, <3>1 DEF ToSet
  <2>5. QED
    BY <1>1, <2>1, <2>3, <2>4 DEF ToSet
<1>12. QED
  BY <1>6, <1>10, <1>11

\* The place of a player who has a job.
LEMMA PlaceOfActive ==
    ASSUME TypeOK, NEW p \in Active
    PROVE  Place(p) \in 1 .. Len(order) /\ order[Place(p)] = p
<1>1. \E i \in DOMAIN order : order[i] = p
  BY DEF Active, ToSet
<1>2. QED
  BY <1>1 DEF Place, TypeOK

\* The tick's loop visits each player who has a job once.
LEMMA RotatedVisitsActive ==
    ASSUME TypeOK
    PROVE  /\ Rotated \in Seq(Players) /\ IsInjective(Rotated)
           /\ Len(Rotated) = Len(order)
           /\ \A j \in 1 .. Len(Rotated) : Rotated[j] \in Active
<1>1. CASE next \in Active
  <2>1. Place(next) \in 1 .. Len(order)
    BY <1>1, PlaceOfActive
  <2>2. Rotated = SubSeq(order, Place(next), Len(order)) \o SubSeq(order, 1, Place(next) - 1)
    BY <1>1 DEF Rotated
  <2>3. order \in Seq(Players) /\ IsInjective(order)
    BY DEF TypeOK
  <2>4. /\ Rotated \in Seq(Players) /\ IsInjective(Rotated)
        /\ Len(Rotated) = Len(order)
        /\ \A j \in 1 .. Len(Rotated) : Rotated[j] \in ToSet(order)
    BY <2>1, <2>2, <2>3, TurnedSequence
  <2>5. QED
    BY <2>4 DEF Active
<1>2. CASE next \notin Active
  <2>1. Rotated = order
    BY <1>2 DEF Rotated
  <2>2. QED
    BY <2>1 DEF TypeOK, Active, ToSet
<1>3. QED
  BY <1>1, <1>2

----------------------------------------------------------------------------
(* What a visit does to each part of the invariant. *)

LEMMA EndsRemovesJob ==
    ASSUME TypeOK, NEW p \in Active, Ends(p)
    PROVE  /\ order' \in Seq(Players) /\ IsInjective(order')
           /\ Active' = Active \ {p}
           /\ chunk' \in [Players -> {"none", "loading", "ready"}]
           /\ left' \in [Players -> 0 .. MaxRange]
           /\ \A q \in Players : left'[q] > 0 <=> q \in Active'
<1>1. Place(p) \in 1 .. Len(order) /\ order[Place(p)] = p
  BY PlaceOfActive
<1>2. order \in Seq(Players) /\ IsInjective(order)
  BY DEF TypeOK
<1>3. /\ order' \in Seq(Players) /\ IsInjective(order')
      /\ ToSet(order') = ToSet(order) \ {p}
  BY <1>1, <1>2, ShorterSequence DEF Ends
<1>4. 0 \in 0 .. MaxRange
  BY SchedulerAssumption
<1>5. /\ chunk' \in [Players -> {"none", "loading", "ready"}]
      /\ left' \in [Players -> 0 .. MaxRange]
      /\ \A q \in Players : left'[q] = IF q = p THEN 0 ELSE left[q]
  BY <1>4 DEF TypeOK, Ends
<1>6. QED
  BY <1>3, <1>5 DEF Active, TypeOK

LEMMA LeaveGoesOn ==
    ASSUME IInv, NEW p \in Players, Visiting(p), Leave
    PROVE  /\ p \in Active
           /\ JobsLeft \in Nat /\ JobsLeft > 0 /\ JobsLeft' = JobsLeft - 1
           /\ keys' = keys /\ limit' = limit /\ pacer' = pacer /\ Ticking
           /\ index' \in 0 .. Len(keys)
           /\ next' \in Players
           /\ \A i \in (index' + 1) .. Len(keys) : keys[i] \in Active \ {p}
<1>1. /\ keys \in Seq(Players) /\ IsInjective(keys) /\ index \in 0 .. Len(keys)
      /\ index < Len(keys) /\ p = keys[index + 1]
      /\ Len(keys) \in Nat /\ DOMAIN keys = 1 .. Len(keys)
  BY DEF IInv, TypeOK, Visiting
<1>2. index + 1 \in 1 .. Len(keys)
  BY <1>1
<1>3. /\ keys' = keys /\ limit' = limit /\ pacer' = pacer
      /\ index' = index + 1 /\ index' \in 0 .. Len(keys)
  BY <1>1 DEF Leave
<1>4. next' \in Players
  <2>1. ((index + 1) % Len(keys)) \in 0 .. (Len(keys) - 1)
    BY <1>1
  <2>2. ((index + 1) % Len(keys)) + 1 \in 1 .. Len(keys)
    BY <1>1, <2>1
  <2>3. QED
    BY <1>1, <2>2 DEF Leave
<1>5. \A i \in (index' + 1) .. Len(keys) : keys[i] \in Active \ {p}
  <2>1. SUFFICES ASSUME NEW i \in (index' + 1) .. Len(keys)
                 PROVE  keys[i] \in Active \ {p}
    OBVIOUS
  <2>2. i \in (index + 1) .. Len(keys) /\ i \in 1 .. Len(keys) /\ i # index + 1
    BY <1>1, <1>3
  <2>3. keys[i] \in Active
    BY <2>2 DEF IInv, UnvisitedActive
  <2>4. keys[i] # keys[index + 1]
    BY <1>1, <1>2, <2>2 DEF IsInjective
  <2>5. QED
    BY <1>1, <2>3, <2>4
<1>6. p \in Active
  BY <1>1, <1>2 DEF IInv, UnvisitedActive
<1>7. JobsLeft \in Nat /\ JobsLeft > 0 /\ JobsLeft' = JobsLeft - 1
  BY <1>1, <1>3 DEF JobsLeft
<1>8. Ticking
  BY <1>1 DEF Ticking
<1>9. QED
  BY <1>3, <1>4, <1>5, <1>6, <1>7, <1>8

\* The numbers a tick starts with, without those a visit changes.
LEMMA Numbers ==
    ASSUME IInv
    PROVE  /\ remaining \in Nat /\ remaining <= Budget /\ Budget \in Nat
           /\ changes \in Nat /\ changes <= limit /\ limit \in Nat
           /\ Ticking => /\ Len(keys) \in Nat /\ Len(keys) > 0
                         /\ Budget \div Len(keys) \in Nat
                         /\ limit \div Len(keys) \in Nat
<1>1. /\ remaining \in Nat /\ remaining <= Budget /\ Budget \in Nat
      /\ limit \in Nat
  BY PacingAssumption DEF IInv, TypeOK
<1>2. changes \in Nat /\ changes <= limit
  BY <1>1 DEF IInv, TypeOK
<1>3. ASSUME Ticking
      PROVE  Len(keys) \in Nat /\ Len(keys) > 0
  BY <1>3 DEF IInv, TypeOK, Ticking
<1>4. QED
  BY <1>1, <1>2, <1>3, DivBounds

\* A visit that uses no more than its shares leaves equal parts for the others.
LEMMA SpendLeavesParts ==
    ASSUME IInv, NEW p \in Players, Visiting(p), Leave,
           NEW n \in 0 .. Share(remaining), NEW c \in 0 .. Share(changes), Spend(n, c)
    PROVE  /\ remaining' \in 0 .. Budget
           /\ limit' \in 0 .. ChangeBudget /\ changes' \in 0 .. limit'
           /\ EqualPartsLeft'
<1>1. /\ JobsLeft \in Nat /\ JobsLeft > 0 /\ JobsLeft' = JobsLeft - 1
      /\ keys' = keys /\ limit' = limit /\ Ticking
  BY LeaveGoesOn
<1>2. /\ remaining \in Nat /\ remaining <= Budget /\ Budget \in Nat /\ remaining > 0
      /\ changes \in Nat /\ changes <= limit /\ limit \in Nat /\ changes > 0
      /\ Budget \div Len(keys) \in Nat /\ limit \div Len(keys) \in Nat
  BY <1>1, Numbers DEF Visiting
<1>3. /\ remaining >= JobsLeft * (Budget \div Len(keys))
      /\ changes >= JobsLeft * (limit \div Len(keys))
  BY <1>1 DEF IInv, EqualPartsLeft
<1>4. /\ remaining - n \in Nat
      /\ remaining - n >= (JobsLeft - 1) * (Budget \div Len(keys))
  <2>1. /\ Share(remaining) \in Nat
        /\ Share(remaining) = 1 \/ Share(remaining) = remaining \div JobsLeft
        /\ Share(remaining) >= remaining \div JobsLeft
    BY <1>1, <1>2, ShareValue
  <2>2. QED
    BY <1>1, <1>2, <1>3, <2>1, ShareLeavesParts
<1>5. /\ changes - c \in Nat
      /\ changes - c >= (JobsLeft - 1) * (limit \div Len(keys))
  <2>1. /\ Share(changes) \in Nat
        /\ Share(changes) = 1 \/ Share(changes) = changes \div JobsLeft
        /\ Share(changes) >= changes \div JobsLeft
    BY <1>1, <1>2, ShareValue
  <2>2. QED
    BY <1>1, <1>2, <1>3, <2>1, ShareLeavesParts
<1>6. remaining' = remaining - n /\ changes' = changes - c
  BY DEF Spend
<1>7. /\ Share(remaining) \in Nat /\ Share(changes) \in Nat
  BY <1>1, <1>2, ShareValue
<1>8. n \in Nat /\ c \in Nat
  BY <1>7
<1>9. limit \in 0 .. ChangeBudget
  BY DEF IInv, TypeOK
<1>10. remaining' \in 0 .. Budget /\ changes' \in 0 .. limit
  BY <1>2, <1>4, <1>5, <1>6, <1>8
<1>11. EqualPartsLeft'
  BY <1>1, <1>4, <1>5, <1>6 DEF EqualPartsLeft
<1>12. QED
  BY <1>1, <1>9, <1>10, <1>11

\* The invariant after a visit, from what the visit did to the jobs.
LEMMA VisitKeepsInvariant ==
    ASSUME IInv, NEW p \in Players, Visiting(p), Leave,
           NEW n \in 0 .. Share(remaining), NEW c \in 0 .. Share(changes), Spend(n, c),
           requests' \in 0 .. RequestsPerTick,
           order' \in Seq(Players), IsInjective(order'),
           Active \ {p} \subseteq Active',
           chunk' \in [Players -> {"none", "loading", "ready"}],
           left' \in [Players -> 0 .. MaxRange],
           \A q \in Players : left'[q] > 0 <=> q \in Active'
    PROVE  IInv'
<1>1. /\ remaining' \in 0 .. Budget
      /\ limit' \in 0 .. ChangeBudget /\ changes' \in 0 .. limit'
      /\ EqualPartsLeft'
  BY SpendLeavesParts
<1>2. /\ keys' = keys /\ index' \in 0 .. Len(keys) /\ next' \in Players /\ pacer' = pacer
      /\ \A i \in (index' + 1) .. Len(keys) : keys[i] \in Active \ {p}
  BY LeaveGoesOn
<1>3. UnvisitedActive'
  BY <1>2 DEF UnvisitedActive
<1>4. keys \in Seq(Players) /\ IsInjective(keys) /\ pacer \in Pacers \cup {None}
  BY DEF IInv, TypeOK
<1>5. TypeOK'
  BY <1>1, <1>2, <1>4 DEF TypeOK
<1>6. QED
  BY <1>1, <1>3, <1>5 DEF IInv

LEMMA WantedWithinShare ==
    ASSUME IInv, NEW p \in Players, Visiting(p), Leave
    PROVE  /\ Wanted(p) \in Nat
           /\ 0 .. Wanted(p) \subseteq 0 .. Share(remaining)
           /\ Wanted(p) <= left[p] /\ left[p] \in 0 .. MaxRange /\ MaxRange \in Nat
           /\ 0 \in 0 .. Share(remaining) /\ 0 \in 0 .. Share(changes)
<1>1. JobsLeft \in Nat /\ JobsLeft > 0 /\ remaining \in Nat /\ changes \in Nat
  BY LeaveGoesOn, Numbers
<1>2. Share(remaining) \in Nat /\ Share(changes) \in Nat
  BY <1>1, ShareValue
<1>3. left[p] \in 0 .. MaxRange /\ MaxRange \in Nat
  BY SchedulerAssumption DEF IInv, TypeOK
<1>4. Wanted(p) \in Nat /\ Wanted(p) <= left[p] /\ Wanted(p) <= Share(remaining)
  BY <1>2, <1>3, MinOfTwo DEF Wanted
<1>5. QED
  BY <1>2, <1>3, <1>4

----------------------------------------------------------------------------
(* The invariant. *)

LEMMA InitEstablishes == Init => IInv
<1>1. SUFFICES ASSUME Init
               PROVE  IInv
  OBVIOUS
<1>2. <<>> \in Seq(Players) /\ IsInjective(<<>>) /\ Len(<<>>) = 0
  BY DEF IsInjective
<1>3. TypeOK
  BY <1>1, <1>2, NewPacerIsPacer, PacingAssumption, SchedulerAssumption
  DEF Init, TypeOK, Active, ToSet
<1>4. UnvisitedActive /\ EqualPartsLeft
  BY <1>1, <1>2 DEF Init, UnvisitedActive, EqualPartsLeft, Ticking
<1>5. QED
  BY <1>3, <1>4 DEF IInv

\* Outside the loop the numbers of the tick are all zero, and nobody is being visited.
LEMMA OutsideTick ==
    ASSUME IInv, UNCHANGED tickVars, ~Ticking,
           order' \in Seq(Players), IsInjective(order'),
           chunk' \in [Players -> {"none", "loading", "ready"}],
           left' \in [Players -> 0 .. MaxRange],
           \A q \in Players : left'[q] > 0 <=> q \in Active'
    PROVE  IInv'
<1>1. TypeOK'
  BY DEF IInv, TypeOK, tickVars
<1>2. keys = <<>> /\ keys' = <<>> /\ index' = index /\ index = 0
  BY DEF Ticking, tickVars, IInv, TypeOK
<1>3. UnvisitedActive' /\ EqualPartsLeft'
  BY <1>2 DEF UnvisitedActive, EqualPartsLeft, Ticking
<1>4. QED
  BY <1>1, <1>3 DEF IInv

LEMMA StartJobKeeps ==
    ASSUME IInv, NEW p \in Players, StartJob(p)
    PROVE  IInv'
<1>1. order \in Seq(Players) /\ IsInjective(order) /\ DOMAIN order = 1 .. Len(order)
  BY DEF IInv, TypeOK
<1>2. /\ order' \in Seq(Players) /\ Len(order') = Len(order) + 1
      /\ DOMAIN order' = 1 .. Len(order) + 1
      /\ \A i \in 1 .. Len(order) : order'[i] = order[i]
      /\ order'[Len(order) + 1] = p
  BY <1>1, AppendProperties DEF StartJob
<1>3. \A i \in 1 .. Len(order) : order[i] # p
  BY <1>1 DEF StartJob, Active, ToSet
<1>4. IsInjective(order')
  <2>1. SUFFICES ASSUME NEW i \in 1 .. Len(order) + 1, NEW j \in 1 .. Len(order) + 1,
                        order'[i] = order'[j]
                 PROVE  i = j
    BY <1>2 DEF IsInjective
  <2>2. Len(order) \in Nat
    BY <1>1
  <2>3. CASE i <= Len(order) /\ j <= Len(order)
    <3>1. i \in 1 .. Len(order) /\ j \in 1 .. Len(order)
      BY <2>2, <2>3
    <3>2. order[i] = order[j]
      BY <1>2, <2>1, <3>1
    <3>3. QED
      BY <1>1, <3>1, <3>2 DEF IsInjective
  <2>4. CASE i = Len(order) + 1 \/ j = Len(order) + 1
    BY <1>2, <1>3, <2>1, <2>2, <2>4
  <2>5. QED
    BY <2>2, <2>3, <2>4
<1>5. Active' = Active \cup {p}
  BY <1>1, <1>2 DEF Active, ToSet
<1>6. PICK n \in 1 .. MaxRange : left' = [left EXCEPT ![p] = n]
  BY DEF StartJob
<1>7. MaxRange \in Nat
  BY SchedulerAssumption
<1>8. /\ left' \in [Players -> 0 .. MaxRange]
      /\ \A q \in Players : left'[q] > 0 <=> q \in Active'
  BY <1>5, <1>6, <1>7 DEF IInv, TypeOK
<1>9. chunk' \in [Players -> {"none", "loading", "ready"}]
  BY DEF StartJob, IInv, TypeOK
<1>10. UNCHANGED tickVars /\ ~Ticking
  BY DEF StartJob
<1>11. QED
  BY <1>2, <1>4, <1>8, <1>9, <1>10, OutsideTick

LEMMA CancelJobKeeps ==
    ASSUME IInv, NEW p \in Players, CancelJob(p)
    PROVE  IInv'
<1>1. TypeOK /\ p \in Active /\ Ends(p) /\ UNCHANGED tickVars /\ ~Ticking
  BY DEF CancelJob, IInv
<1>2. QED
  BY <1>1, EndsRemovesJob, OutsideTick

LEMMA BeginTickKeeps ==
    ASSUME IInv, BeginTick
    PROVE  IInv'
<1>1. TypeOK
  BY DEF IInv
<1>2. /\ keys' \in Seq(Players) /\ IsInjective(keys') /\ Len(keys') = Len(order)
      /\ \A j \in 1 .. Len(keys') : keys'[j] \in Active
  BY <1>1, RotatedVisitsActive DEF BeginTick
<1>3. Len(keys') \in Nat /\ Len(keys') > 0
  BY <1>1, <1>2 DEF BeginTick, TypeOK
<1>4. /\ index' = 0 /\ remaining' = Budget /\ limit' = ChangeLimit(pacer') /\ changes' = limit'
      /\ requests' \in SaveRequests /\ UNCHANGED <<jobVars, next>>
      /\ pacer' \in Paced(TRUE)
  BY DEF BeginTick
<1>5. pacer' \in Pacers \cup {None}
  BY <1>1, <1>4, PacedIsPacer DEF TypeOK
<1>6. /\ Budget \in Nat /\ limit' \in Nat /\ limit' \in 0 .. ChangeBudget
      /\ requests' \in 0 .. RequestsPerTick
  BY <1>4, <1>5, LimitWithinBudget, PacingAssumption, SchedulerAssumption
<1>7. TypeOK'
  BY <1>1, <1>2, <1>3, <1>4, <1>5, <1>6 DEF TypeOK, jobVars, Active
<1>8. UnvisitedActive'
  BY <1>2, <1>4 DEF UnvisitedActive, jobVars, Active
<1>9. EqualPartsLeft'
  <2>1. JobsLeft' = Len(keys')
    BY <1>3, <1>4 DEF JobsLeft
  <2>2. /\ Len(keys') * (Budget \div Len(keys')) <= Budget
        /\ Len(keys') * (limit' \div Len(keys')) <= limit'
        /\ Len(keys') * (Budget \div Len(keys')) \in Nat
        /\ Len(keys') * (limit' \div Len(keys')) \in Nat
    BY <1>3, <1>6, DivBounds
  <2>3. QED
    BY <1>4, <1>6, <2>1, <2>2 DEF EqualPartsLeft
<1>10. QED
  BY <1>7, <1>8, <1>9 DEF IInv

LEMMA IdleTickKeeps ==
    ASSUME IInv, IdleTick
    PROVE  IInv'
<1>1. /\ UNCHANGED <<order, chunk, left, next, keys, index, remaining, changes, limit, requests>>
      /\ pacer' \in Paced(FALSE)
  BY DEF IdleTick, jobVars
<1>2. pacer' \in Pacers \cup {None}
  BY <1>1, PacedIsPacer DEF IInv, TypeOK
<1>3. QED
  BY <1>1, <1>2 DEF IInv, TypeOK, UnvisitedActive, EqualPartsLeft, Active, Ticking, JobsLeft

LEMMA EndTickKeeps ==
    ASSUME IInv, EndTick
    PROVE  IInv'
<1>1. /\ keys' = <<>> /\ index' = 0 /\ remaining' = 0 /\ changes' = 0 /\ limit' = 0
      /\ requests' = 0 /\ UNCHANGED <<jobVars, next, pacer>>
  BY DEF EndTick
<1>2. <<>> \in Seq(Players) /\ IsInjective(<<>>) /\ Len(<<>>) = 0
  BY DEF IsInjective
<1>3. TypeOK'
  BY <1>1, <1>2, PacingAssumption, SchedulerAssumption DEF IInv, TypeOK, jobVars, Active
<1>4. UnvisitedActive' /\ EqualPartsLeft'
  BY <1>1, <1>2 DEF UnvisitedActive, EqualPartsLeft, Ticking
<1>5. QED
  BY <1>3, <1>4 DEF IInv

\* A visit that leaves the jobs' order and records and both budgets alone.
LEMMA IdleVisitKeeps ==
    ASSUME IInv, NEW p \in Players, Visiting(p), Leave,
           UNCHANGED <<order, left, remaining, changes>>,
           chunk' \in [Players -> {"none", "loading", "ready"}],
           requests' \in 0 .. RequestsPerTick
    PROVE  IInv'
<1>1. /\ order' \in Seq(Players) /\ IsInjective(order') /\ Active' = Active
      /\ left' \in [Players -> 0 .. MaxRange]
      /\ \A q \in Players : left'[q] > 0 <=> q \in Active'
  BY DEF IInv, TypeOK, Active
<1>2. 0 \in 0 .. Share(remaining) /\ 0 \in 0 .. Share(changes) /\ Spend(0, 0)
  BY WantedWithinShare, Numbers DEF Spend
<1>3. QED
  BY <1>1, <1>2, VisitKeepsInvariant

LEMMA VisitKeeps ==
    ASSUME IInv, NEW p \in Players, Visit(p)
    PROVE  IInv'
<1>1. TypeOK /\ requests \in 0 .. RequestsPerTick /\ RequestsPerTick \in Nat
  BY SchedulerAssumption DEF IInv, TypeOK
<1>2. CASE VisitFails(p)
  <2>1. Visiting(p) /\ Leave /\ Ends(p)
    BY <1>2 DEF VisitFails
  <2>2. p \in Active
    BY <2>1, LeaveGoesOn
  <2>3. PICK n \in 0 .. Wanted(p), c \in 0 .. Share(changes) : Spend(n, c)
    BY <1>2 DEF VisitFails
  <2>4. n \in 0 .. Share(remaining)
    BY <2>1, WantedWithinShare
  <2>5. requests' \in 0 .. RequestsPerTick
    <3>1. Min({requests + 1, RequestsPerTick}) \in 0 .. RequestsPerTick
      BY <1>1, MinOfTwo
    <3>2. QED
      BY <1>1, <1>2, <3>1 DEF VisitFails
  <2>6. QED
    BY <1>1, <2>1, <2>2, <2>3, <2>4, <2>5, EndsRemovesJob, VisitKeepsInvariant
<1>3. CASE RequestRefused(p)
  <2>1. requests' \in 0 .. RequestsPerTick
    BY <1>1, <1>3 DEF RequestRefused, TakeRequest
  <2>2. QED
    BY <1>1, <1>3, <2>1, IdleVisitKeeps DEF RequestRefused, jobVars, TypeOK
<1>4. CASE RequestGranted(p)
  <2>1. requests' \in 0 .. RequestsPerTick
    BY <1>1, <1>4 DEF RequestGranted, Granted, TakeRequest
  <2>2. QED
    BY <1>1, <1>4, <2>1, IdleVisitKeeps DEF RequestGranted, TypeOK
<1>5. CASE ChunkNotReady(p)
  BY <1>1, <1>5, IdleVisitKeeps DEF ChunkNotReady, jobVars, TypeOK
<1>6. CASE VisitPlaces(p)
  <2>1. Visiting(p) /\ Leave
    BY <1>6 DEF VisitPlaces
  <2>2. p \in Active
    BY <2>1, LeaveGoesOn
  <2>3. requests' \in 0 .. RequestsPerTick
    BY <1>1, <1>6 DEF VisitPlaces, Granted, TakeRequest
  <2>4. PICK n \in 1 .. Wanted(p), c \in 0 .. Share(changes) :
          /\ Spend(n, c)
          /\ IF n < left[p]
               THEN /\ left' = [left EXCEPT ![p] = @ - n]
                    /\ chunk' = [chunk EXCEPT ![p] = "ready"]
                    /\ UNCHANGED order
               ELSE \/ Ends(p)
                    \/ /\ \E more \in 1 .. MaxRange : left' = [left EXCEPT ![p] = more]
                       /\ chunk' = [chunk EXCEPT ![p] = "none"]
                       /\ UNCHANGED order
    BY <1>6 DEF VisitPlaces
  <2>5. /\ Wanted(p) \in Nat /\ Wanted(p) <= left[p] /\ left[p] \in 0 .. MaxRange
        /\ MaxRange \in Nat /\ n \in 0 .. Share(remaining) /\ n \in Nat /\ n > 0
    BY <2>1, WantedWithinShare
  <2>6. CASE Ends(p)
    BY <1>1, <2>1, <2>2, <2>3, <2>4, <2>5, <2>6, EndsRemovesJob, VisitKeepsInvariant
  <2>7. CASE UNCHANGED order /\ ~Ends(p)
    <3>1. PICK m \in 1 .. MaxRange : left' = [left EXCEPT ![p] = m]
      <4>1. CASE n < left[p]
        <5>1. left[p] - n \in 1 .. MaxRange
          BY <2>5, <4>1
        <5>2. QED
          BY <2>4, <4>1, <5>1
      <4>2. QED
        BY <2>4, <2>7, <4>1
    <3>2. /\ order' \in Seq(Players) /\ IsInjective(order') /\ Active' = Active
          /\ left' \in [Players -> 0 .. MaxRange]
          /\ \A q \in Players : left'[q] > 0 <=> q \in Active'
      BY <1>1, <2>2, <2>5, <2>7, <3>1 DEF TypeOK, Active
    <3>3. chunk' \in [Players -> {"none", "loading", "ready"}]
      BY <1>1, <2>4, <2>7 DEF TypeOK
    <3>4. QED
      BY <2>1, <2>3, <2>4, <2>5, <3>2, <3>3, VisitKeepsInvariant
  <2>8. QED
    BY <2>4, <2>6, <2>7
<1>7. QED
  BY <1>2, <1>3, <1>4, <1>5, <1>6 DEF Visit

LEMMA StepKeepsInvariant == IInv /\ [Next]_vars => IInv'
<1>1. SUFFICES ASSUME IInv, [Next]_vars
               PROVE  IInv'
  OBVIOUS
<1>2. ASSUME NEW p \in Players, StartJob(p) \/ CancelJob(p) \/ Visit(p)
      PROVE  IInv'
  BY <1>1, <1>2, StartJobKeeps, CancelJobKeeps, VisitKeeps
<1>3. CASE BeginTick
  BY <1>1, <1>3, BeginTickKeeps
<1>4. CASE EndTick
  BY <1>1, <1>4, EndTickKeeps
<1>5. CASE IdleTick
  BY <1>1, <1>5, IdleTickKeeps
<1>6. CASE UNCHANGED vars
  BY <1>1, <1>6 DEF IInv, TypeOK, UnvisitedActive, EqualPartsLeft, vars, jobVars, tickVars,
                    Active, Ticking, JobsLeft
<1>7. QED
  BY <1>1, <1>2, <1>3, <1>4, <1>5, <1>6 DEF Next, Loop

LEMMA InvariantGivesFairShare == IInv => FairShare
<1>1. SUFFICES ASSUME IInv, Ticking
               PROVE  /\ remaining >= JobsLeft * (Budget \div Len(keys))
                      /\ changes >= JobsLeft * (limit \div Len(keys))
                      /\ JobsLeft > 0 /\ remaining > 0
                           => Share(remaining) >= Budget \div Len(keys)
                      /\ JobsLeft > 0 /\ changes > 0
                           => Share(changes) >= limit \div Len(keys)
  BY DEF FairShare
<1>2. /\ remaining \in Nat /\ changes \in Nat
      /\ Budget \div Len(keys) \in Nat /\ limit \div Len(keys) \in Nat
  BY <1>1, Numbers
<1>3. JobsLeft \in Nat
  BY <1>1 DEF IInv, TypeOK, JobsLeft
<1>4. /\ remaining >= JobsLeft * (Budget \div Len(keys))
      /\ changes >= JobsLeft * (limit \div Len(keys))
  BY <1>1 DEF IInv, EqualPartsLeft
<1>5. ASSUME JobsLeft > 0
      PROVE  /\ Share(remaining) >= Budget \div Len(keys)
             /\ Share(changes) >= limit \div Len(keys)
  <2>1. /\ remaining \div JobsLeft >= Budget \div Len(keys)
        /\ changes \div JobsLeft >= limit \div Len(keys)
    BY <1>2, <1>3, <1>4, <1>5, QuotientCoversPart
  <2>2. /\ Share(remaining) \in Nat /\ Share(remaining) >= remaining \div JobsLeft
        /\ Share(changes) \in Nat /\ Share(changes) >= changes \div JobsLeft
        /\ remaining \div JobsLeft \in Nat /\ changes \div JobsLeft \in Nat
    BY <1>2, <1>3, <1>5, ShareValue, DivBounds
  <2>3. QED
    BY <1>2, <2>1, <2>2
<1>6. QED
  BY <1>4, <1>5

\* Every variable keeps its type, for any number of players and jobs: no tick spends more
\* than its budgets, and the loop never loses count of the jobs.
THEOREM SchedulerTypeCorrect == Spec => []TypeOK
<1>1. IInv => TypeOK
  BY DEF IInv
<1>2. QED
  BY <1>1, InitEstablishes, StepKeepsInvariant, PTL DEF Spec

\* Whatever the jobs before it used or failed with, every job of a tick finds its equal
\* part of both budgets when the loop comes to it (_process_paste_jobs).
THEOREM SharesAlwaysFair == Spec => []FairShare
<1>1. QED
  BY InitEstablishes, StepKeepsInvariant, InvariantGivesFairShare, PTL DEF Spec
=============================================================================
