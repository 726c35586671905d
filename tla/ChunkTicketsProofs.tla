------------------------- MODULE ChunkTicketsProofs -------------------------
(***************************************************************************)
(* Proofs about ChunkTickets for every number of players, chunks, slots and *)
(* server processes, whatever the server answers to a release.              *)
(***************************************************************************)
EXTENDS ChunkTickets, FiniteSetTheorems, TLAPS

\* The names a process uses carry its session: journaled names are of this process,
\* names of the pending cleanup are of older ones.
SessionsKept ==
    /\ \A n \in journal : n[1] = session
    /\ \A n \in stale : n[1] < session

\* What is true of a chunk holder whatever the interface.
HoldersLive == \A j \in Jobs : chunk[j] # NoChunk => live[j]

\* A slot's name is journaled as long as a job owns the slot.
SlotJournaled == \A j \in Jobs : slot[j] # NoSlot => AreaName(slot[j]) \in journal

\* An area of this process that no job holds is one the server failed to remove.
IdleAreaUnremoved ==
    \A s \in Slots : areas[AreaName(s)] # NoChunk =>
        \/ AreaName(s) \in unremoved
        \/ \E j \in Jobs : slot[j] = s /\ HoldsArea(j)

\* No area carries the name of a process that has not started yet.
NoFutureArea == \A n \in Names : areas[n] # NoChunk => n[1] <= session

----------------------------------------------------------------------------
(* Types. *)

LEMMA SlotForType ==
    ASSUME TypeOK, NEW j \in Jobs
    PROVE  SlotFor(j) \subseteq Slots
BY DEF TypeOK, SlotFor, FreeSlots

LEMMA AreaNameType ==
    ASSUME TypeOK, NEW s \in Slots
    PROVE  AreaName(s) \in Names
BY DEF TypeOK, AreaName, Names

LEMMA ReleaseTypes ==
    ASSUME TypeOK, NEW j \in Jobs, NEW ok \in BOOLEAN
    PROVE  /\ HoldsAfterRelease(j) \in [Chunks -> Nat]
           /\ TicketsAfterRelease(j, ok) \subseteq Chunks
<1>1. HoldsAfterRelease(j) \in [Chunks -> Nat]
  BY DEF TypeOK, HoldsAfterRelease
<1>2. QED
  BY <1>1 DEF TypeOK, TicketsAfterRelease

\* A held area's name is a name: the job that holds it has a slot.
LEMMA ReleaseAreaTypes ==
    ASSUME TypeOK, HeldAreaExists, NEW j \in Jobs, NEW ok \in BOOLEAN, ReleaseArea(j, ok)
    PROVE  /\ areas' \in [Names -> Chunks \cup {NoChunk}]
           /\ unremoved' \subseteq Names
<1>1. CASE HoldsArea(j)
  <2>1. slot[j] \in Slots
    BY <1>1 DEF TypeOK, HeldAreaExists
  <2>2. AreaName(slot[j]) \in Names
    BY <2>1, AreaNameType
  <2>3. QED
    BY <1>1, <2>2 DEF TypeOK, ReleaseArea
<1>2. CASE ~HoldsArea(j)
  BY <1>2 DEF TypeOK, ReleaseArea
<1>3. QED
  BY <1>1, <1>2

LEMMA BootTypes ==
    ASSUME TypeOK, NEW names, names \subseteq Names, Boot(names),
           areas' \in [Names -> Chunks \cup {NoChunk}], unremoved' \subseteq Names
    PROVE  TypeOK'
BY TicketsAssumption DEF TypeOK, Boot, Names, Slots, NoSlot

\* TypeOK alone is not inductive: a release indexes the areas with the holder's slot.
LEMMA TypeStep ==
    ASSUME TypeOK, HeldAreaExists, [Next]_vars
    PROVE  TypeOK'
<1> USE TicketsAssumption DEF TypeOK, jobVars, nativeVars, legacyVars, bootVars
<1>1. ASSUME NEW j \in Jobs, StartJob(j) PROVE TypeOK'
  BY <1>1 DEF StartJob
<1>2. ASSUME NEW j \in Jobs, SlotBusy(j) PROVE TypeOK'
  BY <1>2 DEF SlotBusy, SpendRequest
<1>16. ASSUME NEW j \in Jobs, NoFallback(j) PROVE TypeOK'
  BY <1>16 DEF NoFallback, SpendRequest
<1>3. ASSUME NEW j \in Jobs, AreaRefused(j) PROVE TypeOK'
  BY <1>3, SlotForType DEF AreaRefused, SpendRequest
<1>4. ASSUME NEW j \in Jobs, ReleaseChunk(j) PROVE TypeOK'
  <2>1. PICK ok \in BOOLEAN : /\ holds' = HoldsAfterRelease(j)
                              /\ tickets' = TicketsAfterRelease(j, ok)
                              /\ ReleaseArea(j, ok)
    BY <1>4 DEF ReleaseChunk, Outcomes
  <2>2. QED
    BY <1>4, <2>1, ReleaseTypes, ReleaseAreaTypes DEF ReleaseChunk
<1>5. ASSUME NEW j \in Jobs, EndJob(j) PROVE TypeOK'
  <2>1. PICK ok \in BOOLEAN : /\ holds' = HoldsAfterRelease(j)
                              /\ tickets' = TicketsAfterRelease(j, ok)
                              /\ ReleaseArea(j, ok)
                              /\ journal' \subseteq journal
    BY <1>5 DEF EndJob, Outcomes
  <2>2. slots' \in [Slots -> Jobs \cup {NoJob}]
    BY <1>5 DEF EndJob
  <2>3. QED
    BY <1>5, <2>1, <2>2, ReleaseTypes, ReleaseAreaTypes DEF EndJob
<1>6. ASSUME NEW j \in Jobs, NEW c \in Chunks, ShareHold(j, c) PROVE TypeOK'
  BY <1>6 DEF ShareHold
<1>7. ASSUME NEW j \in Jobs, NEW c \in Chunks, LoadChunk(j, c) PROVE TypeOK'
  BY <1>7 DEF LoadChunk, SpendRequest
<1>8. ASSUME NEW j \in Jobs, NEW c \in Chunks, LoadRefused(j, c) PROVE TypeOK'
  BY <1>8 DEF LoadRefused, SpendRequest
<1>9. ASSUME NEW j \in Jobs, NEW c \in Chunks, AddArea(j, c) PROVE TypeOK'
  <2>1. PICK s \in SlotFor(j) :
          /\ slots' = [slots EXCEPT ![s] = j]
          /\ slot' = [slot EXCEPT ![j] = s]
          /\ journal' = IF slot[j] = NoSlot THEN journal \cup {AreaName(s)} ELSE journal
          /\ areas' = [areas EXCEPT ![AreaName(s)] = c]
    BY <1>9 DEF AddArea
  <2>2. s \in Slots /\ AreaName(s) \in Names
    BY SlotForType, AreaNameType
  <2>3. QED
    BY <1>9, <2>1, <2>2 DEF AddArea, SpendRequest
<1>10. CASE Tick
  BY <1>10 DEF Tick
<1>11. CASE Cleanup
  <2>1. PICK lost \in SUBSET stale :
          /\ areas' = [n \in Names |-> IF n \in stale \ lost THEN NoChunk ELSE areas[n]]
          /\ unremoved' = (unremoved \ stale) \cup lost
    BY <1>11 DEF Cleanup
  <2>2. areas' \in [Names -> Chunks \cup {NoChunk}]
    BY <2>1
  <2>3. QED
    BY <1>11, <2>1, <2>2 DEF Cleanup
<1>12. CASE Crash
  BY <1>12, BootTypes DEF Crash
<1>13. CASE Restart
  <2>1. PICK lost \in SUBSET {j \in Jobs : HoldsArea(j)} :
          LET tried == {AreaName(slot[j]) : j \in {i \in Jobs : HoldsArea(i)}}
              failed == {AreaName(slot[j]) : j \in lost}
              ended == {AreaName(slot[j]) : j \in {i \in Jobs \ lost : slot[i] # NoSlot}}
          IN /\ areas' = [n \in Names |-> IF n \in tried \ failed THEN NoChunk ELSE areas[n]]
             /\ unremoved' = (unremoved \ tried) \cup failed
             /\ Boot(journal \ ended)
    BY <1>13 DEF Restart
  <2> DEFINE tried == {AreaName(slot[j]) : j \in {i \in Jobs : HoldsArea(i)}}
             failed == {AreaName(slot[j]) : j \in lost}
             ended == {AreaName(slot[j]) : j \in {i \in Jobs \ lost : slot[i] # NoSlot}}
  <2>2. failed \subseteq Names
    BY AreaNameType DEF HeldAreaExists
  <2> HIDE DEF tried, failed, ended
  <2>3. areas' \in [Names -> Chunks \cup {NoChunk}]
    BY <2>1 DEF tried, failed, ended
  <2>4. unremoved' \subseteq Names
    BY <2>1, <2>2 DEF tried, failed, ended
  <2>5. Boot(journal \ ended)
    BY <2>1 DEF tried, failed, ended
  <2>6. QED
    BY <2>3, <2>4, <2>5, BootTypes
<1>14. CASE UNCHANGED vars
  BY <1>14 DEF vars
<1>15. QED
  BY <1>1, <1>2, <1>3, <1>4, <1>5, <1>6, <1>7, <1>8, <1>9, <1>10, <1>11, <1>12, <1>13, <1>14,
     <1>16 DEF Next

----------------------------------------------------------------------------
(* Slots. *)

\* Slots of two jobs differ, because each slot names the job it belongs to.
LEMMA SlotsDiffer ==
    ASSUME TypeOK, SlotsMatchJobs, NEW i \in Jobs, NEW j \in Jobs, i # j,
           slot[i] # NoSlot, slot[j] # NoSlot
    PROVE  slot[i] # slot[j] /\ AreaName(slot[i]) # AreaName(slot[j])
<1>1. slot[i] \in Slots /\ slot[j] \in Slots
  BY DEF TypeOK
<1>2. slot[i] # slot[j]
  BY <1>1 DEF SlotsMatchJobs
<1>3. QED
  BY <1>2 DEF AreaName

\* The slot a job is given is its own or nobody's.
LEMMA SlotForOwn ==
    ASSUME TypeOK, SlotsMatchJobs, NEW j \in Jobs, NEW s \in SlotFor(j)
    PROVE  /\ s \in Slots
           /\ slots[s] \in {j, NoJob}
           /\ \A i \in Jobs \ {j} : slot[i] # s
<1>1. s \in Slots
  BY SlotForType
<1>2. slots[s] \in {j, NoJob}
  BY <1>1 DEF SlotFor, FreeSlots, SlotsMatchJobs
<1>3. QED
  BY <1>1, <1>2, TicketsAssumption DEF SlotsMatchJobs

LEMMA SlotsStep ==
    ASSUME TypeOK, SlotsMatchJobs, [Next]_vars
    PROVE  SlotsMatchJobs'
<1> USE TicketsAssumption
    DEF TypeOK, SlotsMatchJobs, NoSlot, jobVars, nativeVars, legacyVars, bootVars
<1>1. ASSUME NEW j \in Jobs, StartJob(j) PROVE SlotsMatchJobs'
  BY <1>1 DEF StartJob
<1>2. ASSUME NEW j \in Jobs, SlotBusy(j) PROVE SlotsMatchJobs'
  <2>1. slot[j] = NoSlot
    BY <1>2 DEF SlotBusy, SlotFor
  <2>2. QED
    BY <1>2, <2>1 DEF SlotBusy
<1>3. ASSUME NEW j \in Jobs, AreaRefused(j) PROVE SlotsMatchJobs'
  <2>1. PICK s \in SlotFor(j) : slots' = [slots EXCEPT ![s] = NoJob]
    BY <1>3 DEF AreaRefused
  <2>2. s \in Slots /\ (slot[j] # NoSlot => s = slot[j]) /\ \A i \in Jobs \ {j} : slot[i] # s
    BY SlotForOwn DEF SlotFor
  <2>3. \A t \in Slots : slots[t] = j => t = s
    BY <2>2 DEF Slots
  <2>4. slot' = [slot EXCEPT ![j] = NoSlot] /\ live' = [live EXCEPT ![j] = FALSE]
        /\ api' = api /\ fallback' = fallback
    BY <1>3 DEF AreaRefused
  <2>5. QED
    BY <2>1, <2>2, <2>3, <2>4 DEF Slots
<1>4. ASSUME NEW j \in Jobs, ReleaseChunk(j) PROVE SlotsMatchJobs'
  BY <1>4 DEF ReleaseChunk
<1>5. ASSUME NEW j \in Jobs, EndJob(j) PROVE SlotsMatchJobs'
  <2>1. /\ slots' = [s \in Slots |-> IF s = slot[j] THEN NoJob ELSE slots[s]]
        /\ slot' = [slot EXCEPT ![j] = NoSlot]
        /\ live' = [live EXCEPT ![j] = FALSE]
        /\ api' = api /\ fallback' = fallback
    BY <1>5 DEF EndJob
  <2>2. \A s \in Slots, i \in Jobs : slots'[s] = i <=> slot'[i] = s
    BY <2>1 DEF Slots
  <2>3. slot'[j] = NoSlot
    BY <2>1
  <2>5. \A i \in Jobs : i # j => slot'[i] = slot[i] /\ live'[i] = live[i]
    BY <2>1
  <2>4. QED
    BY <2>1, <2>2, <2>3, <2>5
<1>6. ASSUME NEW j \in Jobs, NEW c \in Chunks,
             ShareHold(j, c) \/ LoadChunk(j, c) \/ LoadRefused(j, c)
      PROVE SlotsMatchJobs'
  BY <1>6 DEF ShareHold, LoadChunk, LoadRefused
<1>12. ASSUME NEW j \in Jobs, NoFallback(j) PROVE SlotsMatchJobs'
  \* without the fallback nobody asks for a slot
  <2>1. slot[j] = NoSlot
    BY <1>12 DEF NoFallback
  <2>2. QED
    BY <1>12, <2>1 DEF NoFallback
<1>7. ASSUME NEW j \in Jobs, NEW c \in Chunks, AddArea(j, c) PROVE SlotsMatchJobs'
  <2>1. PICK s \in SlotFor(j) : /\ slots' = [slots EXCEPT ![s] = j]
                                /\ slot' = [slot EXCEPT ![j] = s]
    BY <1>7 DEF AddArea
  <2>2. s \in Slots /\ \A i \in Jobs \ {j} : slot[i] # s
    BY SlotForOwn
  <2>3. \A t \in Slots : slots[t] = j => t = s
    BY <2>2 DEF Slots, SlotFor, FreeSlots
  <2>4. live[j] /\ live' = live /\ api' = api /\ api = "legacy" /\ fallback /\ fallback' = fallback
    BY <1>7 DEF AddArea, Asks
  <2>5. QED
    BY <2>1, <2>2, <2>3, <2>4
<1>8. CASE Tick \/ Cleanup
  BY <1>8 DEF Tick, Cleanup
<1>9. CASE Crash \/ Restart
  BY <1>9 DEF Crash, Restart, Boot, Slots
<1>10. CASE UNCHANGED vars
  BY <1>10 DEF vars
<1>11. QED
  BY <1>1, <1>2, <1>3, <1>4, <1>5, <1>6, <1>7, <1>8, <1>9, <1>10, <1>12 DEF Next

----------------------------------------------------------------------------
(* Native holds. *)

LEMMA OwnersFinite ==
    ASSUME NEW c PROVE IsFiniteSet(Owners(c))
<1>1. Owners(c) \subseteq Jobs
  BY DEF Owners
<1>2. QED
  BY <1>1, FS_Subset, TicketsAssumption

\* A job that takes a chunk is one more owner of that chunk and of no other.
LEMMA OwnerJoins ==
    ASSUME TypeOK, NEW j \in Jobs, NEW c \in Chunks, chunk[j] = NoChunk,
           chunk' = [chunk EXCEPT ![j] = c]
    PROVE  \A d \in Chunks :
             Cardinality(Owners(d)') = IF d = c THEN Cardinality(Owners(d)) + 1
                                                ELSE Cardinality(Owners(d))
<1> SUFFICES ASSUME NEW d \in Chunks
             PROVE  Cardinality(Owners(d)') = IF d = c THEN Cardinality(Owners(d)) + 1
                                                       ELSE Cardinality(Owners(d))
  OBVIOUS
<1>1. CASE d = c
  <2>1. Owners(d)' = Owners(d) \cup {j} /\ j \notin Owners(d)
    BY <1>1, TicketsAssumption DEF Owners, TypeOK
  <2>2. QED
    BY <1>1, <2>1, OwnersFinite, FS_AddElement
<1>2. CASE d # c
  <2>1. Owners(d)' = Owners(d)
    BY <1>2, TicketsAssumption DEF Owners, TypeOK
  <2>2. QED
    BY <1>2, <2>1
<1>3. QED
  BY <1>1, <1>2

\* A job that gives its chunk back is one owner less.
LEMMA OwnerLeaves ==
    ASSUME TypeOK, NEW j \in Jobs, chunk' = [chunk EXCEPT ![j] = NoChunk]
    PROVE  \A d \in Chunks :
             Cardinality(Owners(d)') = IF d = chunk[j] THEN Cardinality(Owners(d)) - 1
                                                       ELSE Cardinality(Owners(d))
<1> SUFFICES ASSUME NEW d \in Chunks
             PROVE  Cardinality(Owners(d)') = IF d = chunk[j] THEN Cardinality(Owners(d)) - 1
                                                              ELSE Cardinality(Owners(d))
  OBVIOUS
<1>1. CASE d = chunk[j]
  <2>1. Owners(d)' = Owners(d) \ {j} /\ j \in Owners(d)
    BY <1>1, TicketsAssumption DEF Owners, TypeOK
  <2>2. QED
    BY <1>1, <2>1, OwnersFinite, FS_RemoveElement
<1>2. CASE d # chunk[j]
  <2>1. Owners(d)' = Owners(d)
    BY <1>2, TicketsAssumption DEF Owners, TypeOK
  <2>2. QED
    BY <1>2, <2>1
<1>3. QED
  BY <1>1, <1>2

\* One release, of a chunk or at the end of a job.
LEMMA HoldsRelease ==
    ASSUME TypeOK, HoldsCountOwners, NEW j \in Jobs, NEW ok \in BOOLEAN,
           holds' = HoldsAfterRelease(j), tickets' = TicketsAfterRelease(j, ok),
           chunk' = [chunk EXCEPT ![j] = NoChunk], api' = api
    PROVE  HoldsCountOwners'
<1> SUFFICES ASSUME api = "native", NEW c \in Chunks
             PROVE  holds'[c] = Cardinality(Owners(c)') /\ (holds'[c] > 0 => c \in tickets')
  BY DEF HoldsCountOwners, TypeOK
<1>1. holds[c] = Cardinality(Owners(c)) /\ (holds[c] > 0 => c \in tickets) /\ holds[c] \in Nat
  BY DEF HoldsCountOwners, TypeOK
<1>2. CASE c = chunk[j]
  <2>1. chunk[j] # NoChunk
    BY <1>2, TicketsAssumption
  <2>2. holds'[c] = IF holds[c] > 1 THEN holds[c] - 1 ELSE 0
    BY <1>2, <2>1 DEF HoldsAfterRelease, TypeOK
  <2>3. Cardinality(Owners(c)') = holds[c] - 1
    BY <1>1, <1>2, OwnerLeaves
  <2>4. holds[c] >= 1
    <3>1. j \in Owners(c)
      BY <1>2 DEF Owners
    <3>2. Cardinality(Owners(c)) # 0
      BY <3>1, OwnersFinite, FS_EmptySet
    <3>3. QED
      BY <1>1, <3>2
  <2>5. holds[c] > 1 => tickets' = tickets
    BY <1>1, <1>2 DEF TicketsAfterRelease
  <2>6. holds'[c] = holds[c] - 1
    BY <1>1, <2>2, <2>4
  <2>7. holds'[c] > 0 => c \in tickets'
    BY <1>1, <2>5, <2>6
  <2>8. QED
    BY <2>3, <2>6, <2>7
<1>3. CASE c # chunk[j]
  <2>1. holds'[c] = holds[c]
    BY <1>3 DEF HoldsAfterRelease, TypeOK
  <2>2. Cardinality(Owners(c)') = Cardinality(Owners(c))
    BY <1>3, OwnerLeaves
  <2>3. c \in tickets => c \in tickets'
    BY <1>3 DEF TicketsAfterRelease
  <2>4. QED
    BY <1>1, <2>1, <2>2, <2>3
<1>4. QED
  BY <1>2, <1>3

LEMMA HoldsStep ==
    ASSUME TypeOK, HoldsCountOwners, [Next]_vars
    PROVE  HoldsCountOwners'
<1> USE DEF jobVars, nativeVars, legacyVars, bootVars
<1>1. ASSUME NEW j \in Jobs, StartJob(j) \/ NoFallback(j) \/ SlotBusy(j) \/ AreaRefused(j)
      PROVE HoldsCountOwners'
  BY <1>1 DEF StartJob, NoFallback, SlotBusy, AreaRefused, HoldsCountOwners, Owners
<1>2. ASSUME NEW j \in Jobs, ReleaseChunk(j) PROVE HoldsCountOwners'
  <2>1. PICK ok \in BOOLEAN : /\ holds' = HoldsAfterRelease(j)
                              /\ tickets' = TicketsAfterRelease(j, ok)
    BY <1>2 DEF ReleaseChunk, Outcomes
  <2>2. QED
    BY <1>2, <2>1, HoldsRelease DEF ReleaseChunk
<1>3. ASSUME NEW j \in Jobs, EndJob(j) PROVE HoldsCountOwners'
  <2>1. PICK ok \in BOOLEAN : /\ holds' = HoldsAfterRelease(j)
                              /\ tickets' = TicketsAfterRelease(j, ok)
    BY <1>3 DEF EndJob, Outcomes
  <2>2. QED
    BY <1>3, <2>1, HoldsRelease DEF EndJob
<1>4. ASSUME NEW j \in Jobs, NEW c \in Chunks, ShareHold(j, c) PROVE HoldsCountOwners'
  <2>1. /\ chunk[j] = NoChunk /\ chunk' = [chunk EXCEPT ![j] = c]
        /\ holds' = [holds EXCEPT ![c] = @ + 1] /\ holds[c] > 0
        /\ tickets' = tickets /\ api' = api
    BY <1>4 DEF ShareHold, Asks
  <2>2. QED
    BY <2>1, OwnerJoins DEF HoldsCountOwners, TypeOK
<1>5. ASSUME NEW j \in Jobs, NEW c \in Chunks, LoadChunk(j, c) PROVE HoldsCountOwners'
  <2>1. /\ chunk[j] = NoChunk /\ chunk' = [chunk EXCEPT ![j] = c]
        /\ holds' = [holds EXCEPT ![c] = 1] /\ holds[c] = 0
        /\ tickets' = tickets \cup {c} /\ api' = api
    BY <1>5 DEF LoadChunk, Asks
  <2>2. QED
    <3>1. \A d \in Chunks : Cardinality(Owners(d)') = IF d = c THEN Cardinality(Owners(d)) + 1
                                                              ELSE Cardinality(Owners(d))
      BY <2>1, OwnerJoins
    <3>2. SUFFICES ASSUME api = "native", NEW d \in Chunks
                   PROVE  /\ holds'[d] = Cardinality(Owners(d)')
                          /\ holds'[d] > 0 => d \in tickets'
      BY <2>1 DEF HoldsCountOwners
    <3>3. holds[d] = Cardinality(Owners(d)) /\ (holds[d] > 0 => d \in tickets)
      BY <3>2 DEF HoldsCountOwners
    <3>4. QED
      BY <2>1, <3>1, <3>3 DEF TypeOK
<1>6. ASSUME NEW j \in Jobs, NEW c \in Chunks, LoadRefused(j, c) PROVE HoldsCountOwners'
  BY <1>6 DEF LoadRefused, HoldsCountOwners, Owners
<1>7. ASSUME NEW j \in Jobs, NEW c \in Chunks, AddArea(j, c) PROVE HoldsCountOwners'
  BY <1>7 DEF AddArea, HoldsCountOwners
<1>8. CASE Tick \/ Cleanup
  BY <1>8 DEF Tick, Cleanup, HoldsCountOwners, Owners
<1>9. CASE Crash \/ Restart
  <2>1. \A j \in Jobs : chunk'[j] = NoChunk
    BY <1>9 DEF Crash, Restart, Boot
  <2>2. holds' = [c \in Chunks |-> 0]
    BY <1>9 DEF Crash, Restart, Boot
  <2>3. \A c \in Chunks : Cardinality(Owners(c)') = 0
    <3>1. \A c \in Chunks : Owners(c)' = {}
      BY <2>1, TicketsAssumption DEF Owners
    <3>2. QED
      BY <3>1, FS_EmptySet
  <2>4. QED
    BY <2>2, <2>3 DEF HoldsCountOwners
<1>10. CASE UNCHANGED vars
  BY <1>10 DEF vars, HoldsCountOwners, Owners
<1>11. QED
  BY <1>1, <1>2, <1>3, <1>4, <1>5, <1>6, <1>7, <1>8, <1>9, <1>10 DEF Next

----------------------------------------------------------------------------
(* Ticking areas, their names and the journal. *)

AreaInv ==
    /\ HoldersLive
    /\ SessionsKept
    /\ SlotJournaled
    /\ HeldAreaExists
    /\ IdleAreaUnremoved
    /\ NoFutureArea

\* What giving back one job's area does to the other jobs' areas: nothing.
LEMMA ReleaseAreaOnly ==
    ASSUME TypeOK, SlotsMatchJobs, HeldAreaExists, NEW j \in Jobs, NEW ok \in BOOLEAN,
           ReleaseArea(j, ok)
    PROVE  /\ \A n \in Names : n # AreaName(slot[j]) =>
                 areas'[n] = areas[n] /\ (n \in unremoved' <=> n \in unremoved)
           /\ \A n \in Names : areas'[n] # NoChunk => areas[n] = areas'[n]
           /\ \A n \in Names : areas'[n] # NoChunk /\ n \in unremoved => n \in unremoved'
           /\ HoldsArea(j) /\ areas'[AreaName(slot[j])] # NoChunk => AreaName(slot[j]) \in unremoved'
           /\ ~HoldsArea(j) => areas' = areas /\ unremoved' = unremoved
<1>1. CASE HoldsArea(j)
  <2>1. slot[j] \in Slots /\ AreaName(slot[j]) \in Names
    BY <1>1, AreaNameType DEF HeldAreaExists, TypeOK
  <2>2. /\ areas' = IF ok THEN [areas EXCEPT ![AreaName(slot[j])] = NoChunk] ELSE areas
        /\ unremoved' = IF ok THEN unremoved \ {AreaName(slot[j])}
                              ELSE unremoved \cup {AreaName(slot[j])}
    BY <1>1 DEF ReleaseArea
  <2>3. QED
    BY <1>1, <2>1, <2>2 DEF TypeOK
<1>2. CASE ~HoldsArea(j)
  BY <1>2 DEF ReleaseArea
<1>3. QED
  BY <1>1, <1>2

\* Both kinds of release keep the area invariants: the slot is kept (jn = journal) or
\* given back with its name.
LEMMA AreaRelease ==
    ASSUME TypeOK, SlotsMatchJobs, AreaInv, NEW j \in Jobs, NEW ok \in BOOLEAN,
           ReleaseArea(j, ok), chunk' = [chunk EXCEPT ![j] = NoChunk],
           UNCHANGED <<api, stale, session>>,
           \/ live' = live /\ slot' = slot /\ journal' = journal
           \/ /\ live' = [live EXCEPT ![j] = FALSE]
              /\ slot' = [slot EXCEPT ![j] = NoSlot]
              /\ journal' \in {journal, journal \ {AreaName(slot[j])}}
              /\ slot[j] = NoSlot => journal' = journal
    PROVE  AreaInv'
<1> USE DEF AreaInv
<1>1. \A i \in Jobs : slot'[i] \in {slot[i], NoSlot} /\ (i # j => slot'[i] = slot[i])
  BY DEF TypeOK
<1>2. \A s : AreaName(s)' = AreaName(s)
  BY DEF AreaName
<1>3. \A i \in Jobs : HoldsArea(i)' <=> (HoldsArea(i) /\ i # j)
  BY TicketsAssumption DEF HoldsArea, TypeOK
<1>4. HoldersLive'
  BY DEF HoldersLive, TypeOK
<1>5. SessionsKept'
  BY DEF SessionsKept
<1>6. SlotJournaled'
  <2> SUFFICES ASSUME NEW i \in Jobs, slot'[i] # NoSlot PROVE AreaName(slot'[i]) \in journal'
    BY <1>2 DEF SlotJournaled, AreaName
  <2>1. slot'[i] = slot[i] /\ AreaName(slot[i]) \in journal
    BY <1>1 DEF SlotJournaled
  <2>2. CASE i = j
    BY <2>1, <2>2, <1>1 DEF TypeOK
  <2>3. CASE i # j /\ slot[j] # NoSlot
    BY <2>1, <2>3, SlotsDiffer
  <2>4. CASE i # j /\ slot[j] = NoSlot
    BY <2>1, <2>4
  <2>5. QED
    BY <2>2, <2>3, <2>4
<1>7. HeldAreaExists'
  <2> SUFFICES ASSUME NEW i \in Jobs, HoldsArea(i), i # j
               PROVE  slot'[i] # NoSlot /\ areas'[AreaName(slot'[i])] = chunk'[i]
    BY <1>2, <1>3 DEF HeldAreaExists, AreaName
  <2>1. slot'[i] = slot[i] /\ slot[i] # NoSlot /\ areas[AreaName(slot[i])] = chunk[i]
        /\ chunk'[i] = chunk[i] /\ slot[i] \in Slots /\ AreaName(slot[i]) \in Names
    BY <1>1, AreaNameType DEF HeldAreaExists, TypeOK
  <2>2. CASE HoldsArea(j)
    <3>1. AreaName(slot[i]) # AreaName(slot[j])
      BY <2>1, <2>2, SlotsDiffer DEF HeldAreaExists
    <3>2. QED
      BY <2>1, <3>1, ReleaseAreaOnly
  <2>3. CASE ~HoldsArea(j)
    BY <2>1, <2>3, ReleaseAreaOnly
  <2>4. QED
    BY <2>2, <2>3
<1>8. IdleAreaUnremoved'
  <2> SUFFICES ASSUME NEW s \in Slots, areas'[AreaName(s)] # NoChunk,
                      AreaName(s) \notin unremoved'
               PROVE  \E i \in Jobs : slot'[i] = s /\ HoldsArea(i) /\ i # j
    BY <1>2, <1>3 DEF IdleAreaUnremoved, AreaName
  <2>1. AreaName(s) \in Names
    BY AreaNameType
  <2>2. areas[AreaName(s)] # NoChunk /\ AreaName(s) \notin unremoved
    BY <2>1, ReleaseAreaOnly
  <2>3. PICK i \in Jobs : slot[i] = s /\ HoldsArea(i)
    BY <2>2 DEF IdleAreaUnremoved
  <2>4. i # j
    BY <2>3, ReleaseAreaOnly
  <2>5. QED
    BY <2>3, <2>4, <1>1
<1>9. NoFutureArea'
  BY ReleaseAreaOnly DEF NoFutureArea
<1>10. QED
  BY <1>4, <1>5, <1>6, <1>7, <1>8, <1>9

\* A fresh process holds nothing and journals nothing; the names it inherits are old.
LEMMA AreaBoot ==
    ASSUME TypeOK, AreaInv, NEW names, names \subseteq journal, Boot(names),
           \A n \in Names : areas'[n] # NoChunk => areas[n] # NoChunk
    PROVE  AreaInv'
<1> USE DEF AreaInv, Boot
<1>1. \A j \in Jobs : chunk'[j] = NoChunk /\ slot'[j] = NoSlot
  OBVIOUS
<1>2. session' = session + 1 /\ session \in Nat
  BY TicketsAssumption DEF TypeOK
<1>3. HoldersLive' /\ SlotJournaled'
  BY <1>1 DEF HoldersLive, SlotJournaled
<1>4. HeldAreaExists'
  BY <1>1 DEF HeldAreaExists, HoldsArea
<1>5. SessionsKept'
  <2>1. \A n \in names : n[1] = session
    BY DEF SessionsKept
  <2>2. QED
    BY <1>2, <2>1 DEF SessionsKept
<1>6. NoFutureArea'
  <2>1. \A n \in Names : n[1] \in Nat
    BY TicketsAssumption DEF Names
  <2>2. QED
    BY <1>2, <2>1 DEF NoFutureArea
<1>7. IdleAreaUnremoved'
  <2> SUFFICES ASSUME NEW s \in Slots, areas'[<<session + 1, s>>] # NoChunk PROVE FALSE
    BY <1>2 DEF IdleAreaUnremoved, AreaName
  <2>1. <<session + 1, s>> \in Names
    BY <1>2, TicketsAssumption DEF Names, TypeOK
  <2>2. session + 1 <= session
    BY <2>1 DEF NoFutureArea
  <2>3. QED
    BY <1>2, <2>2
<1>8. QED
  BY <1>3, <1>4, <1>5, <1>6, <1>7

LEMMA AreaStep ==
    ASSUME TypeOK, SlotsMatchJobs, AreaInv, [Next]_vars
    PROVE  AreaInv'
<1> USE DEF jobVars, nativeVars, legacyVars, bootVars, AreaInv
<1>1. ASSUME UNCHANGED <<chunk, legacyVars, bootVars>>,
             \A j \in Jobs : chunk[j] # NoChunk => live'[j]
      PROVE AreaInv'
  BY <1>1 DEF HoldersLive, SessionsKept, SlotJournaled, HeldAreaExists, IdleAreaUnremoved,
              NoFutureArea, AreaName, HoldsArea
<1>2. ASSUME NEW j \in Jobs, StartJob(j) PROVE AreaInv'
  BY <1>1, <1>2 DEF StartJob, HoldersLive, TypeOK
<1>3. ASSUME NEW j \in Jobs, NoFallback(j) \/ SlotBusy(j) PROVE AreaInv'
  BY <1>1, <1>3 DEF NoFallback, SlotBusy, Asks, HoldersLive, TypeOK
<1>4. ASSUME NEW j \in Jobs, AreaRefused(j) PROVE AreaInv'
  <2>1. PICK s \in SlotFor(j) : journal' = journal \ {AreaName(s)}
    BY <1>4 DEF AreaRefused
  <2>2. s \in Slots /\ \A i \in Jobs \ {j} : slot[i] # s
    BY SlotForOwn
  <2>3. /\ slot' = [slot EXCEPT ![j] = NoSlot]
        /\ live' = [live EXCEPT ![j] = FALSE]
        /\ chunk[j] = NoChunk
        /\ UNCHANGED <<chunk, areas, unremoved, api, stale, session>>
    BY <1>4 DEF AreaRefused, Asks
  <2>4. \A i \in Jobs : HoldsArea(i)' <=> HoldsArea(i) /\ i # j
    BY <2>3 DEF HoldsArea
  <2>5. \A i \in Jobs : i # j => slot'[i] = slot[i]
    BY <2>3 DEF TypeOK
  <2>6. SlotJournaled'
    <3> SUFFICES ASSUME NEW i \in Jobs, slot'[i] # NoSlot
                 PROVE  AreaName(slot'[i]) \in journal'
      BY <2>3 DEF SlotJournaled, AreaName
    <3>1. i # j /\ slot'[i] = slot[i] /\ slot[i] # s
      BY <2>2, <2>3, <2>5 DEF TypeOK
    <3>2. AreaName(slot[i]) \in journal /\ AreaName(slot[i]) # AreaName(s)
      BY <3>1 DEF SlotJournaled, AreaName
    <3>3. QED
      BY <2>1, <3>1, <3>2
  <2>7. HeldAreaExists'
    BY <2>3, <2>4, <2>5 DEF HeldAreaExists, AreaName
  <2>8. IdleAreaUnremoved'
    BY <2>3, <2>4, <2>5 DEF IdleAreaUnremoved, AreaName, HoldsArea
  <2>9. QED
    BY <2>1, <2>3, <2>6, <2>7, <2>8 DEF HoldersLive, SessionsKept, NoFutureArea, TypeOK
<1>5. ASSUME NEW j \in Jobs, ReleaseChunk(j) PROVE AreaInv'
  <2>1. PICK ok \in BOOLEAN : ReleaseArea(j, ok)
    BY <1>5 DEF ReleaseChunk, Outcomes
  <2>2. QED
    BY <1>5, <2>1, AreaRelease DEF ReleaseChunk
<1>6. ASSUME NEW j \in Jobs, EndJob(j) PROVE AreaInv'
  <2>1. PICK ok \in BOOLEAN : ReleaseArea(j, ok)
          /\ journal' = IF slot[j] # NoSlot /\ (~HoldsArea(j) \/ ok)
                          THEN journal \ {AreaName(slot[j])}
                          ELSE journal
    BY <1>6 DEF EndJob, Outcomes
  <2>2. QED
    BY <1>6, <2>1, AreaRelease DEF EndJob
<1>7. ASSUME NEW j \in Jobs, NEW c \in Chunks, ShareHold(j, c) \/ LoadChunk(j, c)
      PROVE AreaInv'
  <2>1. /\ live[j] /\ api = "native" /\ chunk' = [chunk EXCEPT ![j] = c]
        /\ UNCHANGED <<live, legacyVars, bootVars>>
    BY <1>7 DEF ShareHold, LoadChunk, Asks
  <2>2. HoldersLive'
    BY <2>1 DEF HoldersLive, TypeOK
  <2>3. QED
    BY <2>1, <2>2 DEF SessionsKept, SlotJournaled, HeldAreaExists, IdleAreaUnremoved,
                      NoFutureArea, AreaName, HoldsArea
<1>8. ASSUME NEW j \in Jobs, NEW c \in Chunks, LoadRefused(j, c) PROVE AreaInv'
  BY <1>1, <1>8 DEF LoadRefused, Asks, HoldersLive, TypeOK
<1>9. ASSUME NEW j \in Jobs, NEW c \in Chunks, AddArea(j, c) PROVE AreaInv'
  <2>1. PICK s \in SlotFor(j) :
          /\ areas[AreaName(s)] = NoChunk
          /\ slot' = [slot EXCEPT ![j] = s]
          /\ journal' = IF slot[j] = NoSlot THEN journal \cup {AreaName(s)} ELSE journal
          /\ areas' = [areas EXCEPT ![AreaName(s)] = c]
    BY <1>9 DEF AddArea
  <2>2. /\ s \in Slots /\ AreaName(s) \in Names /\ s # NoSlot
        /\ \A i \in Jobs \ {j} : slot[i] # s
        /\ slot[j] # NoSlot => slot[j] = s
    BY SlotForOwn, AreaNameType DEF SlotFor, Slots, NoSlot
  <2>3. /\ live[j] /\ api = "legacy" /\ chunk[j] = NoChunk
        /\ chunk' = [chunk EXCEPT ![j] = c]
        /\ UNCHANGED <<live, unremoved, api, stale, session>>
    BY <1>9 DEF AddArea, Asks
  <2>4. slot'[j] = s /\ chunk'[j] = c /\ c # NoChunk
        /\ \A i \in Jobs : i # j => slot'[i] = slot[i] /\ chunk'[i] = chunk[i]
    BY <2>1, <2>3, TicketsAssumption DEF TypeOK
  <2>5. \A i \in Jobs : HoldsArea(i)' <=> HoldsArea(i) \/ i = j
    BY <2>3, <2>4 DEF HoldsArea
  <2>6. \A t \in Slots : t # s => areas'[AreaName(t)] = areas[AreaName(t)]
    BY <2>1, <2>2, AreaNameType DEF AreaName, TypeOK
  <2>7. areas'[AreaName(s)] = c
    BY <2>1, <2>2 DEF TypeOK
  <2>8. \A t : AreaName(t)' = AreaName(t)
    BY <2>3 DEF AreaName
  <2>9. HoldersLive'
    BY <2>3, <2>4 DEF HoldersLive
  <2>10. SessionsKept'
    BY <2>1, <2>3 DEF SessionsKept, AreaName
  <2>11. SlotJournaled'
    <3> SUFFICES ASSUME NEW i \in Jobs, slot'[i] # NoSlot
                 PROVE  AreaName(slot'[i]) \in journal'
      BY <2>3 DEF SlotJournaled, AreaName
    <3>1. CASE i = j
      BY <3>1, <2>1, <2>2, <2>4 DEF SlotJournaled
    <3>2. CASE i # j
      BY <3>2, <2>1, <2>4 DEF SlotJournaled
    <3>3. QED
      BY <3>1, <3>2
  <2>12. HeldAreaExists'
    <3> SUFFICES ASSUME NEW i \in Jobs, HoldsArea(i) \/ i = j
                 PROVE  slot'[i] # NoSlot /\ areas'[AreaName(slot'[i])] = chunk'[i]
      BY <2>5, <2>3 DEF HeldAreaExists, AreaName
    <3>1. CASE i = j
      BY <3>1, <2>2, <2>4, <2>7
    <3>2. CASE i # j
      <4>1. slot[i] # NoSlot /\ slot[i] \in Slots /\ slot[i] # s
            /\ areas[AreaName(slot[i])] = chunk[i]
        BY <3>2, <2>2 DEF HeldAreaExists, TypeOK
      <4>2. QED
        BY <4>1, <3>2, <2>4, <2>6
    <3>3. QED
      BY <3>1, <3>2
  <2>13. IdleAreaUnremoved'
    <3> SUFFICES ASSUME NEW t \in Slots, areas'[AreaName(t)] # NoChunk,
                        AreaName(t) \notin unremoved
                 PROVE  \E i \in Jobs : slot'[i] = t /\ (HoldsArea(i) \/ i = j)
      BY <2>3, <2>5 DEF IdleAreaUnremoved, AreaName
    <3>1. CASE t = s
      BY <3>1, <2>4
    <3>2. CASE t # s
      <4>1. PICK i \in Jobs : slot[i] = t /\ HoldsArea(i)
        BY <3>2, <2>6 DEF IdleAreaUnremoved
      <4>2. i # j
        BY <4>1, <2>3 DEF HoldsArea
      <4>3. QED
        BY <4>1, <4>2, <2>4
    <3>3. QED
      BY <3>1, <3>2
  <2>14. NoFutureArea'
    <3>1. session <= session
      BY TicketsAssumption DEF TypeOK
    <3>2. QED
      BY <2>1, <2>2, <2>3, <3>1 DEF NoFutureArea, AreaName, TypeOK
  <2>15. QED
    BY <2>9, <2>10, <2>11, <2>12, <2>13, <2>14
<1>10. CASE Tick
  BY <1>1, <1>10 DEF Tick, HoldersLive
<1>11. CASE Cleanup
  <2>1. PICK lost \in SUBSET stale :
          /\ areas' = [n \in Names |-> IF n \in stale \ lost THEN NoChunk ELSE areas[n]]
          /\ unremoved' = (unremoved \ stale) \cup lost
    BY <1>11 DEF Cleanup
  <2>2. stale' = {} /\ UNCHANGED <<jobVars, slot, journal, api, session>>
    BY <1>11 DEF Cleanup
  <2>3. \A s \in Slots : AreaName(s) \in Names /\ AreaName(s) \notin stale
    <3>1. session \in Nat
      BY TicketsAssumption DEF TypeOK
    <3>2. QED
      BY <3>1, AreaNameType DEF AreaName, SessionsKept
  <2>4. \A s \in Slots : /\ areas'[AreaName(s)] = areas[AreaName(s)]
                         /\ AreaName(s) \in unremoved => AreaName(s) \in unremoved'
    BY <2>1, <2>3
  <2>5. HeldAreaExists'
    BY <2>2, <2>4 DEF HeldAreaExists, HoldsArea, AreaName, TypeOK
  <2>6. IdleAreaUnremoved'
    BY <2>2, <2>4 DEF IdleAreaUnremoved, HoldsArea, AreaName
  <2>7. NoFutureArea'
    BY <2>1, <2>2 DEF NoFutureArea
  <2>8. QED
    BY <2>2, <2>5, <2>6, <2>7 DEF HoldersLive, SessionsKept, SlotJournaled, AreaName
<1>12. CASE Crash
  BY <1>12, AreaBoot DEF Crash
<1>13. CASE Restart
  <2>1. PICK lost \in SUBSET {j \in Jobs : HoldsArea(j)} :
          LET tried == {AreaName(slot[j]) : j \in {i \in Jobs : HoldsArea(i)}}
              failed == {AreaName(slot[j]) : j \in lost}
              ended == {AreaName(slot[j]) : j \in {i \in Jobs \ lost : slot[i] # NoSlot}}
          IN /\ areas' = [n \in Names |-> IF n \in tried \ failed THEN NoChunk ELSE areas[n]]
             /\ Boot(journal \ ended)
    BY <1>13 DEF Restart
  <2> DEFINE tried == {AreaName(slot[j]) : j \in {i \in Jobs : HoldsArea(i)}}
             failed == {AreaName(slot[j]) : j \in lost}
             ended == {AreaName(slot[j]) : j \in {i \in Jobs \ lost : slot[i] # NoSlot}}
  <2>2. /\ areas' = [n \in Names |-> IF n \in tried \ failed THEN NoChunk ELSE areas[n]]
        /\ Boot(journal \ ended)
    BY <2>1
  <2> HIDE DEF tried, failed, ended
  <2>3. QED
    BY <2>2, AreaBoot
<1>14. CASE UNCHANGED vars
  BY <1>1, <1>14 DEF vars, HoldersLive
<1>15. QED
  BY <1>2, <1>3, <1>4, <1>5, <1>6, <1>7, <1>8, <1>9, <1>10, <1>11, <1>12, <1>13, <1>14
     DEF Next

----------------------------------------------------------------------------
(* Every area of the world is accounted for, if the server is not stopped before the  *)
(* start-up cleanup has run.                                                          *)

LEMMA AccountedStep ==
    ASSUME StopInCleanupWindow = FALSE,
           TypeOK, SlotsMatchJobs, AreaInv, AreasAccountedFor, [Next]_vars
    PROVE  AreasAccountedFor'
<1> USE DEF jobVars, nativeVars, legacyVars, bootVars
<1>1. ASSUME UNCHANGED <<areas, stale, unremoved, abandoned>>, journal \subseteq journal'
      PROVE AreasAccountedFor'
  BY <1>1 DEF AreasAccountedFor
<1>2. ASSUME NEW j \in Jobs, StartJob(j) \/ NoFallback(j) \/ SlotBusy(j)
      PROVE AreasAccountedFor'
  BY <1>1, <1>2 DEF StartJob, NoFallback, SlotBusy
<1>3. ASSUME NEW j \in Jobs, AreaRefused(j) PROVE AreasAccountedFor'
  \* The name given back: no job holds its area, so an area under it is an unremoved one.
  <2>1. PICK s \in SlotFor(j) : journal' = journal \ {AreaName(s)}
    BY <1>3 DEF AreaRefused
  <2>2. s \in Slots /\ \A i \in Jobs \ {j} : slot[i] # s
    BY SlotForOwn
  <2>3. ~HoldsArea(j) /\ UNCHANGED <<areas, stale, unremoved, abandoned>>
    BY <1>3 DEF AreaRefused, Asks, HoldsArea
  <2>4. areas[AreaName(s)] # NoChunk => AreaName(s) \in unremoved
    BY <2>2, <2>3 DEF AreaInv, IdleAreaUnremoved
  <2>5. QED
    BY <2>1, <2>3, <2>4 DEF AreasAccountedFor
<1>4. ASSUME NEW j \in Jobs, ReleaseChunk(j) PROVE AreasAccountedFor'
  <2>1. PICK ok \in BOOLEAN : ReleaseArea(j, ok)
    BY <1>4 DEF ReleaseChunk, Outcomes
  <2>2. UNCHANGED <<journal, stale, abandoned>>
    BY <1>4 DEF ReleaseChunk
  <2>3. QED
    BY <2>1, <2>2, ReleaseAreaOnly DEF AreasAccountedFor, AreaInv
<1>5. ASSUME NEW j \in Jobs, EndJob(j) PROVE AreasAccountedFor'
  <2>1. PICK ok \in BOOLEAN :
          /\ ReleaseArea(j, ok)
          /\ journal' = IF slot[j] # NoSlot /\ (~HoldsArea(j) \/ ok)
                          THEN journal \ {AreaName(slot[j])}
                          ELSE journal
    BY <1>5 DEF EndJob, Outcomes
  <2>2. stale' = stale /\ abandoned' = abandoned
    BY <1>5 DEF EndJob
  <2> SUFFICES ASSUME NEW n \in Names, areas'[n] # NoChunk
               PROVE  n \in journal' \cup stale \cup unremoved' \cup abandoned
    BY <2>2 DEF AreasAccountedFor
  <2>3. areas[n] # NoChunk /\ (n \in unremoved => n \in unremoved')
    BY <2>1, ReleaseAreaOnly DEF AreaInv
  <2>4. n \in journal \cup stale \cup unremoved \cup abandoned
    BY <2>3 DEF AreasAccountedFor
  <2>5. CASE slot[j] = NoSlot \/ n # AreaName(slot[j])
    BY <2>1, <2>3, <2>4, <2>5
  <2>6. CASE slot[j] # NoSlot /\ n = AreaName(slot[j]) /\ HoldsArea(j)
    BY <2>1, <2>6, ReleaseAreaOnly DEF AreaInv
  <2>7. CASE slot[j] # NoSlot /\ n = AreaName(slot[j]) /\ ~HoldsArea(j)
    <3>1. slot[j] \in Slots /\ \A i \in Jobs \ {j} : slot[i] # slot[j]
      BY <2>7, SlotsDiffer DEF TypeOK, NoSlot
    <3>2. n \in unremoved
      BY <2>3, <2>7, <3>1 DEF AreaInv, IdleAreaUnremoved
    <3>3. QED
      BY <2>3, <3>2
  <2>8. QED
    BY <2>5, <2>6, <2>7
<1>6. ASSUME NEW j \in Jobs, NEW c \in Chunks,
             ShareHold(j, c) \/ LoadChunk(j, c) \/ LoadRefused(j, c)
      PROVE AreasAccountedFor'
  BY <1>1, <1>6 DEF ShareHold, LoadChunk, LoadRefused
<1>7. ASSUME NEW j \in Jobs, NEW c \in Chunks, AddArea(j, c) PROVE AreasAccountedFor'
  <2>1. PICK s \in SlotFor(j) :
          /\ journal' = IF slot[j] = NoSlot THEN journal \cup {AreaName(s)} ELSE journal
          /\ areas' = [areas EXCEPT ![AreaName(s)] = c]
    BY <1>7 DEF AddArea
  <2>2. AreaName(s) \in journal'
    BY <2>1 DEF AreaInv, SlotJournaled, SlotFor
  <2>3. UNCHANGED <<stale, unremoved, abandoned>>
    BY <1>7 DEF AddArea
  <2>4. QED
    BY <2>1, <2>2, <2>3 DEF AreasAccountedFor, TypeOK
<1>8. CASE Tick
  BY <1>1, <1>8 DEF Tick
<1>9. CASE Cleanup
  <2>1. PICK lost \in SUBSET stale :
          /\ areas' = [n \in Names |-> IF n \in stale \ lost THEN NoChunk ELSE areas[n]]
          /\ unremoved' = (unremoved \ stale) \cup lost
    BY <1>9 DEF Cleanup
  <2>2. stale' = {} /\ journal' = journal /\ abandoned' = abandoned
    BY <1>9 DEF Cleanup
  <2>3. QED
    BY <2>1, <2>2 DEF AreasAccountedFor
<1>10. CASE Crash
  BY <1>10 DEF Crash, MayStop, Boot, AreasAccountedFor
<1>11. CASE Restart
  <2>1. PICK lost \in SUBSET {j \in Jobs : HoldsArea(j)} :
          LET tried == {AreaName(slot[j]) : j \in {i \in Jobs : HoldsArea(i)}}
              failed == {AreaName(slot[j]) : j \in lost}
              ended == {AreaName(slot[j]) : j \in {i \in Jobs \ lost : slot[i] # NoSlot}}
          IN /\ areas' = [n \in Names |-> IF n \in tried \ failed THEN NoChunk ELSE areas[n]]
             /\ unremoved' = (unremoved \ tried) \cup failed
             /\ Boot(journal \ ended)
    BY <1>11 DEF Restart
  <2> DEFINE tried == {AreaName(slot[j]) : j \in {i \in Jobs : HoldsArea(i)}}
             failed == {AreaName(slot[j]) : j \in lost}
             ended == {AreaName(slot[j]) : j \in {i \in Jobs \ lost : slot[i] # NoSlot}}
  <2>2. /\ areas' = [n \in Names |-> IF n \in tried \ failed THEN NoChunk ELSE areas[n]]
        /\ unremoved' = (unremoved \ tried) \cup failed
        /\ stale' = journal \ ended
        /\ abandoned' = IF fallback THEN abandoned ELSE abandoned \cup stale
    BY <2>1 DEF Boot
  <2>3. fallback => stale = {}
    BY <1>11 DEF Restart, MayStop
  <2> SUFFICES ASSUME NEW n \in Names, areas'[n] # NoChunk, n \notin abandoned'
               PROVE  n \in stale' \cup unremoved'
    BY DEF AreasAccountedFor
  <2>4. areas[n] # NoChunk /\ n \notin tried \ failed
    BY <2>2
  <2>5. n \in journal \/ n \in unremoved
    BY <2>2, <2>3, <2>4 DEF AreasAccountedFor
  <2>6. CASE n \in failed \/ n \notin tried \cup ended
    BY <2>2, <2>4, <2>5, <2>6
  <2>7. CASE n \in ended /\ n \notin tried
    <3>1. PICK j \in Jobs : slot[j] # NoSlot /\ n = AreaName(slot[j])
      BY <2>7
    <3>2. ~HoldsArea(j)
      BY <3>1, <2>7
    <3>3. slot[j] \in Slots /\ \A i \in Jobs \ {j} : slot[i] # slot[j]
      BY <3>1, SlotsDiffer DEF TypeOK, NoSlot
    <3>4. n \in unremoved
      BY <2>4, <3>1, <3>2, <3>3 DEF AreaInv, IdleAreaUnremoved
    <3>5. QED
      BY <2>2, <2>7, <3>4
  <2>8. QED
    BY <2>4, <2>6, <2>7
<1>12. CASE UNCHANGED vars
  BY <1>1, <1>12 DEF vars
<1>13. QED
  BY <1>2, <1>3, <1>4, <1>5, <1>6, <1>7, <1>8, <1>9, <1>10, <1>11, <1>12 DEF Next

----------------------------------------------------------------------------
(* The theorems. *)

LEMMA InitInv ==
    ASSUME Init
    PROVE  TypeOK /\ SlotsMatchJobs /\ HoldsCountOwners /\ AreaInv /\ AreasAccountedFor
<1> USE TicketsAssumption DEF Init
<1>1. TypeOK
  BY DEF TypeOK
<1>2. SlotsMatchJobs
  BY DEF SlotsMatchJobs, NoSlot, Slots
<1>3. HoldsCountOwners
  <2>1. \A c \in Chunks : Owners(c) = {}
    BY DEF Owners
  <2>2. \A c \in Chunks : holds[c] = 0
    OBVIOUS
  <2> HIDE DEF Init
  <2>3. QED
    BY <2>1, <2>2, FS_EmptySet DEF HoldsCountOwners
<1>4. AreaInv
  BY <1>1, AreaNameType DEF AreaInv, HoldersLive, SessionsKept, SlotJournaled, HeldAreaExists,
     IdleAreaUnremoved, NoFutureArea, HoldsArea
<1>5. QED
  BY <1>1, <1>2, <1>3, <1>4 DEF AreasAccountedFor

\* TypeOK, the slots and the areas depend on one another and are proved together.
LEMMA CoreInvariant == Spec => [](TypeOK /\ SlotsMatchJobs /\ AreaInv)
<1>1. Init => TypeOK /\ SlotsMatchJobs /\ AreaInv
  BY InitInv
<1>2. TypeOK /\ SlotsMatchJobs /\ AreaInv /\ [Next]_vars => (TypeOK /\ SlotsMatchJobs /\ AreaInv)'
  BY TypeStep, SlotsStep, AreaStep DEF AreaInv
<1>3. QED
  BY <1>1, <1>2, PTL DEF Spec

\* Every variable of the ticket layer keeps its type.
THEOREM TicketsTypeCorrect == Spec => []TypeOK
<1>1. QED
  BY CoreInvariant, PTL

\* Slot table and jobs always agree: no slot has two jobs, none is left behind by a job
\* that ended (_allocate_legacy_ticket_slot, _release_job_chunk).
THEOREM SlotsAlwaysMatchJobs == Spec => []SlotsMatchJobs
<1>1. QED
  BY CoreInvariant, PTL

\* The count kept in _native_chunk_holds is the number of jobs holding the chunk, and a
\* counted chunk stays loaded, whatever the interleaving of the jobs and whatever the
\* server answers to a release.
THEOREM HoldsAlwaysCountOwners == Spec => []HoldsCountOwners
<1>1. Init => HoldsCountOwners
  BY InitInv
<1>2. TypeOK /\ HoldsCountOwners /\ [Next]_vars => HoldsCountOwners'
  BY HoldsStep
<1>3. QED
  BY <1>1, <1>2, CoreInvariant, PTL DEF Spec

\* A job that owns a ticking area has it, on the chunk it works on: neither another job
\* nor the cleanup of an older process's areas takes it away.
THEOREM HeldAreasExist == Spec => []HeldAreaExists
<1>1. AreaInv => HeldAreaExists
  BY DEF AreaInv
<1>2. QED
  BY <1>1, CoreInvariant, PTL

\* The area of every running job is journaled at every moment a crash may strike.
THEOREM HeldAreasJournaled == Spec => []HeldAreaJournaled
<1>1. AreaInv => HeldAreaJournaled
  BY DEF AreaInv, HeldAreaJournaled, HeldAreaExists, SlotJournaled
<1>2. QED
  BY <1>1, CoreInvariant, PTL

\* If the start-up cleanup is given its 40 ticks, only an area the server failed to
\* remove, or one inherited by a process with the fallback off, is ever lost track of,
\* across any number of crashes and restarts and whatever their configurations.
THEOREM AreasAlwaysAccountedFor ==
    ASSUME StopInCleanupWindow = FALSE
    PROVE  Spec => []AreasAccountedFor
<1>1. Init => AreasAccountedFor
  BY InitInv
<1>2. TypeOK /\ SlotsMatchJobs /\ AreaInv /\ AreasAccountedFor /\ [Next]_vars => AreasAccountedFor'
  BY AccountedStep
<1>3. QED
  BY <1>1, <1>2, CoreInvariant, PTL DEF Spec
=============================================================================
