------------------------- MODULE PlayerSessionProofs -------------------------
(***************************************************************************)
(* Proofs about PlayerSession for any number of players, submitted          *)
(* operations, threads, poses and record stores.                            *)
(***************************************************************************)
EXTENDS PlayerSession, FiniteSetTheorems, SequenceTheorems, TLAPS

TaskRecord == Preparation \cup Loading \cup {NoTask}

\* What owns a record store: a placement, the placement taken by a preparation, a paste job
\* its plan, and the closure of a finished operation the store it returned.
Kinds == {"placed", "pending", "plan", "result"}
Holders(kind) == IF kind = "result" THEN Tasks ELSE Players

Own(kind, x) ==
    CASE kind = "placed" -> placements[x]
      [] kind = "pending" -> IF preparing[x] = None THEN None ELSE preparing[x].placement
      [] kind = "plan" -> IF pasting[x] = None THEN None ELSE pasting[x].plan
      [] kind = "result" -> IF Submitted(x) THEN task[x].result ELSE None

\* A store with an owner is open and has no other.
OwnedOnce ==
    \A k \in Kinds : \A x \in Holders(k) : Own(k, x) # None =>
      /\ Own(k, x) \in Stores /\ pose[Own(k, x)] # None
      /\ \A l \in Kinds : \A y \in Holders(l) : Own(l, y) = Own(k, x) => l = k /\ y = x

\* A player has one activity, none once the plugin stopped, and a plan is for its job's pose.
ActivityAgrees(p) ==
    /\ p \in saving => pasting[p] = None /\ preparing[p] = None
    /\ pasting[p] # None => preparing[p] = None
    /\ Own("plan", p) # None => pasting[p].pose = pose[Own("plan", p)]
    /\ stopping => /\ placements[p] = None /\ preparing[p] = None
                   /\ p \notin saving /\ pasting[p] = None

\* A preparation nobody waits for any more finds its placement closed.
TaskAgrees(t) ==
    Submitted(t) =>
      /\ task[t].state = "done" <=> task[t].result # None
      /\ task[t].kind = "prepare" /\ ~StillWanted(t) => pose[task[t].schematic] = None

\* A token stands for the player's own task, which reads the placement that was taken and
\* returns a plan for the pose it has.
RequestAgrees(p) ==
    preparing[p] # None =>
      LET t == preparing[p].token
      IN /\ Submitted(t) /\ task[t].kind = "prepare" /\ task[t].player = p
         /\ task[t].schematic = preparing[p].placement
         /\ task[t].state = "done" => pose[task[t].result] = pose[task[t].schematic]
         /\ t \notin withdrawn

\* What is queued has not begun, and is queued once.
WaitingAgrees ==
    \A i \in DOMAIN waiting :
      /\ Submitted(waiting[i]) /\ task[waiting[i]].state = "queued"
      /\ \A j \in DOMAIN waiting : waiting[i] = waiting[j] => i = j

IInv ==
    /\ TypeOK /\ OwnedOnce /\ WaitingAgrees
    /\ \A p \in Players : ActivityAgrees(p) /\ RequestAgrees(p)
    /\ \A t \in Tasks : TaskAgrees(t)
    /\ \A t \in withdrawn : Submitted(t)

----------------------------------------------------------------------------
(* None, stores and tasks. *)

LEMMA NoneFacts ==
    /\ None \notin Stores /\ None \notin Tasks /\ None \notin Poses
    /\ None # "prepare" /\ None # "load"
    /\ \A r \in Request : r # None
    /\ \A j \in Job : j # None
<1>1. Stores \subseteq Nat /\ Tasks \subseteq Nat
  BY SessionAssumption DEF Stores, Tasks
<1>2. QED
  BY <1>1, SessionAssumption

LEMMA TaskFacts ==
    ASSUME NEW r \in TaskRecord
    PROVE  /\ r.kind = None => r = NoTask
           /\ r.kind # None => r \in Preparation \cup Loading
           /\ r.kind = "prepare" => r \in Preparation
           /\ r.kind = "load" => r \in Loading
           /\ r \in Preparation => r.kind = "prepare"
           /\ r \in Loading => r.kind = "load"
           /\ r = NoTask => r.kind = None
BY NoneFacts DEF TaskRecord, Preparation, Loading, NoTask

LEMMA PreparationFields ==
    ASSUME NEW r \in Preparation
    PROVE  /\ r.kind = "prepare" /\ r.player \in Players /\ r.schematic \in Stores
           /\ r.state \in {"queued", "running", "unreadable", "done", "failed"}
           /\ r.result \in Stores \cup {None}
BY DEF Preparation

LEMMA LoadingFields ==
    ASSUME NEW r \in Loading
    PROVE  /\ r.kind = "load" /\ r.player \in Players /\ r.schematic = None
           /\ r.state \in {"queued", "running", "done", "failed"}
           /\ r.result \in Stores \cup {None}
BY DEF Loading

\* What the steps of the executor make of a task.
LEMMA TaskChanges ==
    ASSUME NEW r \in TaskRecord, r.kind # None,
           NEW x \in {"running", "done", "failed"}, NEW s \in Stores
    PROVE  /\ [r EXCEPT !.state = x] \in TaskRecord
           /\ [r EXCEPT !.state = x, !.result = s] \in TaskRecord
           /\ r.kind = "prepare" => [r EXCEPT !.state = "unreadable"] \in TaskRecord
<1>1. CASE r \in Preparation
  BY <1>1 DEF Preparation, TaskRecord
<1>2. CASE r \in Loading
  BY <1>2, PreparationFields DEF Loading, TaskRecord
<1>3. QED
  BY <1>1, <1>2, TaskFacts

LEMMA OwnType ==
    ASSUME TypeOK, NEW k \in Kinds, NEW x \in Holders(k)
    PROVE  Own(k, x) \in Stores \cup {None}
<1>1. CASE k = "placed"
  BY <1>1 DEF TypeOK, Holders, Own
<1>2. CASE k = "pending"
  BY <1>2 DEF TypeOK, Holders, Own, Request
<1>3. CASE k = "plan"
  BY <1>3 DEF TypeOK, Holders, Own, Job
<1>4. CASE k = "result"
  <2>1. x \in Tasks /\ task[x] \in TaskRecord
    BY <1>4 DEF TypeOK, Holders, TaskRecord
  <2>2. CASE Submitted(x)
    <3>1. task[x].result \in Stores \cup {None}
      BY <2>1, <2>2, TaskFacts, PreparationFields, LoadingFields DEF Submitted
    <3>2. QED
      BY <1>4, <2>2, <3>1 DEF Own
  <2>3. CASE ~Submitted(x)
    BY <1>4, <2>3 DEF Own
  <2>4. QED
    BY <2>2, <2>3
<1>5. QED
  BY <1>1, <1>2, <1>3, <1>4 DEF Kinds

\* The lowest of the unused numbers exists.
LEMMA NewStoreUnused ==
    ASSUME Unused # {}
    PROVE  NewStore \in Unused
<1>1. Unused \subseteq Nat
  BY SessionAssumption DEF Unused, Stores
<1>2. Stores \subseteq Nat /\ IsFiniteSet(Stores)
  BY SessionAssumption, FS_Interval DEF Stores
<1> DEFINE Upto(s) == 1 .. s
           initial == {Upto(s) : s \in Unused}
           order == StrictSubsetOrdering(Stores)
<1>3. /\ initial \subseteq SUBSET Stores /\ initial # {}
      /\ \A i, j \in SUBSET Stores : i \subseteq j /\ i # j => <<i, j>> \in order
  <2>1. ASSUME NEW s \in Unused
        PROVE  Upto(s) \subseteq Stores
    BY <2>1, SessionAssumption DEF Unused, Stores
  <2>2. initial \subseteq SUBSET Stores
    BY <2>1
  <2>3. \A i, j \in SUBSET Stores : i \subseteq j /\ i # j => <<i, j>> \in order
    BY DEF StrictSubsetOrdering
  <2>4. QED
    BY <2>2, <2>3
<1>4. IsWellFoundedOn(order, SUBSET Stores)
  BY <1>2, FS_StrictSubsetOrderingWellFounded, FS_FiniteSubsetsOfFinite
<1> HIDE DEF order, initial
<1>5. PICK i \in initial : \A j \in initial : <<j, i>> \notin order
  BY <1>3, <1>4, WFMin
<1>6. PICK s \in Unused : i = Upto(s)
  BY <1>5 DEF initial
<1>7. ASSUME NEW u \in Unused, u < s
      PROVE  FALSE
  <2>1. u \in Nat /\ s \in Nat /\ s \in Upto(s) /\ s \notin Upto(u) /\ Upto(u) \subseteq Upto(s)
    BY <1>7, <1>2 DEF Unused, Stores
  <2>2. Upto(u) \in initial
    BY DEF initial
  <2>3. QED
    BY <1>3, <1>5, <1>6, <2>1, <2>2
<1>8. \A u \in Unused : s <= u
  BY <1>1, <1>7
<1>9. QED
  BY <1>8 DEF NewStore

----------------------------------------------------------------------------
(* How ownership changes. *)

\* Stores lose owners, and one of them may pass from an owner to another.
LEMMA OwnersMove ==
    ASSUME OwnedOnce,
           NEW toKind \in Kinds, NEW to \in Holders(toKind),
           NEW fromKind \in Kinds, NEW from \in Holders(fromKind),
           \A k \in Kinds : \A x \in Holders(k) :
             \/ Own(k, x)' = None
             \/ Own(k, x)' = Own(k, x) /\ pose'[Own(k, x)] # None
             \/ k = toKind /\ x = to /\ Own(k, x)' = Own(fromKind, from)
                  /\ pose'[Own(fromKind, from)] # None,
           Own(fromKind, from)' = None \/ (toKind = fromKind /\ to = from)
    PROVE  OwnedOnce'
<1>1. SUFFICES ASSUME NEW k \in Kinds, NEW x \in Holders(k), Own(k, x)' # None
               PROVE  /\ Own(k, x)' \in Stores /\ pose'[Own(k, x)'] # None
                      /\ \A l \in Kinds : \A y \in Holders(l) :
                           Own(l, y)' = Own(k, x)' => l = k /\ y = x
  BY DEF OwnedOnce, Holders, Kinds
<1>2. Own(k, x)' \in Stores /\ pose'[Own(k, x)'] # None
  BY <1>1 DEF OwnedOnce
<1>3. ASSUME NEW l \in Kinds, NEW y \in Holders(l), Own(l, y)' = Own(k, x)'
      PROVE  l = k /\ y = x
  BY <1>1, <1>3 DEF OwnedOnce
<1>4. QED
  BY <1>2, <1>3

LEMMA OwnValues ==
    /\ \A x : /\ Own("placed", x) = placements[x]
              /\ Own("pending", x) = IF preparing[x] = None THEN None ELSE preparing[x].placement
              /\ Own("plan", x) = IF pasting[x] = None THEN None ELSE pasting[x].plan
              /\ Own("result", x) = IF task[x].kind # None THEN task[x].result ELSE None
    /\ \A x : /\ Own("placed", x)' = placements'[x]
              /\ Own("pending", x)' = IF preparing'[x] = None THEN None ELSE preparing'[x].placement
              /\ Own("plan", x)' = IF pasting'[x] = None THEN None ELSE pasting'[x].plan
              /\ Own("result", x)' = IF task'[x].kind # None THEN task'[x].result ELSE None
BY DEF Own, Submitted

LEMMA HolderFacts ==
    /\ Kinds = {"placed", "pending", "plan", "result"}
    /\ Holders("placed") = Players /\ Holders("pending") = Players
    /\ Holders("plan") = Players /\ Holders("result") = Tasks
BY DEF Kinds, Holders

\* The one a token belongs to.
LEMMA WantedFacts ==
    ASSUME NEW t \in Tasks
    PROVE  /\ StillWanted(t) <=> /\ preparing[task[t].player] # None
                                 /\ preparing[task[t].player].token = t
           /\ StillWanted(t)' <=> /\ preparing'[task'[t].player] # None
                                  /\ preparing'[task'[t].player].token = t
BY DEF StillWanted, Requested

\* What a task looks like after its state alone may have changed.
SameButFailed(t) ==
    \/ task'[t] = task[t]
    \/ /\ task[t].kind # None /\ task[t].state = "queued"
       /\ task'[t] = [task[t] EXCEPT !.state = "failed"]

LEMMA SameButFailedFields ==
    ASSUME TypeOK, NEW t \in Tasks, SameButFailed(t)
    PROVE  /\ task'[t].kind = task[t].kind
           /\ task[t].kind # None =>
                /\ task'[t].player = task[t].player /\ task'[t].schematic = task[t].schematic
                /\ task'[t].result = task[t].result
                /\ task'[t].state = "done" <=> task[t].state = "done"
<1>1. task[t] \in TaskRecord
  BY DEF TypeOK, TaskRecord
<1>2. CASE task'[t] = task[t]
  BY <1>2
<1>3. CASE /\ task[t].kind # None /\ task[t].state = "queued"
           /\ task'[t] = [task[t] EXCEPT !.state = "failed"]
  <2>1. task[t] \in Preparation \cup Loading
    BY <1>1, <1>3, TaskFacts
  <2>2. QED
    BY <1>3, <2>1 DEF Preparation, Loading
<1>4. QED
  BY <1>2, <1>3 DEF SameButFailed

\* Every way to give something up: players lose placements, preparations and jobs, all of
\* whose stores are closed, and requests still in the queue fail at most.
LEMMA GivingUp ==
    ASSUME IInv, NEW C,
           Close(C),
           \A q \in Players :
             /\ placements'[q] = placements[q] \/ placements'[q] = None
             /\ preparing'[q] = preparing[q] \/ preparing'[q] = None
             /\ pasting'[q] = pasting[q] \/ pasting'[q] = None
             /\ q \in saving' => q \in saving
             /\ preparing'[q] = None => preparing[q] = None \/ preparing[q].placement \in C
             /\ stopping' => \/ stopping
                             \/ /\ placements'[q] = None /\ preparing'[q] = None
                                /\ q \notin saving' /\ pasting'[q] = None,
           \A s \in C : \E q \in Players :
             \/ s = placements[q] /\ placements'[q] = None
             \/ preparing[q] # None /\ s = preparing[q].placement /\ preparing'[q] = None
             \/ pasting[q] # None /\ s = pasting[q].plan /\ pasting'[q] = None,
           \A t \in withdrawn' :
             \/ t \in withdrawn
             \/ \E q \in Players : /\ preparing[q] # None /\ preparing[q].token = t
                                   /\ preparing'[q] = None,
           \A t \in Tasks : SameButFailed(t)
    PROVE  /\ OwnedOnce'
           /\ \A q \in Players : (ActivityAgrees(q) /\ RequestAgrees(q))'
           /\ \A t \in Tasks : TaskAgrees(t)'
           /\ \A t \in withdrawn' : Submitted(t)'
<1> USE NoneFacts
<1>1. TypeOK /\ OwnedOnce
  BY DEF IInv
<1>2. \A s \in Stores : pose'[s] = IF s \in C THEN None ELSE pose[s]
  BY DEF Close
<1>3. \A t \in Tasks : /\ task'[t].kind = task[t].kind
                       /\ task[t].kind # None =>
                            /\ task'[t].player = task[t].player
                            /\ task'[t].schematic = task[t].schematic
                            /\ task'[t].result = task[t].result
                            /\ task'[t].state = "done" <=> task[t].state = "done"
  BY <1>1, SameButFailedFields
<1>4. \A k \in Kinds : \A x \in Holders(k) : Own(k, x)' = None \/ Own(k, x)' = Own(k, x)
  BY <1>3, OwnValues, HolderFacts
<1>5. \A s \in C : \E k \in Kinds : \E x \in Holders(k) : Own(k, x) = s /\ Own(k, x)' = None
  BY OwnValues, HolderFacts
<1>6. ASSUME NEW k \in Kinds, NEW x \in Holders(k), Own(k, x)' # None
      PROVE  Own(k, x)' = Own(k, x) /\ Own(k, x) \notin C /\ Own(k, x) \in Stores
  BY <1>1, <1>4, <1>5, <1>6 DEF OwnedOnce
<1>7. \A k \in Kinds : \A x \in Holders(k) :
        Own(k, x)' # None => pose'[Own(k, x)] = pose[Own(k, x)] /\ pose[Own(k, x)] # None
  BY <1>1, <1>2, <1>6 DEF OwnedOnce
<1>8. OwnedOnce'
  BY <1>1, <1>6, <1>7 DEF OwnedOnce
<1>9. ASSUME NEW q \in Players
      PROVE  ActivityAgrees(q)'
  <2>1. ActivityAgrees(q)
    BY DEF IInv
  <2>2. Own("plan", q)' # None =>
          /\ Own("plan", q)' = Own("plan", q) /\ pose'[Own("plan", q)] = pose[Own("plan", q)]
          /\ pasting'[q] = pasting[q]
    BY <1>6, <1>7, OwnValues, HolderFacts
  <2>3. QED
    BY <2>1, <2>2 DEF ActivityAgrees
<1>10. ASSUME NEW q \in Players, preparing'[q] # None
       PROVE  RequestAgrees(q)'
  <2>0. PICK t : t = preparing[q].token
    OBVIOUS
  <2>1. preparing'[q] = preparing[q] /\ RequestAgrees(q) /\ preparing[q] \in Request
    BY <1>1, <1>10 DEF IInv, TypeOK
  <2>2. t \in Tasks
    BY <2>0, <2>1 DEF Request
  <2>3. /\ task[t].kind = "prepare" /\ task[t].player = q
        /\ task[t].schematic = preparing[q].placement
        /\ task[t].state = "done" => pose[task[t].result] = pose[task[t].schematic]
        /\ t \notin withdrawn
    BY <1>10, <2>0, <2>1 DEF RequestAgrees
  <2>4. pose'[task[t].schematic] = pose[task[t].schematic]
    <3>1. preparing[q].placement \in Stores /\ preparing'[q].placement = preparing[q].placement
      BY <2>1 DEF Request
    <3>2. Own("pending", q) = preparing[q].placement /\ Own("pending", q)' = preparing[q].placement
      BY <1>10, <2>1, <3>1, OwnValues
    <3>3. "pending" \in Kinds /\ q \in Holders("pending")
      BY HolderFacts
    <3>4. QED
      BY <1>7, <2>3, <3>1, <3>2, <3>3
  <2>5. task[t].state = "done" => pose'[task[t].result] = pose[task[t].result]
    <3>1. TaskAgrees(t)
      BY <2>2 DEF IInv
    <3>2. task[t].kind # None /\ task'[t].kind # None /\ task'[t].result = task[t].result
      BY <1>3, <2>2, <2>3
    <3>3. Own("result", t) = task[t].result /\ Own("result", t)' = task'[t].result
      BY <3>2, OwnValues
    <3>4. task[t].state = "done" => task[t].result # None
      BY <3>1, <3>2 DEF TaskAgrees, Submitted
    <3>5. "result" \in Kinds /\ t \in Holders("result")
      BY <2>2, HolderFacts
    <3>6. Own("result", t)' # None => pose'[Own("result", t)] = pose[Own("result", t)]
      BY <1>7, <3>5
    <3>7. QED
      BY <3>2, <3>3, <3>4, <3>6
  <2>6. t \notin withdrawn'
    <3>1. SUFFICES ASSUME NEW r \in Players, preparing[r] # None, preparing[r].token = t,
                          preparing'[r] = None
                   PROVE  FALSE
      BY <2>3
    <3>2. task[t].player = r
      BY <3>1 DEF IInv, RequestAgrees
    <3>3. QED
      BY <1>10, <2>3, <3>1, <3>2
  <2>7. QED
    BY <1>3, <2>0, <2>1, <2>2, <2>3, <2>4, <2>5, <2>6 DEF RequestAgrees, Submitted
<1>11. \A q \in Players : RequestAgrees(q)'
  BY <1>10 DEF RequestAgrees
<1>12. ASSUME NEW t \in Tasks, Submitted(t)
       PROVE  TaskAgrees(t)'
  <2>1. TaskAgrees(t) /\ task[t] \in Preparation \cup Loading
    BY <1>1, <1>12, TaskFacts DEF IInv, TypeOK, TaskRecord, Submitted
  <2>2. task'[t].state = "done" <=> task'[t].result # None
    BY <1>3, <1>12, <2>1 DEF TaskAgrees, Submitted
  <2>3. ASSUME task[t].kind = "prepare", ~StillWanted(t)'
        PROVE  pose'[task[t].schematic] = None
    <3>1. task[t].schematic \in Stores /\ task[t].player \in Players
      BY <2>1, <2>3, TaskFacts, PreparationFields DEF TaskRecord
    <3>2. CASE StillWanted(t)
      <4>1. preparing[task[t].player] # None /\ preparing[task[t].player].token = t
        BY <3>2, WantedFacts
      <4>2. preparing'[task[t].player] = None
        BY <1>3, <1>12, <2>3, <3>1, <4>1, WantedFacts DEF Submitted
      <4>3. task[t].schematic = preparing[task[t].player].placement
        BY <3>1, <4>1 DEF IInv, RequestAgrees
      <4>4. QED
        BY <1>2, <3>1, <4>1, <4>2, <4>3
    <3>3. CASE ~StillWanted(t)
      BY <1>2, <1>12, <2>1, <2>3, <3>1, <3>3 DEF TaskAgrees
    <3>4. QED
      BY <3>2, <3>3
  <2>4. QED
    BY <1>3, <1>12, <2>2, <2>3 DEF TaskAgrees, Submitted
<1>13. \A t \in Tasks : TaskAgrees(t)'
  BY <1>3, <1>12 DEF TaskAgrees, Submitted
<1>14. ASSUME NEW t \in withdrawn'
       PROVE  Submitted(t)'
  <2>1. CASE t \in withdrawn
    BY <1>1, <1>3, <2>1 DEF IInv, TypeOK, Submitted
  <2>2. CASE \E q \in Players : preparing[q] # None /\ preparing[q].token = t
    <3>1. PICK q \in Players : preparing[q] # None /\ preparing[q].token = t
      BY <2>2
    <3>2. t \in Tasks /\ Submitted(t)
      BY <1>1, <3>1 DEF IInv, TypeOK, RequestAgrees, Request
    <3>3. QED
      BY <1>3, <3>2 DEF Submitted
  <2>3. QED
    BY <1>14, <2>1, <2>2
<1>15. QED
  BY <1>8, <1>9, <1>11, <1>13, <1>14

----------------------------------------------------------------------------
(* The steps that give something up. *)

\* One player gives up some of what is theirs, and those stores are closed.
LEMMA PlayerGivesUp ==
    ASSUME IInv, NEW p \in Players, NEW C,
           Close(C), task' = task, waiting' = waiting, completions' = completions,
           stopping' = stopping, allowed' = allowed, online' \subseteq online,
           placements' \in {placements, [placements EXCEPT ![p] = None]},
           preparing' \in {preparing, [preparing EXCEPT ![p] = None]},
           pasting' \in {pasting, [pasting EXCEPT ![p] = None]},
           saving' \in {saving, saving \ {p}},
           preparing'[p] = None => Pending(p) \subseteq C,
           \A s \in C : \/ s \in Placed(p) /\ placements'[p] = None
                        \/ s \in Pending(p) /\ preparing'[p] = None
                        \/ s \in Plan(p) /\ pasting'[p] = None,
           withdrawn' = withdrawn \cup (IF preparing'[p] = None THEN Requested(p) ELSE {})
    PROVE  IInv'
<1>1. TypeOK
  BY DEF IInv
<1>2. \A q \in Players :
        /\ placements'[q] = placements[q] \/ placements'[q] = None
        /\ preparing'[q] = preparing[q] \/ preparing'[q] = None
        /\ pasting'[q] = pasting[q] \/ pasting'[q] = None
        /\ q \in saving' => q \in saving
        /\ preparing'[q] = None => preparing[q] = None \/ preparing[q].placement \in C
  BY <1>1 DEF TypeOK, Pending
<1>3. \A s \in C :
        \/ s = placements[p] /\ placements'[p] = None
        \/ preparing[p] # None /\ s = preparing[p].placement /\ preparing'[p] = None
        \/ pasting[p] # None /\ s = pasting[p].plan /\ pasting'[p] = None
  BY DEF Placed, Pending, Plan
<1>4. \A t \in withdrawn' :
        \/ t \in withdrawn
        \/ preparing[p] # None /\ preparing[p].token = t /\ preparing'[p] = None
  BY DEF Requested
<1>5. TypeOK'
  <2>1. withdrawn' \subseteq Tasks
    BY <1>1 DEF TypeOK, Requested, Request
  <2>2. pose' \in [Stores -> Poses \cup {None}]
    BY <1>1 DEF TypeOK, Close
  <2>3. /\ placements' \in [Players -> Stores \cup {None}]
        /\ preparing' \in [Players -> Request \cup {None}]
        /\ pasting' \in [Players -> Job \cup {None}] /\ saving' \subseteq Players
    BY <1>1 DEF TypeOK
  <2>4. QED
    BY <1>1, <2>1, <2>2, <2>3 DEF TypeOK
<1>6. \A t \in Tasks : SameButFailed(t)
  BY DEF SameButFailed
<1>7. WaitingAgrees'
  BY DEF IInv, WaitingAgrees, Submitted
<1>8. /\ OwnedOnce'
      /\ \A q \in Players : (ActivityAgrees(q) /\ RequestAgrees(q))'
      /\ \A t \in Tasks : TaskAgrees(t)'
      /\ \A t \in withdrawn' : Submitted(t)'
  BY <1>2, <1>3, <1>4, <1>6, GivingUp
<1>9. QED
  BY <1>5, <1>7, <1>8 DEF IInv

LEMMA CancelPlacementKeeps ==
    ASSUME IInv, NEW p \in Players, CancelPlacement(p)
    PROVE  IInv'
<1>1. TypeOK
  BY DEF IInv
<1>2. Close(Placed(p))
  BY DEF CancelPlacement
<1>3. \A s \in Placed(p) :
        \/ s \in Placed(p) /\ placements'[p] = None
        \/ s \in Pending(p) /\ preparing'[p] = None
        \/ s \in Plan(p) /\ pasting'[p] = None
  BY <1>1 DEF CancelPlacement, TypeOK
<1>4. /\ preparing'[p] = None => Pending(p) \subseteq Placed(p)
      /\ withdrawn' = withdrawn \cup (IF preparing'[p] = None THEN Requested(p) ELSE {})
  BY <1>1 DEF CancelPlacement, TypeOK, Pending, Requested
<1>5. QED
  BY <1>2, <1>3, <1>4, PlayerGivesUp DEF CancelPlacement, executor, people

LEMMA CancelAllKeeps ==
    ASSUME IInv, NEW p \in Players, CancelAll(p)
    PROVE  IInv'
<1>1. TypeOK
  BY DEF IInv
<1>2. Close(Placed(p) \cup Pending(p) \cup Plan(p))
  BY DEF CancelAll
<1>3. \A s \in Placed(p) \cup Pending(p) \cup Plan(p) :
        \/ s \in Placed(p) /\ placements'[p] = None
        \/ s \in Pending(p) /\ preparing'[p] = None
        \/ s \in Plan(p) /\ pasting'[p] = None
  BY <1>1 DEF CancelAll, TypeOK
<1>4. /\ preparing'[p] = None => Pending(p) \subseteq Placed(p) \cup Pending(p) \cup Plan(p)
      /\ withdrawn' = withdrawn \cup (IF preparing'[p] = None THEN Requested(p) ELSE {})
  BY <1>1 DEF CancelAll, TypeOK, Pending, Requested
<1>5. QED
  BY <1>2, <1>3, <1>4, PlayerGivesUp DEF CancelAll, executor, people

LEMMA JobEndsKeeps ==
    ASSUME IInv, NEW p \in Players, JobEnds(p)
    PROVE  IInv'
<1>1. TypeOK
  BY DEF IInv
<1>2. Close(Plan(p))
  BY DEF JobEnds
<1>3. \A s \in Plan(p) :
        \/ s \in Placed(p) /\ placements'[p] = None
        \/ s \in Pending(p) /\ preparing'[p] = None
        \/ s \in Plan(p) /\ pasting'[p] = None
  BY <1>1 DEF JobEnds, TypeOK
<1>4. /\ preparing'[p] = None => Pending(p) \subseteq Plan(p)
      /\ withdrawn' = withdrawn \cup (IF preparing'[p] = None THEN Requested(p) ELSE {})
  BY <1>1 DEF JobEnds, TypeOK, Pending, Requested
<1>5. QED
  BY <1>2, <1>3, <1>4, PlayerGivesUp DEF JobEnds, executor, people

LEMMA PreviewExpiresKeeps ==
    ASSUME IInv, NEW p \in Players, PreviewExpires(p)
    PROVE  IInv'
<1>1. TypeOK
  BY DEF IInv
<1>2. Close(Placed(p))
  BY DEF PreviewExpires
<1>3. \A s \in Placed(p) :
        \/ s \in Placed(p) /\ placements'[p] = None
        \/ s \in Pending(p) /\ preparing'[p] = None
        \/ s \in Plan(p) /\ pasting'[p] = None
  BY <1>1 DEF PreviewExpires, TypeOK
<1>4. /\ preparing'[p] = None => Pending(p) \subseteq Placed(p)
      /\ withdrawn' = withdrawn \cup (IF preparing'[p] = None THEN Requested(p) ELSE {})
  BY <1>1 DEF PreviewExpires, TypeOK, Pending, Requested
<1>5. QED
  BY <1>2, <1>3, <1>4, PlayerGivesUp DEF PreviewExpires, executor, people

LEMMA QuitKeeps ==
    ASSUME IInv, NEW p \in Players, Quit(p)
    PROVE  IInv'
<1>1. TypeOK
  BY DEF IInv
<1>2. Close(Placed(p) \cup Pending(p))
  BY DEF Quit
<1>3. \A s \in Placed(p) \cup Pending(p) :
        \/ s \in Placed(p) /\ placements'[p] = None
        \/ s \in Pending(p) /\ preparing'[p] = None
        \/ s \in Plan(p) /\ pasting'[p] = None
  BY <1>1 DEF Quit, TypeOK
<1>4. /\ preparing'[p] = None => Pending(p) \subseteq Placed(p) \cup Pending(p)
      /\ withdrawn' = withdrawn \cup (IF preparing'[p] = None THEN Requested(p) ELSE {})
  BY <1>1 DEF Quit, TypeOK, Pending, Requested
<1>5. QED
  BY <1>2, <1>3, <1>4, PlayerGivesUp DEF Quit, executor, people

LEMMA DisableKeeps ==
    ASSUME IInv, Disable
    PROVE  IInv'
<1> DEFINE C == UNION {Placed(q) \cup Pending(q) \cup Plan(q) : q \in Players}
<1>1. /\ Close(C) /\ stopping' = TRUE /\ allowed' = allowed /\ online' = online
      /\ waiting' = <<>> /\ completions' = completions \o waiting
      /\ withdrawn' = withdrawn \cup UNION {Requested(q) : q \in Players}
  BY DEF Disable, people
<1>2. TypeOK
  BY DEF IInv
<1>3. \A q \in Players : /\ placements'[q] = None /\ preparing'[q] = None
                         /\ pasting'[q] = None /\ q \notin saving'
  BY DEF Disable
<1>4. \A q \in Players : preparing[q] = None \/ preparing[q].placement \in C
  BY DEF Pending
<1>5. \A s \in C : \E q \in Players :
        \/ s = placements[q]
        \/ preparing[q] # None /\ s = preparing[q].placement
        \/ pasting[q] # None /\ s = pasting[q].plan
  BY DEF Placed, Pending, Plan
<1>6. \A t \in withdrawn' :
        \/ t \in withdrawn
        \/ \E q \in Players : preparing[q] # None /\ preparing[q].token = t
  BY <1>1 DEF Requested
<1>7. ASSUME NEW t \in Tasks
      PROVE  SameButFailed(t) /\ task'[t] \in TaskRecord
  <2>1. task[t] \in TaskRecord
    BY <1>2 DEF TypeOK, TaskRecord
  <2>2. \/ task'[t] = task[t]
        \/ /\ Submitted(t) /\ task[t].state = "queued"
           /\ task'[t] = [task[t] EXCEPT !.state = "failed"]
    BY DEF Disable
  <2>3. 1 \in Stores
    BY SessionAssumption DEF Stores
  <2>4. QED
    BY <2>1, <2>2, <2>3, TaskChanges DEF SameButFailed, Submitted
<1>8. TypeOK'
  <2>1. withdrawn' \subseteq Tasks
    BY <1>1, <1>2 DEF TypeOK, Requested, Request
  <2>2. task' \in [Tasks -> TaskRecord]
    BY <1>7 DEF Disable
  <2>3. completions' \in Seq(Tasks) /\ waiting' \in Seq(Tasks)
    BY <1>1, <1>2 DEF TypeOK
  <2>4. pose' \in [Stores -> Poses \cup {None}]
    BY <1>1, <1>2 DEF TypeOK, Close
  <2>5. /\ placements' \in [Players -> Stores \cup {None}] /\ saving' \subseteq Players
        /\ preparing' \in [Players -> Request \cup {None}]
        /\ pasting' \in [Players -> Job \cup {None}]
    BY DEF Disable
  <2>6. QED
    BY <1>1, <1>2, <2>1, <2>2, <2>3, <2>4, <2>5 DEF TypeOK, TaskRecord
<1>9. WaitingAgrees'
  BY <1>1 DEF WaitingAgrees
<1> HIDE DEF C
<1>10. /\ OwnedOnce'
       /\ \A q \in Players : (ActivityAgrees(q) /\ RequestAgrees(q))'
       /\ \A t \in Tasks : TaskAgrees(t)'
       /\ \A t \in withdrawn' : Submitted(t)'
  BY <1>1, <1>3, <1>4, <1>5, <1>6, <1>7, GivingUp
<1>11. QED
  BY <1>8, <1>9, <1>10 DEF IInv

----------------------------------------------------------------------------
(* The steps that leave the owners alone. *)

\* No store is touched, and the task of nobody or an unfinished one changes its state.
LEMMA OwnersStay ==
    ASSUME IInv, NEW t \in Tasks,
           pose' = pose, placements' = placements, preparing' = preparing, withdrawn' = withdrawn,
           \A q \in Players :
             \/ pasting'[q] = pasting[q]
             \/ Own("plan", q) = None /\ Own("plan", q)' = None,
           \A u \in Tasks : u # t => task'[u] = task[u],
           \/ task'[t] = task[t]
           \/ /\ task[t].kind # None /\ task'[t].kind = task[t].kind
              /\ task'[t].player = task[t].player /\ task'[t].schematic = task[t].schematic
              /\ task'[t].result = task[t].result
              /\ task[t].state # "done" /\ task'[t].state # "done"
    PROVE  /\ OwnedOnce'
           /\ \A q \in Players : RequestAgrees(q)'
           /\ \A u \in Tasks : TaskAgrees(u)'
           /\ \A u \in withdrawn' : Submitted(u)'
<1> USE NoneFacts
<1>1. TypeOK /\ OwnedOnce
  BY DEF IInv
<1>2. \A u \in Tasks : /\ task'[u].kind = task[u].kind
                       /\ task[u].kind # None =>
                            /\ task'[u].player = task[u].player
                            /\ task'[u].schematic = task[u].schematic
                            /\ task'[u].result = task[u].result
                            /\ task'[u].state = "done" <=> task[u].state = "done"
  OBVIOUS
<1>3. \A k \in Kinds : \A x \in Holders(k) : Own(k, x)' = Own(k, x)
  BY <1>2, OwnValues, HolderFacts
<1>4. OwnedOnce'
  BY <1>1, <1>3 DEF OwnedOnce
<1>5. ASSUME NEW q \in Players, preparing[q] # None
      PROVE  RequestAgrees(q)'
  <2>1. PICK u : u = preparing[q].token
    OBVIOUS
  <2>2. u \in Tasks /\ RequestAgrees(q)
    BY <1>1, <1>5, <2>1 DEF IInv, TypeOK, Request
  <2>3. QED
    BY <1>2, <1>5, <2>1, <2>2 DEF RequestAgrees, Submitted
<1>6. \A q \in Players : RequestAgrees(q)'
  BY <1>5 DEF RequestAgrees
<1>7. ASSUME NEW u \in Tasks, Submitted(u)
      PROVE  TaskAgrees(u)'
  <2>1. TaskAgrees(u)
    BY DEF IInv
  <2>2. StillWanted(u)' <=> StillWanted(u)
    BY <1>2, <1>7, WantedFacts DEF Submitted
  <2>3. QED
    BY <1>2, <1>7, <2>1, <2>2 DEF TaskAgrees, Submitted
<1>8. \A u \in Tasks : TaskAgrees(u)'
  BY <1>2, <1>7 DEF TaskAgrees, Submitted
<1>9. \A u \in withdrawn' : Submitted(u)'
  BY <1>1, <1>2 DEF IInv, TypeOK, Submitted
<1>10. QED
  BY <1>4, <1>6, <1>8, <1>9

LEMMA SomeTask == 1 \in Tasks
  BY SessionAssumption DEF Tasks

\* Players come and go, get access and lose it, and start saves and history jobs.
LEMMA TablesOnlyKeep ==
    ASSUME IInv, NEW p \in Players,
           StartSave(p) \/ StartHistoryAction(p) \/ Join(p) \/ AccessChanges(p)
    PROVE  IInv'
<1> DEFINE job == [operation |-> "history", plan |-> None, pose |-> None, request |-> None]
<1>1. /\ pose' = pose /\ placements' = placements /\ preparing' = preparing
      /\ withdrawn' = withdrawn /\ task' = task /\ waiting' = waiting
      /\ completions' = completions /\ stopping' = stopping /\ ~stopping
  BY DEF StartSave, StartHistoryAction, Join, AccessChanges, Commands, executor, people, tables
<1>2. TypeOK
  BY DEF IInv
<1>3. \/ saving' = saving /\ pasting' = pasting
      \/ ~Busy(p) /\ saving' = saving \cup {p} /\ pasting' = pasting
      \/ ~Busy(p) /\ saving' = saving /\ pasting' = [pasting EXCEPT ![p] = job]
  BY DEF StartSave, StartHistoryAction, Join, AccessChanges, people, tables
<1>4. job \in Job /\ job.plan = None
  BY DEF Job
<1> HIDE DEF job
<1>5. pasting' \in [Players -> Job \cup {None}] /\ saving' \subseteq Players
  BY <1>2, <1>3, <1>4 DEF TypeOK
<1>6. online' \subseteq Players /\ allowed' \subseteq Players
  BY <1>2 DEF TypeOK, StartSave, StartHistoryAction, Join, AccessChanges, people
<1>7. TypeOK'
  BY <1>1, <1>2, <1>5, <1>6 DEF TypeOK
<1>8. \A q \in Players :
        \/ pasting'[q] = pasting[q]
        \/ q = p /\ pasting[q] = None /\ pasting'[q] = job
  BY <1>2, <1>3 DEF Busy, TypeOK
<1>9. \A q \in Players :
        \/ pasting'[q] = pasting[q]
        \/ Own("plan", q) = None /\ Own("plan", q)' = None
  BY <1>4, <1>8, OwnValues
<1>10. /\ OwnedOnce' /\ \A q \in Players : RequestAgrees(q)'
       /\ \A t \in Tasks : TaskAgrees(t)'
       /\ \A t \in withdrawn' : Submitted(t)'
  BY <1>1, <1>9, OwnersStay, SomeTask
<1>11. ASSUME NEW q \in Players
       PROVE  ActivityAgrees(q)'
  <2>1. ActivityAgrees(q)
    BY DEF IInv
  <2>2. /\ q \in saving' => pasting'[q] = None /\ preparing[q] = None
        /\ pasting'[q] # None => preparing[q] = None
    BY <1>2, <1>3, <2>1 DEF ActivityAgrees, Busy, TypeOK
  <2>3. Own("plan", q)' # None => Own("plan", q)' = Own("plan", q) /\ pasting'[q] = pasting[q]
    BY <1>9, OwnValues
  <2>4. QED
    BY <1>1, <2>1, <2>2, <2>3 DEF ActivityAgrees
<1>12. WaitingAgrees'
  BY <1>1 DEF IInv, WaitingAgrees, Submitted
<1>13. QED
  BY <1>7, <1>10, <1>11, <1>12 DEF IInv

\* A free thread takes a task, or a running one fails.
LEMMA ExecutorKeeps ==
    ASSUME IInv, StartTask \/ \E t \in Tasks : TaskFails(t)
    PROVE  IInv'
<1>1. TypeOK
  BY DEF IInv
<1>2. /\ pose' = pose /\ placements' = placements /\ preparing' = preparing
      /\ withdrawn' = withdrawn /\ saving' = saving /\ pasting' = pasting
      /\ stopping' = stopping /\ online' = online /\ allowed' = allowed
  BY DEF StartTask, TaskFails, people, tables
<1>3. PICK t \in Tasks, x \in {"running", "unreadable", "failed"} :
        /\ Submitted(t) /\ task[t].state # "done"
        /\ task' = [task EXCEPT ![t].state = x]
        /\ x = "unreadable" => task[t].kind = "prepare"
        /\ \/ waiting # <<>> /\ t = Head(waiting) /\ waiting' = Tail(waiting)
              /\ completions' = completions
           \/ waiting' = waiting /\ task[t].state # "queued"
              /\ completions' = Append(completions, t)
  <2>1. CASE StartTask
    <3>1. waiting # <<>> /\ Head(waiting) \in Tasks /\ 1 \in DOMAIN waiting
            /\ waiting[1] = Head(waiting)
      BY <1>1, <2>1 DEF StartTask, TypeOK
    <3>2. Submitted(Head(waiting)) /\ task[Head(waiting)].state = "queued"
      BY <3>1 DEF IInv, WaitingAgrees
    <3>3. task[Head(waiting)].kind = "load" \/ task[Head(waiting)].kind = "prepare"
      BY <1>1, <3>1, <3>2, TaskFacts DEF TypeOK, TaskRecord, Submitted
    <3>4. QED
      BY <2>1, <3>1, <3>2, <3>3 DEF StartTask
  <2>2. CASE \E u \in Tasks : TaskFails(u)
    BY <2>2 DEF TaskFails, Running
  <2>3. QED
    BY <2>1, <2>2
<1>4. task[t] \in Preparation \cup Loading
  BY <1>1, <1>3, TaskFacts DEF TypeOK, TaskRecord, Submitted
<1>5. /\ task' = [task EXCEPT ![t] = [task[t] EXCEPT !.state = x]]
      /\ [task[t] EXCEPT !.state = x] \in TaskRecord
  <2>1. 1 \in Stores
    BY SessionAssumption DEF Stores
  <2>2. [task[t] EXCEPT !.state = x] \in TaskRecord
    BY <1>3, <1>4, <2>1, TaskChanges DEF TaskRecord, Submitted
  <2>3. QED
    BY <1>3, <2>2
<1>6. /\ task'[t].kind = task[t].kind /\ task'[t].player = task[t].player
      /\ task'[t].schematic = task[t].schematic /\ task'[t].result = task[t].result
      /\ task'[t].state = x
  BY <1>1, <1>4, <1>5 DEF TypeOK, Preparation, Loading
<1>7. \A u \in Tasks : u # t => task'[u] = task[u]
  BY <1>1, <1>5 DEF TypeOK
<1>8. TypeOK'
  <2>1. task' \in [Tasks -> TaskRecord]
    BY <1>1, <1>5 DEF TypeOK, TaskRecord
  <2>2. waiting \in Seq(Tasks) /\ completions \in Seq(Tasks)
    BY <1>1 DEF TypeOK
  <2>3. waiting # <<>> => Tail(waiting) \in Seq(Tasks)
    BY <2>2
  <2>4. Append(completions, t) \in Seq(Tasks)
    BY <2>2
  <2>5. waiting' \in Seq(Tasks) /\ completions' \in Seq(Tasks)
    BY <1>3, <2>2, <2>3, <2>4
  <2>6. QED
    BY <1>1, <1>2, <2>1, <2>5 DEF TypeOK, TaskRecord
<1>9. /\ OwnedOnce' /\ \A q \in Players : RequestAgrees(q)'
      /\ \A u \in Tasks : TaskAgrees(u)'
      /\ \A u \in withdrawn' : Submitted(u)'
  BY <1>2, <1>3, <1>6, <1>7, OwnersStay DEF Submitted
<1>10. \A q \in Players : ActivityAgrees(q)'
  <2>1. \A q \in Players : Own("plan", q)' = Own("plan", q)
    BY <1>2, OwnValues
  <2>2. QED
    BY <1>2, <2>1 DEF IInv, ActivityAgrees
<1>11. WaitingAgrees'
  <2>1. CASE waiting' = waiting /\ task[t].state # "queued"
    BY <1>1, <1>7, <2>1 DEF IInv, WaitingAgrees, Submitted, TypeOK
  <2>2. CASE waiting # <<>> /\ t = Head(waiting) /\ waiting' = Tail(waiting)
    <3>1. \A i \in DOMAIN waiting' : /\ i + 1 \in DOMAIN waiting /\ waiting'[i] = waiting[i + 1]
                                     /\ i \in Nat \ {0}
      BY <1>1, <2>2 DEF TypeOK
    <3>2. 1 \in DOMAIN waiting /\ waiting[1] = t
      BY <1>1, <2>2 DEF TypeOK
    <3>3. ASSUME NEW i \in DOMAIN waiting'
          PROVE  waiting'[i] # t /\ waiting'[i] \in Tasks
      <4>1. waiting[i + 1] # waiting[1]
        BY <3>1, <3>2, <3>3 DEF IInv, WaitingAgrees
      <4>2. QED
        BY <1>1, <3>1, <3>2, <3>3, <4>1 DEF TypeOK
    <3>4. ASSUME NEW i \in DOMAIN waiting'
          PROVE  task'[waiting'[i]].kind # None /\ task'[waiting'[i]].state = "queued"
      BY <1>7, <3>1, <3>3, <3>4 DEF IInv, WaitingAgrees, Submitted
    <3>5. ASSUME NEW i \in DOMAIN waiting', NEW j \in DOMAIN waiting', waiting'[i] = waiting'[j]
          PROVE  i = j
      <4>1. i + 1 = j + 1
        BY <3>1, <3>5 DEF IInv, WaitingAgrees
      <4>2. QED
        BY <3>1, <4>1
    <3>6. QED
      BY <3>4, <3>5 DEF WaitingAgrees, Submitted
  <2>3. QED
    BY <1>3, <2>1, <2>2
<1>12. QED
  BY <1>8, <1>9, <1>10, <1>11 DEF IInv

\* The pose of a placement is no other owner's.
LEMMA MovePlacementKeeps ==
    ASSUME IInv, NEW p \in Players, MovePlacement(p)
    PROVE  IInv'
<1> USE NoneFacts
<1>1. /\ task' = task /\ waiting' = waiting /\ completions' = completions /\ stopping' = stopping
      /\ online' = online /\ allowed' = allowed /\ withdrawn' = withdrawn
      /\ placements' = placements /\ preparing' = preparing /\ saving' = saving
      /\ pasting' = pasting
  BY DEF MovePlacement, executor, people, tables
<1>2. TypeOK /\ OwnedOnce
  BY DEF IInv
<1>3. PICK r \in Poses : pose' = [pose EXCEPT ![placements[p]] = r]
  BY DEF MovePlacement
<1>4. placements[p] \in Stores /\ Own("placed", p) = placements[p] /\ placements[p] # None
  BY <1>2, OwnValues DEF MovePlacement, TypeOK
<1>5. /\ \A s \in Stores : s # placements[p] => pose'[s] = pose[s]
      /\ pose'[placements[p]] = r /\ pose' \in [Stores -> Poses \cup {None}]
      /\ pose[placements[p]] # None
  <2>1. pose[placements[p]] # None
    BY <1>2, <1>4, HolderFacts DEF OwnedOnce
  <2>2. QED
    BY <1>2, <1>3, <1>4, <2>1 DEF TypeOK
<1>6. TypeOK'
  BY <1>1, <1>2, <1>5 DEF TypeOK
<1>7. \A k \in Kinds : \A x \in Holders(k) :
        /\ Own(k, x)' = Own(k, x)
        /\ Own(k, x) # None /\ k # "placed" => pose'[Own(k, x)] = pose[Own(k, x)]
        /\ Own(k, x) # None => pose'[Own(k, x)] # None
  <2>1. SUFFICES ASSUME NEW k \in Kinds, NEW x \in Holders(k)
                 PROVE  /\ Own(k, x)' = Own(k, x)
                        /\ Own(k, x) # None /\ k # "placed" => pose'[Own(k, x)] = pose[Own(k, x)]
                        /\ Own(k, x) # None => pose'[Own(k, x)] # None
    OBVIOUS
  <2>2. Own(k, x)' = Own(k, x)
    BY <1>1, OwnValues, HolderFacts
  <2>3. Own(k, x) = placements[p] => k = "placed"
    BY <1>2, <1>4, HolderFacts DEF OwnedOnce
  <2>4. Own(k, x) # None => Own(k, x) \in Stores /\ pose[Own(k, x)] # None
    BY <1>2 DEF OwnedOnce
  <2>5. QED
    BY <1>5, <2>2, <2>3, <2>4
<1>8. OwnedOnce'
  BY <1>2, <1>7 DEF OwnedOnce
<1>9. ASSUME NEW q \in Players
      PROVE  ActivityAgrees(q)'
  <2>1. ActivityAgrees(q) /\ "plan" \in Kinds /\ q \in Holders("plan") /\ "plan" # "placed"
    BY HolderFacts DEF IInv
  <2>2. QED
    BY <1>1, <1>7, <2>1 DEF ActivityAgrees
<1>10. ASSUME NEW q \in Players, preparing[q] # None
       PROVE  RequestAgrees(q)'
  <2>1. PICK t : t = preparing[q].token
    OBVIOUS
  <2>2. t \in Tasks /\ RequestAgrees(q) /\ preparing[q].placement \in Stores
    BY <1>2, <1>10, <2>1 DEF IInv, TypeOK, Request
  <2>3. Own("pending", q) = preparing[q].placement
    BY <1>10, OwnValues
  <2>4. pose'[preparing[q].placement] = pose[preparing[q].placement]
    BY <1>7, <2>2, <2>3, HolderFacts
  <2>5. task[t].state = "done" => pose'[task[t].result] = pose[task[t].result]
    <3>1. task[t].kind # None
      BY <1>10, <2>1, <2>2 DEF RequestAgrees, Submitted
    <3>2. Own("result", t) = task[t].result
      BY <3>1, OwnValues
    <3>3. task[t].state = "done" => task[t].result # None
      BY <2>2, <3>1 DEF IInv, TaskAgrees, Submitted
    <3>4. QED
      BY <1>7, <2>2, <3>2, <3>3, HolderFacts
  <2>6. QED
    BY <1>1, <1>10, <2>1, <2>2, <2>4, <2>5 DEF RequestAgrees, Submitted
<1>11. \A q \in Players : RequestAgrees(q)'
  BY <1>1, <1>10 DEF RequestAgrees
<1>12. ASSUME NEW t \in Tasks
       PROVE  TaskAgrees(t)'
  <2>1. TaskAgrees(t) /\ (StillWanted(t)' <=> StillWanted(t))
    BY <1>1, WantedFacts DEF IInv
  <2>2. Submitted(t) /\ task[t].kind = "prepare" => task[t].schematic \in Stores
    BY <1>2, TaskFacts, PreparationFields DEF TypeOK, TaskRecord
  <2>3. Submitted(t) /\ task[t].kind = "prepare" /\ ~StillWanted(t)
          => pose'[task[t].schematic] = None
    BY <1>5, <2>1, <2>2 DEF TaskAgrees
  <2>4. QED
    BY <1>1, <2>1, <2>3 DEF TaskAgrees, Submitted
<1>13. WaitingAgrees' /\ \A t \in withdrawn' : Submitted(t)'
  BY <1>1 DEF IInv, WaitingAgrees, Submitted
<1>14. QED
  BY <1>6, <1>8, <1>9, <1>11, <1>12, <1>13 DEF IInv

----------------------------------------------------------------------------
(* Submitted operations. *)

LEMMA SubmitFacts ==
    ASSUME IInv, NEW t \in Tasks, NEW kind, NEW p \in Players, NEW schematic,
           \/ kind = "load" /\ schematic = None
           \/ kind = "prepare" /\ schematic \in Stores,
           Submit(t, kind, p, schematic)
    PROVE  /\ ~Submitted(t) /\ task[t].kind = None /\ t \notin withdrawn
           /\ task' \in [Tasks -> TaskRecord]
           /\ \A u \in Tasks : u # t => task'[u] = task[u]
           /\ task'[t].kind = kind /\ task'[t].kind # None /\ task'[t].player = p
           /\ task'[t].schematic = schematic
           /\ task'[t].state = "queued" /\ task'[t].result = None
           /\ waiting' \in Seq(Tasks)
           /\ WaitingAgrees'
<1> DEFINE r == [kind |-> kind, player |-> p, schematic |-> schematic, state |-> "queued",
                 result |-> None]
<1>1. TypeOK
  BY DEF IInv
<1>2. ~Submitted(t) /\ task' = [task EXCEPT ![t] = r] /\ waiting' = Append(waiting, t)
  BY DEF Submit
<1>3. r \in TaskRecord
  BY DEF TaskRecord, Preparation, Loading
<1>4. /\ r.kind = kind /\ r.player = p /\ r.schematic = schematic /\ r.state = "queued"
      /\ r.result = None /\ kind # None
  BY NoneFacts
<1> HIDE DEF r
<1>5. task' \in [Tasks -> TaskRecord] /\ task'[t] = r /\ \A u \in Tasks : u # t => task'[u] = task[u]
  BY <1>1, <1>2, <1>3 DEF TypeOK, TaskRecord
<1>6. task[t].kind = None /\ t \notin withdrawn
  BY <1>2 DEF IInv, Submitted
<1>7. /\ waiting' \in Seq(Tasks) /\ Len(waiting') = Len(waiting) + 1
      /\ waiting'[Len(waiting) + 1] = t
      /\ \A i \in 1 .. Len(waiting) : waiting'[i] = waiting[i] /\ waiting[i] \in Tasks
      /\ DOMAIN waiting = 1 .. Len(waiting) /\ DOMAIN waiting' = 1 .. (Len(waiting) + 1)
      /\ Len(waiting) \in Nat
  BY <1>1, <1>2 DEF TypeOK
<1>8. \A i \in 1 .. Len(waiting) :
        /\ waiting[i] # t /\ task'[waiting[i]] = task[waiting[i]]
        /\ task[waiting[i]].kind # None /\ task[waiting[i]].state = "queued"
  BY <1>2, <1>5, <1>7 DEF IInv, WaitingAgrees, Submitted
<1>9. \A i \in DOMAIN waiting' : task'[waiting'[i]].kind # None /\ task'[waiting'[i]].state = "queued"
  BY <1>4, <1>5, <1>7, <1>8
<1>10. \A i, j \in DOMAIN waiting' : waiting'[i] = waiting'[j] => i = j
  BY <1>7, <1>8 DEF IInv, WaitingAgrees
<1>11. WaitingAgrees'
  BY <1>9, <1>10 DEF WaitingAgrees, Submitted
<1>12. QED
  BY <1>2, <1>4, <1>5, <1>6, <1>7, <1>11

LEMMA RequestLoadKeeps ==
    ASSUME IInv, NEW p \in Players, RequestLoad(p)
    PROVE  IInv'
<1> USE NoneFacts
<1>1. /\ pose' = pose /\ placements' = placements /\ preparing' = preparing
      /\ withdrawn' = withdrawn /\ saving' = saving /\ pasting' = pasting
      /\ stopping' = stopping /\ online' = online /\ allowed' = allowed
      /\ completions' = completions
  BY DEF RequestLoad, people, tables
<1>2. PICK t \in Tasks : Submit(t, "load", p, None)
  BY DEF RequestLoad
<1>3. /\ ~Submitted(t) /\ task[t].kind = None /\ t \notin withdrawn
      /\ task' \in [Tasks -> TaskRecord]
      /\ \A u \in Tasks : u # t => task'[u] = task[u]
      /\ task'[t].kind = "load" /\ task'[t].kind # None /\ task'[t].player = p
      /\ task'[t].state = "queued" /\ task'[t].result = None
      /\ waiting' \in Seq(Tasks)
      /\ WaitingAgrees'
  BY <1>2, SubmitFacts
<1>4. TypeOK /\ OwnedOnce
  BY DEF IInv
<1>5. TypeOK'
  BY <1>1, <1>3, <1>4 DEF TypeOK, TaskRecord
<1>6. \A k \in Kinds : \A x \in Holders(k) : Own(k, x)' = Own(k, x)
  BY <1>1, <1>3, OwnValues, HolderFacts
<1>7. OwnedOnce'
  BY <1>1, <1>4, <1>6 DEF OwnedOnce
<1>8. ASSUME NEW q \in Players
      PROVE  ActivityAgrees(q)'
  BY <1>1, <1>6, HolderFacts DEF IInv, ActivityAgrees
<1>9. ASSUME NEW q \in Players, preparing[q] # None
      PROVE  RequestAgrees(q)'
  <2>1. PICK u : u = preparing[q].token
    OBVIOUS
  <2>2. u \in Tasks /\ RequestAgrees(q)
    BY <1>4, <1>9, <2>1 DEF IInv, TypeOK, Request
  <2>3. u # t
    BY <1>3, <1>9, <2>1, <2>2 DEF RequestAgrees
  <2>4. QED
    BY <1>1, <1>3, <1>9, <2>1, <2>2, <2>3 DEF RequestAgrees, Submitted
<1>10. \A q \in Players : RequestAgrees(q)'
  BY <1>1, <1>9 DEF RequestAgrees
<1>11. ASSUME NEW u \in Tasks
       PROVE  TaskAgrees(u)'
  <2>1. CASE u = t
    BY <1>3, <2>1 DEF TaskAgrees, Submitted
  <2>2. CASE u # t
    <3>1. TaskAgrees(u) /\ task'[u] = task[u]
      BY <1>3, <2>2 DEF IInv
    <3>2. StillWanted(u)' <=> StillWanted(u)
      BY <1>1, <3>1, WantedFacts
    <3>3. QED
      BY <1>1, <3>1, <3>2 DEF TaskAgrees, Submitted
  <2>3. QED
    BY <2>1, <2>2
<1>12. \A u \in withdrawn' : Submitted(u)'
  BY <1>1, <1>3, <1>4 DEF IInv, Submitted, TypeOK
<1>13. QED
  BY <1>3, <1>5, <1>7, <1>8, <1>10, <1>11, <1>12 DEF IInv

\* The placement passes to the preparation.
LEMMA StartPasteKeeps ==
    ASSUME IInv, NEW p \in Players, StartPaste(p)
    PROVE  IInv'
<1> USE NoneFacts
<1>1. TypeOK /\ OwnedOnce
  BY DEF IInv
<1>2. /\ pose' = pose /\ withdrawn' = withdrawn /\ saving' = saving /\ pasting' = pasting
      /\ stopping' = stopping /\ online' = online /\ allowed' = allowed
      /\ completions' = completions /\ ~stopping
      /\ placements' = [placements EXCEPT ![p] = None]
      /\ p \notin saving /\ pasting[p] = None /\ preparing[p] = None
      /\ placements[p] \in Stores /\ placements[p] # None
  BY <1>1 DEF StartPaste, Commands, Busy, people, TypeOK
<1>3. PICK t \in Tasks :
        /\ Submit(t, "prepare", p, placements[p])
        /\ preparing' = [preparing EXCEPT ![p] = [token |-> t, placement |-> placements[p]]]
  BY DEF StartPaste
<1>4. /\ ~Submitted(t) /\ task[t].kind = None /\ t \notin withdrawn
      /\ task' \in [Tasks -> TaskRecord]
      /\ \A u \in Tasks : u # t => task'[u] = task[u]
      /\ task'[t].kind = "prepare" /\ task'[t].kind # None /\ task'[t].player = p
      /\ task'[t].schematic = placements[p]
      /\ task'[t].state = "queued" /\ task'[t].result = None
      /\ waiting' \in Seq(Tasks)
      /\ WaitingAgrees'
  <2>1. PICK s \in Stores : s = placements[p]
    BY <1>2
  <2>2. Submit(t, "prepare", p, s)
    BY <1>3, <2>1
  <2>3. QED
    BY <2>1, <2>2, SubmitFacts
<1>5. /\ preparing' \in [Players -> Request \cup {None}]
      /\ preparing'[p] # None /\ preparing'[p].token = t
      /\ preparing'[p].placement = placements[p]
      /\ \A q \in Players : q # p => preparing'[q] = preparing[q] /\ placements'[q] = placements[q]
      /\ placements'[p] = None
  <2>1. [token |-> t, placement |-> placements[p]] \in Request
    BY <1>2 DEF Request
  <2>2. QED
    BY <1>1, <1>2, <1>3, <2>1 DEF TypeOK
<1>6. TypeOK'
  BY <1>1, <1>2, <1>4, <1>5 DEF TypeOK, TaskRecord
<1>7. /\ Own("placed", p)' = None /\ Own("pending", p)' = Own("placed", p)
      /\ Own("placed", p) = placements[p]
      /\ \A k \in Kinds : \A x \in Holders(k) :
           \/ k \in {"placed", "pending"} /\ x = p
           \/ Own(k, x)' = Own(k, x)
  BY <1>2, <1>4, <1>5, OwnValues, HolderFacts
<1>8. OwnedOnce'
  <2>1. \A k \in Kinds : \A x \in Holders(k) :
          \/ Own(k, x)' = None
          \/ Own(k, x)' = Own(k, x) /\ pose'[Own(k, x)] # None
          \/ /\ k = "pending" /\ x = p /\ Own(k, x)' = Own("placed", p)
             /\ pose'[Own("placed", p)] # None
    BY <1>1, <1>2, <1>7, HolderFacts DEF OwnedOnce
  <2>2. QED
    BY <1>1, <1>7, <2>1, OwnersMove, HolderFacts
<1>9. ASSUME NEW q \in Players
      PROVE  ActivityAgrees(q)'
  <2>1. Own("plan", q)' = Own("plan", q)
    BY <1>2, OwnValues
  <2>2. QED
    BY <1>2, <1>5, <2>1 DEF IInv, ActivityAgrees
<1>10. ASSUME NEW q \in Players, preparing'[q] # None
       PROVE  RequestAgrees(q)'
  <2>1. CASE q = p
    BY <1>2, <1>4, <1>5, <2>1 DEF RequestAgrees, Submitted
  <2>2. CASE q # p
    <3>1. PICK u : u = preparing[q].token
      OBVIOUS
    <3>2. u \in Tasks /\ RequestAgrees(q) /\ preparing'[q] = preparing[q]
      BY <1>1, <1>5, <1>10, <2>2, <3>1 DEF IInv, TypeOK, Request
    <3>3. u # t
      BY <1>4, <1>10, <3>1, <3>2 DEF RequestAgrees
    <3>4. QED
      BY <1>2, <1>4, <1>10, <3>1, <3>2, <3>3 DEF RequestAgrees, Submitted
  <2>3. QED
    BY <2>1, <2>2
<1>11. \A q \in Players : RequestAgrees(q)'
  BY <1>10 DEF RequestAgrees
<1>12. ASSUME NEW u \in Tasks, Submitted(u)'
       PROVE  TaskAgrees(u)'
  <2>1. CASE u = t
    <3>1. StillWanted(t)'
      BY <1>4, <1>5, WantedFacts
    <3>2. QED
      BY <1>4, <2>1, <3>1 DEF TaskAgrees, Submitted
  <2>2. CASE u # t
    <3>1. TaskAgrees(u) /\ task'[u] = task[u] /\ Submitted(u)
      BY <1>4, <1>12, <2>2 DEF IInv, Submitted
    <3>2. task[u].player \in Players
      BY <1>1, <3>1, TaskFacts, PreparationFields, LoadingFields DEF TypeOK, TaskRecord, Submitted
    <3>3. StillWanted(u)' <=> StillWanted(u)
      BY <1>2, <1>5, <2>2, <3>1, <3>2, WantedFacts
    <3>4. QED
      BY <1>2, <3>1, <3>3 DEF TaskAgrees, Submitted
  <2>3. QED
    BY <2>1, <2>2
<1>13. \A u \in Tasks : TaskAgrees(u)'
  BY <1>12 DEF TaskAgrees
<1>14. \A u \in withdrawn' : Submitted(u)'
  BY <1>1, <1>2, <1>4 DEF IInv, Submitted, TypeOK
<1>15. QED
  BY <1>4, <1>6, <1>8, <1>9, <1>11, <1>13, <1>14 DEF IInv

\* The new store was nobody's, and no task reads it.
LEMMA TaskSucceedsKeeps ==
    ASSUME IInv, NEW t \in Tasks, TaskSucceeds(t)
    PROVE  IInv'
<1> USE NoneFacts
<1>1. TypeOK /\ OwnedOnce
  BY DEF IInv
<1>2. PICK n : n = NewStore
  OBVIOUS
<1>3. n \in Unused
  BY <1>2, NewStoreUnused DEF TaskSucceeds
<1>4. /\ placements' = placements /\ preparing' = preparing /\ withdrawn' = withdrawn
      /\ saving' = saving /\ pasting' = pasting /\ stopping' = stopping /\ online' = online
      /\ allowed' = allowed /\ waiting' = waiting /\ completions' = Append(completions, t)
      /\ task[t].kind # None /\ task[t].state = "running" /\ Submitted(t)
      /\ task' = [task EXCEPT ![t].state = "done", ![t].result = n]
      /\ pose' = [pose EXCEPT ![n] = IF task[t].schematic \in Open THEN pose[task[t].schematic]
                                                                  ELSE AnyPose]
  BY <1>2 DEF TaskSucceeds, people, tables, Submitted
<1>5. n \in Stores /\ pose[n] = None /\ n # None
  BY <1>3 DEF Unused, Open
<1>6. \A u \in Tasks : task[u].kind # None => n # task[u].schematic
  BY <1>3 DEF Unused, Referenced, Submitted
<1>7. AnyPose \in Poses
  BY SessionAssumption DEF AnyPose
<1>8. /\ pose'[n] \in Poses /\ pose' \in [Stores -> Poses \cup {None}]
      /\ \A s \in Stores : s # n => pose'[s] = pose[s]
      /\ task[t].schematic \in Stores /\ pose[task[t].schematic] # None
           => pose'[n] = pose[task[t].schematic]
  BY <1>1, <1>4, <1>5, <1>7 DEF TypeOK, Open
<1>9. task[t] \in Preparation \cup Loading
  BY <1>1, <1>4, TaskFacts DEF TypeOK, TaskRecord
<1>10. /\ task' = [task EXCEPT ![t] = [task[t] EXCEPT !.state = "done", !.result = n]]
       /\ [task[t] EXCEPT !.state = "done", !.result = n] \in TaskRecord
  BY <1>1, <1>4, <1>5, <1>9, TaskChanges DEF TaskRecord, TypeOK
<1>11. /\ task' \in [Tasks -> TaskRecord] /\ \A u \in Tasks : u # t => task'[u] = task[u]
       /\ task'[t].kind = task[t].kind /\ task'[t].player = task[t].player
       /\ task'[t].schematic = task[t].schematic
       /\ task'[t].state = "done" /\ task'[t].result = n
  <2>1. /\ task' \in [Tasks -> TaskRecord] /\ \A u \in Tasks : u # t => task'[u] = task[u]
        /\ task'[t] = [task[t] EXCEPT !.state = "done", !.result = n]
    BY <1>1, <1>10 DEF TypeOK, TaskRecord
  <2>2. QED
    BY <1>9, <2>1 DEF Preparation, Loading
<1>12. TypeOK'
  <2>1. completions \in Seq(Tasks)
    BY <1>1 DEF TypeOK
  <2>2. completions' \in Seq(Tasks)
    BY <1>4, <2>1
  <2>3. QED
    BY <1>1, <1>4, <1>8, <1>11, <2>2 DEF TypeOK, TaskRecord
<1>13. /\ Own("result", t)' = n /\ Own("result", t) = None
       /\ \A k \in Kinds : \A x \in Holders(k) :
            (k = "result" /\ x = t) \/ Own(k, x)' = Own(k, x)
  <2>1. task[t].result = None
    BY <1>4 DEF IInv, TaskAgrees
  <2>2. QED
    BY <1>4, <1>11, <2>1, OwnValues, HolderFacts
<1>14. \A k \in Kinds : \A x \in Holders(k) : Own(k, x) # None =>
         Own(k, x) \in Stores /\ Own(k, x) # n /\ pose'[Own(k, x)] = pose[Own(k, x)]
  BY <1>1, <1>5, <1>8 DEF OwnedOnce
<1>15. OwnedOnce'
  <2>1. \A k \in Kinds : \A x \in Holders(k) : Own(k, x)' # None =>
          \/ k = "result" /\ x = t /\ Own(k, x)' = n
          \/ /\ Own(k, x)' = Own(k, x) /\ Own(k, x) # n /\ ~(k = "result" /\ x = t)
             /\ Own(k, x) \in Stores /\ pose'[Own(k, x)] = pose[Own(k, x)]
    BY <1>13, <1>14
  <2>2. QED
    BY <1>1, <1>5, <1>8, <2>1 DEF OwnedOnce
<1>16. ASSUME NEW q \in Players
       PROVE  ActivityAgrees(q)'
  <2>1. Own("plan", q)' = Own("plan", q) /\ "plan" \in Kinds /\ q \in Holders("plan")
    BY <1>4, OwnValues, HolderFacts
  <2>2. QED
    BY <1>4, <1>14, <2>1 DEF IInv, ActivityAgrees
<1>17. ASSUME NEW q \in Players, preparing[q] # None
       PROVE  RequestAgrees(q)'
  <2>1. PICK u : u = preparing[q].token
    OBVIOUS
  <2>2. u \in Tasks /\ RequestAgrees(q) /\ preparing[q].placement \in Stores
    BY <1>1, <1>17, <2>1 DEF IInv, TypeOK, Request
  <2>3. Own("pending", q) = preparing[q].placement /\ preparing[q].placement # None
    BY <1>17, <2>2, OwnValues
  <2>4. /\ pose'[preparing[q].placement] = pose[preparing[q].placement]
        /\ pose[preparing[q].placement] # None
    BY <1>1, <1>14, <2>3, HolderFacts DEF OwnedOnce
  <2>5. /\ task[u].kind = "prepare" /\ task[u].player = q /\ u \notin withdrawn
        /\ task[u].schematic = preparing[q].placement
        /\ task[u].state = "done" => pose[task[u].result] = pose[task[u].schematic]
    BY <1>17, <2>1, <2>2 DEF RequestAgrees
  <2>6. task'[u].state = "done" => pose'[task'[u].result] = pose'[task'[u].schematic]
    <3>1. CASE u = t
      BY <1>8, <1>11, <2>2, <2>4, <2>5, <3>1
    <3>2. CASE u # t
      <4>1. task'[u] = task[u]
        BY <1>11, <2>2, <3>2
      <4>2. task[u].state = "done" => task[u].result # None /\ Own("result", u) = task[u].result
        BY <2>2, <2>5, OwnValues DEF IInv, TaskAgrees, Submitted
      <4>3. task[u].state = "done" => pose'[task[u].result] = pose[task[u].result]
        BY <1>14, <2>2, <4>2, HolderFacts
      <4>4. QED
        BY <2>4, <2>5, <4>1, <4>3
    <3>3. QED
      BY <3>1, <3>2
  <2>7. preparing'[q] = preparing[q] /\ withdrawn' = withdrawn
    BY <1>4
  <2>8. /\ task'[u].kind = "prepare" /\ task'[u].player = q
        /\ task'[u].schematic = preparing[q].placement
    BY <1>4, <1>11, <2>2, <2>5
  <2>9. QED
    BY <1>17, <2>1, <2>2, <2>5, <2>6, <2>7, <2>8 DEF RequestAgrees, Submitted
<1>18. \A q \in Players : RequestAgrees(q)'
  BY <1>4, <1>17 DEF RequestAgrees
<1>19. ASSUME NEW u \in Tasks, task[u].kind # None
       PROVE  TaskAgrees(u)'
  <2>1. TaskAgrees(u) /\ task[u] \in Preparation \cup Loading
    BY <1>1, <1>19, TaskFacts DEF IInv, TypeOK, TaskRecord
  <2>2. task'[u].state = "done" <=> task'[u].result # None
    BY <1>5, <1>11, <1>19, <2>1 DEF TaskAgrees, Submitted
  <2>3. /\ task'[u].kind = task[u].kind /\ task'[u].schematic = task[u].schematic
        /\ StillWanted(u)' <=> StillWanted(u)
    BY <1>4, <1>11, WantedFacts
  <2>4. task[u].kind = "prepare" => task[u].schematic \in Stores
    BY <2>1, TaskFacts, PreparationFields DEF TaskRecord
  <2>5. task[u].kind = "prepare" /\ ~StillWanted(u) => pose'[task[u].schematic] = None
    BY <1>6, <1>8, <1>19, <2>1, <2>4 DEF TaskAgrees, Submitted
  <2>6. QED
    BY <2>2, <2>3, <2>5 DEF TaskAgrees
<1>20. \A u \in Tasks : TaskAgrees(u)'
  BY <1>11, <1>19 DEF TaskAgrees, Submitted
<1>21. WaitingAgrees' /\ \A u \in withdrawn' : Submitted(u)'
  BY <1>1, <1>4, <1>11 DEF IInv, WaitingAgrees, Submitted, TypeOK
<1>22. QED
  BY <1>12, <1>15, <1>16, <1>18, <1>20, <1>21 DEF IInv

----------------------------------------------------------------------------
(* Callbacks. *)

LEMMA CallbackFacts ==
    ASSUME IInv, NEW kind \in {"load", "prepare"}, NEW state \in {"done", "failed"},
           Callback(kind, state)
    PROVE  \E t \in Tasks :
             /\ t = Head(completions) /\ ~stopping
             /\ task[t].kind = kind /\ task[t].kind # None /\ task[t].state = state
             /\ task[t] \in Preparation \cup Loading
             /\ task[t].player \in Players
             /\ kind = "prepare" => task[t].schematic \in Stores
             /\ state = "done" => task[t].result \in Stores
             /\ state = "failed" => task[t].result = None
             /\ task' = [task EXCEPT ![t] = NoTask] /\ task'[t].kind = None
             /\ \A u \in Tasks : u # t => task'[u] = task[u]
             /\ completions' \in Seq(Tasks) /\ waiting' = waiting
             /\ withdrawn' = withdrawn \ {t} /\ stopping' = stopping /\ saving' = saving
             /\ online' = online /\ allowed' = allowed
<1> USE NoneFacts
<1>1. TypeOK
  BY DEF IInv
<1>2. PICK t : t = Head(completions)
  OBVIOUS
<1>3. /\ completions \in Seq(Tasks) /\ completions # <<>> /\ ~stopping
      /\ task[t].kind = kind /\ task[t].state = state /\ task' = [task EXCEPT ![t] = NoTask]
      /\ completions' = Tail(completions) /\ waiting' = waiting
      /\ withdrawn' = withdrawn \ {t} /\ stopping' = stopping /\ saving' = saving
      /\ online' = online /\ allowed' = allowed
  BY <1>1, <1>2 DEF Callback, RunsCallbacks, TypeOK, people
<1>4. t \in Tasks /\ completions' \in Seq(Tasks)
  BY <1>2, <1>3
<1>5. task[t].kind # None /\ task[t] \in Preparation \cup Loading
  BY <1>1, <1>3, <1>4, TaskFacts DEF TypeOK, TaskRecord
<1>6. /\ task[t].player \in Players /\ task[t].result \in Stores \cup {None}
      /\ kind = "prepare" => task[t].schematic \in Stores
  BY <1>3, <1>5, PreparationFields, LoadingFields
<1>7. (state = "done" => task[t].result # None) /\ (state = "failed" => task[t].result = None)
  BY <1>3, <1>4, <1>5 DEF IInv, TaskAgrees, Submitted
<1>8. task'[t].kind = None /\ \A u \in Tasks : u # t => task'[u] = task[u]
  BY <1>1, <1>3, <1>4 DEF TypeOK, NoTask
<1>9. QED
  BY <1>2, <1>3, <1>4, <1>5, <1>6, <1>7, <1>8

\* After a callback every store whose owner kept it has the pose it had, and what is left of
\* the requests and tasks still agrees.
LEMMA CallbackRest ==
    ASSUME IInv, NEW t \in Tasks,
           task[t].kind # None, task[t].state # "queued",
           task' = [task EXCEPT ![t] = NoTask], waiting' = waiting, withdrawn' = withdrawn \ {t},
           \A s \in Stores :
             \/ pose'[s] = pose[s]
             \/ \E k \in Kinds : \E x \in Holders(k) : Own(k, x) = s /\ Own(k, x)' # s,
           \A s \in Stores : pose[s] = None => pose'[s] = None,
           \A q \in Players :
             \/ /\ preparing'[q] = preparing[q]
                /\ preparing[q] # None => preparing[q].token # t
             \/ preparing'[q] = None /\ preparing[q] # None /\ preparing[q].token = t
    PROVE  /\ \A k \in Kinds : \A x \in Holders(k) : Own(k, x) # None /\ Own(k, x)' = Own(k, x) =>
                pose'[Own(k, x)] = pose[Own(k, x)] /\ pose[Own(k, x)] # None
           /\ \A q \in Players : RequestAgrees(q)'
           /\ \A u \in Tasks : TaskAgrees(u)'
           /\ WaitingAgrees'
           /\ \A u \in withdrawn' : Submitted(u)'
<1> USE NoneFacts
<1>1. TypeOK /\ OwnedOnce
  BY DEF IInv
<1>2. task'[t].kind = None /\ \A u \in Tasks : u # t => task'[u] = task[u]
  BY <1>1 DEF TypeOK, NoTask
<1>3. ASSUME NEW k \in Kinds, NEW x \in Holders(k), Own(k, x) # None, Own(k, x)' = Own(k, x)
      PROVE  pose'[Own(k, x)] = pose[Own(k, x)] /\ pose[Own(k, x)] # None
  <2>1. PICK s : s = Own(k, x)
    OBVIOUS
  <2>2. s \in Stores /\ pose[s] # None /\ Own(k, x)' = s
    BY <1>1, <1>3, <2>1 DEF OwnedOnce
  <2>3. pose'[s] = pose[s]
    <3>1. SUFFICES ASSUME NEW l \in Kinds, NEW y \in Holders(l), Own(l, y) = s, Own(l, y)' # s
                   PROVE  FALSE
      BY <2>2
    <3>2. l = k /\ y = x
      BY <1>1, <1>3, <2>1, <3>1 DEF OwnedOnce
    <3>3. QED
      BY <2>2, <3>1, <3>2
  <2>4. QED
    BY <2>1, <2>2, <2>3
<1>4. ASSUME NEW q \in Players, preparing'[q] # None
      PROVE  RequestAgrees(q)'
  <2>1. PICK u : u = preparing[q].token
    OBVIOUS
  <2>2. preparing'[q] = preparing[q] /\ u # t /\ preparing[q] # None
    BY <1>4, <2>1
  <2>3. u \in Tasks /\ RequestAgrees(q) /\ preparing[q].placement \in Stores
    BY <1>1, <2>1, <2>2 DEF IInv, TypeOK, Request
  <2>4. pose'[preparing[q].placement] = pose[preparing[q].placement]
    <3>1. /\ Own("pending", q) = preparing[q].placement
          /\ Own("pending", q)' = preparing[q].placement
      BY <2>2, OwnValues
    <3>2. QED
      BY <1>3, <2>3, <3>1, HolderFacts
  <2>5. task[u].kind # None /\ task'[u] = task[u]
    BY <1>2, <2>1, <2>2, <2>3 DEF RequestAgrees, Submitted
  <2>6. task[u].state = "done" => pose'[task[u].result] = pose[task[u].result]
    <3>1. Own("result", u) = task[u].result /\ Own("result", u)' = task[u].result
      BY <2>5, OwnValues
    <3>2. task[u].state = "done" => task[u].result # None
      BY <2>3, <2>5 DEF IInv, TaskAgrees, Submitted
    <3>3. QED
      BY <1>3, <2>3, <3>1, <3>2, HolderFacts
  <2>7. QED
    BY <2>1, <2>2, <2>3, <2>4, <2>5, <2>6 DEF RequestAgrees, Submitted
<1>5. \A q \in Players : RequestAgrees(q)'
  BY <1>4 DEF RequestAgrees
<1>6. ASSUME NEW u \in Tasks, u # t, task[u].kind # None
      PROVE  TaskAgrees(u)'
  <2>1. task'[u] = task[u] /\ TaskAgrees(u) /\ task[u] \in Preparation \cup Loading
    BY <1>1, <1>2, <1>6, TaskFacts DEF IInv, TypeOK, TaskRecord
  <2>2. task[u].player \in Players /\ (task[u].kind = "prepare" => task[u].schematic \in Stores)
    BY <2>1, PreparationFields, LoadingFields
  <2>3. StillWanted(u)' <=> StillWanted(u)
    BY <1>6, <2>1, <2>2, WantedFacts
  <2>4. QED
    BY <1>6, <2>1, <2>2, <2>3 DEF TaskAgrees, Submitted
<1>7. \A u \in Tasks : TaskAgrees(u)'
  BY <1>2, <1>6 DEF TaskAgrees, Submitted
<1>8. WaitingAgrees'
  <2>1. \A i \in DOMAIN waiting : waiting[i] \in Tasks /\ waiting[i] # t
    BY <1>1 DEF IInv, WaitingAgrees, TypeOK
  <2>2. QED
    BY <1>2, <2>1 DEF IInv, WaitingAgrees, Submitted
<1>9. \A u \in withdrawn' : Submitted(u)'
  BY <1>1, <1>2 DEF IInv, Submitted, TypeOK
<1>10. QED
  BY <1>3, <1>5, <1>7, <1>8, <1>9

LEMMA LoadFailureKeeps ==
    ASSUME IInv, LoadFailure
    PROVE  IInv'
<1> USE NoneFacts
<1>1. PICK t \in Tasks :
        /\ t = Head(completions) /\ ~stopping
        /\ task[t].kind = "load" /\ task[t].kind # None /\ task[t].state = "failed"
        /\ task[t].player \in Players /\ task[t].result = None
        /\ task' = [task EXCEPT ![t] = NoTask] /\ task'[t].kind = None
        /\ \A u \in Tasks : u # t => task'[u] = task[u]
        /\ completions' \in Seq(Tasks) /\ waiting' = waiting
        /\ withdrawn' = withdrawn \ {t} /\ stopping' = stopping /\ saving' = saving
        /\ online' = online /\ allowed' = allowed
  BY CallbackFacts DEF LoadFailure
<1>2. placements' = placements /\ preparing' = preparing /\ pasting' = pasting /\ pose' = pose
  BY DEF LoadFailure
<1>3. TypeOK /\ OwnedOnce
  BY DEF IInv
<1>4. TypeOK'
  BY <1>1, <1>2, <1>3 DEF TypeOK, TaskRecord
<1>5. \A k \in Kinds : \A x \in Holders(k) : Own(k, x)' = Own(k, x)
  BY <1>1, <1>2, OwnValues, HolderFacts
<1>6. \A q \in Players : preparing[q] # None => preparing[q].token # t
  BY <1>1 DEF IInv, RequestAgrees
<1>7. /\ \A q \in Players : RequestAgrees(q)'
      /\ \A u \in Tasks : TaskAgrees(u)'
      /\ WaitingAgrees'
      /\ \A u \in withdrawn' : Submitted(u)'
  BY <1>1, <1>2, <1>6, CallbackRest
<1>8. OwnedOnce'
  BY <1>2, <1>3, <1>5 DEF OwnedOnce
<1>9. \A q \in Players : ActivityAgrees(q)'
  BY <1>1, <1>2, <1>5, HolderFacts DEF IInv, ActivityAgrees
<1>10. QED
  BY <1>4, <1>7, <1>8, <1>9 DEF IInv

\* The store passes from the answer to the placement, whose old one is closed.
LEMMA LoadSuccessKeeps ==
    ASSUME IInv, LoadSuccess
    PROVE  IInv'
<1> USE NoneFacts
<1>1. PICK t \in Tasks :
        /\ t = Head(completions) /\ ~stopping
        /\ task[t].kind = "load" /\ task[t].kind # None /\ task[t].state = "done"
        /\ task[t].player \in Players /\ task[t].result \in Stores
        /\ task' = [task EXCEPT ![t] = NoTask] /\ task'[t].kind = None
        /\ \A u \in Tasks : u # t => task'[u] = task[u]
        /\ completions' \in Seq(Tasks) /\ waiting' = waiting
        /\ withdrawn' = withdrawn \ {t} /\ stopping' = stopping /\ saving' = saving
        /\ online' = online /\ allowed' = allowed
  BY CallbackFacts DEF LoadSuccess
<1>2. PICK p \in Players, n \in Stores : p = task[t].player /\ n = task[t].result
  BY <1>1
<1>3. TypeOK /\ OwnedOnce
  BY DEF IInv
<1>4. /\ preparing' = preparing /\ pasting' = pasting
      /\ \/ /\ placements' = [placements EXCEPT ![p] = n]
            /\ \E r \in Poses : pose' = [s \in Stores |-> CASE s = n -> r
                                                          [] s \in Placed(p) -> None
                                                          [] OTHER -> pose[s]]
         \/ placements' = placements /\ pose' = [s \in Stores |-> IF s \in {n} THEN None ELSE pose[s]]
  BY <1>1, <1>2 DEF LoadSuccess, Loaded, Close
<1>5. Own("result", t) = n /\ Own("result", t)' = None /\ pose[n] # None
  <2>1. Own("result", t) = n /\ Own("result", t)' = None
    BY <1>1, <1>2, OwnValues
  <2>2. QED
    BY <1>2, <1>3, <2>1, HolderFacts DEF OwnedOnce
<1>6. Own("placed", p) = placements[p] /\ placements[p] # n
  <2>1. Own("placed", p) = placements[p] /\ "result" # "placed"
    BY OwnValues
  <2>2. QED
    BY <1>2, <1>3, <1>5, <2>1, HolderFacts DEF OwnedOnce
<1>7. \A q \in Players : preparing[q] # None => preparing[q].token # t
  BY <1>1 DEF IInv, RequestAgrees
<1>8. CASE /\ placements' = [placements EXCEPT ![p] = n]
           /\ \E r \in Poses : pose' = [s \in Stores |-> CASE s = n -> r
                                                         [] s \in Placed(p) -> None
                                                         [] OTHER -> pose[s]]
  <2>1. PICK r \in Poses : pose' = [s \in Stores |-> CASE s = n -> r
                                                     [] s \in Placed(p) -> None
                                                     [] OTHER -> pose[s]]
    BY <1>8
  <2>2. /\ pose'[n] = r /\ pose' \in [Stores -> Poses \cup {None}]
        /\ \A s \in Stores : s # n /\ s # placements[p] => pose'[s] = pose[s]
        /\ \A s \in Stores : pose[s] = None => pose'[s] = pose[s]
    <3>1. pose'[n] = r
      BY <1>2, <1>6, <2>1 DEF Placed
    <3>2. ASSUME NEW s \in Stores, s # n
          PROVE  pose'[s] = IF s \in Placed(p) THEN None ELSE pose[s]
      BY <2>1, <3>2
    <3>3. \A s : s \in Placed(p) <=> s = placements[p] /\ s # None
      BY DEF Placed
    <3>4. \A s \in Stores : s # n /\ s # placements[p] => pose'[s] = pose[s]
      BY <3>2, <3>3
    <3>5. \A s \in Stores : pose[s] = None => pose'[s] = pose[s]
      BY <1>5, <3>2
    <3>6. ASSUME NEW s \in Stores
          PROVE  pose'[s] \in Poses \cup {None}
      BY <1>3, <3>1, <3>2 DEF TypeOK
    <3>7. QED
      BY <2>1, <3>1, <3>4, <3>5, <3>6
  <2>3. TypeOK'
    BY <1>1, <1>2, <1>3, <1>4, <1>8, <2>2 DEF TypeOK, TaskRecord
  <2>4. Own("placed", p)' = n
    BY <1>2, <1>3, <1>8, OwnValues DEF TypeOK
  <2>5. \A k \in Kinds : \A x \in Holders(k) :
          \/ k = "placed" /\ x = p
          \/ k = "result" /\ x = t
          \/ Own(k, x)' = Own(k, x)
    <3>1. \A x \in Players : x # p => Own("placed", x)' = Own("placed", x)
      BY <1>3, <1>8, OwnValues DEF TypeOK
    <3>2. \A x : Own("pending", x)' = Own("pending", x) /\ Own("plan", x)' = Own("plan", x)
      BY <1>4, OwnValues
    <3>3. \A x \in Tasks : x # t => Own("result", x)' = Own("result", x)
      BY <1>1, OwnValues
    <3>4. QED
      BY <3>1, <3>2, <3>3, HolderFacts
  <2>6. ASSUME NEW s \in Stores
        PROVE  \/ pose'[s] = pose[s]
               \/ \E k \in Kinds : \E x \in Holders(k) : Own(k, x) = s /\ Own(k, x)' # s
    <3>1. CASE s = n
      BY <1>5, <3>1, HolderFacts
    <3>2. CASE s # n /\ s = placements[p]
      BY <1>6, <2>4, <3>2, HolderFacts
    <3>3. QED
      BY <2>2, <3>1, <3>2
  <2>10. /\ \A k \in Kinds : \A x \in Holders(k) : Own(k, x) # None /\ Own(k, x)' = Own(k, x) =>
              pose'[Own(k, x)] = pose[Own(k, x)] /\ pose[Own(k, x)] # None
         /\ \A q \in Players : RequestAgrees(q)'
         /\ \A u \in Tasks : TaskAgrees(u)'
         /\ WaitingAgrees'
         /\ \A u \in withdrawn' : Submitted(u)'
    BY <1>1, <1>4, <1>7, <2>2, <2>6, CallbackRest
  <2>11. OwnedOnce'
    <3>1. \A k \in Kinds : \A x \in Holders(k) :
            \/ Own(k, x)' = None
            \/ Own(k, x)' = Own(k, x) /\ pose'[Own(k, x)] # None
            \/ /\ k = "placed" /\ x = p /\ Own(k, x)' = Own("result", t)
               /\ pose'[Own("result", t)] # None
      BY <1>5, <2>2, <2>4, <2>5, <2>10
    <3>2. QED
      BY <1>2, <1>3, <1>5, <3>1, OwnersMove, HolderFacts
  <2>12. ASSUME NEW q \in Players
         PROVE  ActivityAgrees(q)'
    <3>1. Own("plan", q)' = Own("plan", q) /\ "plan" \in Kinds /\ q \in Holders("plan")
      BY <1>4, OwnValues, HolderFacts
    <3>2. QED
      BY <1>1, <1>4, <2>10, <3>1 DEF IInv, ActivityAgrees
  <2>13. QED
    BY <2>3, <2>10, <2>11, <2>12 DEF IInv
<1>9. CASE /\ placements' = placements
           /\ pose' = [s \in Stores |-> IF s \in {n} THEN None ELSE pose[s]]
  <2>1. /\ pose'[n] = None /\ pose' \in [Stores -> Poses \cup {None}]
        /\ \A s \in Stores : s # n => pose'[s] = pose[s]
    BY <1>2, <1>3, <1>9 DEF TypeOK
  <2>2. TypeOK'
    BY <1>1, <1>3, <1>4, <1>9, <2>1 DEF TypeOK, TaskRecord
  <2>3. \A k \in Kinds : \A x \in Holders(k) : (k = "result" /\ x = t) \/ Own(k, x)' = Own(k, x)
    BY <1>1, <1>4, <1>9, OwnValues, HolderFacts
  <2>4. \A s \in Stores :
          \/ pose'[s] = pose[s]
          \/ \E k \in Kinds : \E x \in Holders(k) : Own(k, x) = s /\ Own(k, x)' # s
    BY <1>2, <1>5, <2>1, HolderFacts
  <2>5. \A s \in Stores : pose[s] = None => pose'[s] = None
    BY <1>5, <2>1
  <2>6. /\ \A k \in Kinds : \A x \in Holders(k) : Own(k, x) # None /\ Own(k, x)' = Own(k, x) =>
             pose'[Own(k, x)] = pose[Own(k, x)] /\ pose[Own(k, x)] # None
        /\ \A q \in Players : RequestAgrees(q)'
        /\ \A u \in Tasks : TaskAgrees(u)'
        /\ WaitingAgrees'
        /\ \A u \in withdrawn' : Submitted(u)'
    BY <1>1, <1>4, <1>7, <2>4, <2>5, CallbackRest
  <2>7. OwnedOnce'
    <3>1. \A k \in Kinds : \A x \in Holders(k) :
            Own(k, x)' = None \/ (Own(k, x)' = Own(k, x) /\ pose'[Own(k, x)] # None)
      BY <1>5, <2>3, <2>6
    <3>2. QED
      BY <1>3, <1>5, <3>1, OwnersMove, HolderFacts
  <2>8. ASSUME NEW q \in Players
        PROVE  ActivityAgrees(q)'
    <3>1. Own("plan", q)' = Own("plan", q) /\ "plan" \in Kinds /\ q \in Holders("plan")
      BY <1>4, OwnValues, HolderFacts
    <3>2. QED
      BY <1>1, <1>4, <1>9, <2>6, <3>1 DEF IInv, ActivityAgrees
  <2>9. QED
    BY <2>2, <2>6, <2>7, <2>8 DEF IInv
<1>10. QED
  BY <1>4, <1>8, <1>9

\* The plan passes from the answer to the job and the placement is closed; or both are.
LEMMA PrepareSuccessKeeps ==
    ASSUME IInv, PrepareSuccess
    PROVE  IInv'
<1> USE NoneFacts
<1>1. PICK t \in Tasks :
        /\ t = Head(completions) /\ ~stopping
        /\ task[t].kind = "prepare" /\ task[t].kind # None /\ task[t].state = "done"
        /\ task[t].player \in Players /\ task[t].result \in Stores /\ task[t].schematic \in Stores
        /\ task' = [task EXCEPT ![t] = NoTask] /\ task'[t].kind = None
        /\ \A u \in Tasks : u # t => task'[u] = task[u]
        /\ completions' \in Seq(Tasks) /\ waiting' = waiting
        /\ withdrawn' = withdrawn \ {t} /\ stopping' = stopping /\ saving' = saving
        /\ online' = online /\ allowed' = allowed
  BY CallbackFacts DEF PrepareSuccess
<1>2. PICK p \in Players, n \in Stores, c \in Stores :
        p = task[t].player /\ n = task[t].result /\ c = task[t].schematic
  BY <1>1
<1>3. TypeOK /\ OwnedOnce
  BY DEF IInv
<1>4. Own("result", t) = n /\ Own("result", t)' = None /\ pose[n] # None
  <2>1. Own("result", t) = n /\ Own("result", t)' = None
    BY <1>1, <1>2, OwnValues
  <2>2. QED
    BY <1>2, <1>3, <2>1, HolderFacts DEF OwnedOnce
<1>5. \A q \in Players : preparing[q] # None /\ preparing[q].token = t => q = p
  BY <1>2 DEF IInv, RequestAgrees
<1>6. StillWanted(t) <=> preparing[p] # None /\ preparing[p].token = t
  BY <1>2, WantedFacts
<1>7. placements' = placements /\ PrepareSuccess
  BY DEF PrepareSuccess
<1>8. CASE StillWanted(t)
  <2>1. /\ preparing[p] # None /\ preparing[p].token = t /\ preparing[p].placement = c
        /\ pose[n] = pose[c] /\ pasting[p] = None /\ p \notin saving
    BY <1>1, <1>2, <1>6, <1>8 DEF IInv, RequestAgrees, ActivityAgrees
  <2>2. Own("pending", p) = c /\ c # n
    <3>1. Own("pending", p) = c /\ "pending" # "result"
      BY <2>1, OwnValues
    <3>2. QED
      BY <1>2, <1>3, <1>4, <3>1, HolderFacts DEF OwnedOnce
  <2>3. preparing' = [preparing EXCEPT ![p] = None]
    BY <1>1, <1>2, <1>8 DEF PrepareSuccess, Prepared
  <2>4. preparing'[p] = None /\ \A q \in Players : q # p => preparing'[q] = preparing[q]
    BY <1>3, <2>3 DEF TypeOK
  <2>5. Own("pending", p)' = None
    BY <2>4, OwnValues
  <2>6. \A q \in Players :
          \/ preparing'[q] = preparing[q] /\ (preparing[q] # None => preparing[q].token # t)
          \/ preparing'[q] = None /\ preparing[q] # None /\ preparing[q].token = t
    BY <1>5, <2>1, <2>4
  <2>7. CASE p \in online
    <3>1. PICK job : job = PasteJob(t)
      OBVIOUS
    <3>2. /\ pasting' = [pasting EXCEPT ![p] = job]
          /\ pose' = [s \in Stores |-> IF s \in {c} THEN None ELSE pose[s]]
      BY <1>1, <1>2, <1>8, <2>7, <3>1 DEF PrepareSuccess, Prepared, Close
    <3>3. pose[c] \in Poses
      BY <1>2, <1>3, <1>4, <2>1 DEF TypeOK
    <3>4. job \in Job /\ job.plan = n /\ job.pose = pose[c] /\ job # None
      BY <1>2, <3>1, <3>3 DEF PasteJob, Job
    <3>5. /\ pose'[c] = None /\ pose' \in [Stores -> Poses \cup {None}]
          /\ \A s \in Stores : s # c => pose'[s] = pose[s]
      BY <1>2, <1>3, <3>2 DEF TypeOK
    <3>6. /\ pasting'[p] = job /\ pasting' \in [Players -> Job \cup {None}]
          /\ \A q \in Players : q # p => pasting'[q] = pasting[q]
      BY <1>3, <3>2, <3>4 DEF TypeOK
    <3>7. TypeOK'
      BY <1>1, <1>3, <1>7, <2>3, <3>5, <3>6 DEF TypeOK, TaskRecord
    <3>8. Own("plan", p)' = n
      BY <3>4, <3>6, OwnValues
    <3>9. \A k \in Kinds : \A x \in Holders(k) :
            \/ k = "plan" /\ x = p
            \/ k = "pending" /\ x = p
            \/ k = "result" /\ x = t
            \/ Own(k, x)' = Own(k, x)
      BY <1>1, <1>7, <2>4, <3>6, OwnValues, HolderFacts
    <3>10. \A s \in Stores :
             \/ pose'[s] = pose[s]
             \/ \E k \in Kinds : \E x \in Holders(k) : Own(k, x) = s /\ Own(k, x)' # s
      BY <1>2, <2>2, <2>5, <3>5, HolderFacts
    <3>11. \A s \in Stores : pose[s] = None => pose'[s] = None
      BY <1>2, <3>5
    <3>12. /\ \A k \in Kinds : \A x \in Holders(k) : Own(k, x) # None /\ Own(k, x)' = Own(k, x) =>
                pose'[Own(k, x)] = pose[Own(k, x)] /\ pose[Own(k, x)] # None
           /\ \A q \in Players : RequestAgrees(q)'
           /\ \A u \in Tasks : TaskAgrees(u)'
           /\ WaitingAgrees'
           /\ \A u \in withdrawn' : Submitted(u)'
      BY <1>1, <2>6, <3>10, <3>11, CallbackRest
    <3>13. OwnedOnce'
      <4>1. \A k \in Kinds : \A x \in Holders(k) :
              \/ Own(k, x)' = None
              \/ Own(k, x)' = Own(k, x) /\ pose'[Own(k, x)] # None
              \/ /\ k = "plan" /\ x = p /\ Own(k, x)' = Own("result", t)
                 /\ pose'[Own("result", t)] # None
        BY <1>2, <1>4, <2>2, <2>5, <3>5, <3>8, <3>9, <3>12
      <4>2. QED
        BY <1>2, <1>3, <1>4, <4>1, OwnersMove, HolderFacts
    <3>14. ASSUME NEW q \in Players
           PROVE  ActivityAgrees(q)'
      <4>1. CASE q = p
        BY <1>1, <1>2, <2>1, <2>2, <2>4, <3>4, <3>5, <3>6, <3>8, <4>1 DEF ActivityAgrees
      <4>2. CASE q # p
        <5>1. Own("plan", q)' = Own("plan", q) /\ "plan" \in Kinds /\ q \in Holders("plan")
          BY <3>6, <4>2, OwnValues, HolderFacts
        <5>2. QED
          BY <1>1, <2>4, <3>6, <3>12, <4>2, <5>1 DEF IInv, ActivityAgrees
      <4>3. QED
        BY <4>1, <4>2
    <3>15. QED
      BY <3>7, <3>12, <3>13, <3>14 DEF IInv
  <2>8. CASE p \notin online
    <3>1. /\ pasting' = pasting
          /\ pose' = [s \in Stores |-> IF s \in {c, n} THEN None ELSE pose[s]]
      BY <1>1, <1>2, <1>8, <2>8 DEF PrepareSuccess, Prepared, Close
    <3>2. /\ pose' \in [Stores -> Poses \cup {None}] /\ pose'[c] = None /\ pose'[n] = None
          /\ \A s \in Stores : s # c /\ s # n => pose'[s] = pose[s]
      BY <1>2, <1>3, <3>1 DEF TypeOK
    <3>3. TypeOK'
      BY <1>1, <1>3, <1>7, <2>3, <3>1, <3>2 DEF TypeOK, TaskRecord
    <3>4. \A k \in Kinds : \A x \in Holders(k) :
            \/ k = "pending" /\ x = p
            \/ k = "result" /\ x = t
            \/ Own(k, x)' = Own(k, x)
      BY <1>1, <1>7, <2>4, <3>1, OwnValues, HolderFacts
    <3>5. \A s \in Stores :
            \/ pose'[s] = pose[s]
            \/ \E k \in Kinds : \E x \in Holders(k) : Own(k, x) = s /\ Own(k, x)' # s
      BY <1>2, <1>4, <2>2, <2>5, <3>2, HolderFacts
    <3>6. \A s \in Stores : pose[s] = None => pose'[s] = None
      BY <3>2
    <3>7. /\ \A k \in Kinds : \A x \in Holders(k) : Own(k, x) # None /\ Own(k, x)' = Own(k, x) =>
               pose'[Own(k, x)] = pose[Own(k, x)] /\ pose[Own(k, x)] # None
          /\ \A q \in Players : RequestAgrees(q)'
          /\ \A u \in Tasks : TaskAgrees(u)'
          /\ WaitingAgrees'
          /\ \A u \in withdrawn' : Submitted(u)'
      BY <1>1, <2>6, <3>5, <3>6, CallbackRest
    <3>8. OwnedOnce'
      <4>1. \A k \in Kinds : \A x \in Holders(k) :
              Own(k, x)' = None \/ (Own(k, x)' = Own(k, x) /\ pose'[Own(k, x)] # None)
        BY <1>4, <2>5, <3>4, <3>7
      <4>2. QED
        BY <1>3, <1>4, <4>1, OwnersMove, HolderFacts
    <3>9. ASSUME NEW q \in Players
          PROVE  ActivityAgrees(q)'
      <4>1. Own("plan", q)' = Own("plan", q) /\ "plan" \in Kinds /\ q \in Holders("plan")
        BY <3>1, OwnValues, HolderFacts
      <4>2. preparing'[q] = None \/ preparing'[q] = preparing[q]
        BY <2>4
      <4>3. QED
        BY <1>1, <1>7, <3>1, <3>7, <4>1, <4>2 DEF IInv, ActivityAgrees
    <3>10. QED
      BY <3>3, <3>7, <3>8, <3>9 DEF IInv
  <2>9. QED
    BY <2>7, <2>8
<1>9. CASE ~StillWanted(t)
  <2>1. /\ pasting' = pasting /\ preparing' = preparing
        /\ pose' = [s \in Stores |-> IF s \in {c, n} THEN None ELSE pose[s]]
    BY <1>1, <1>2, <1>9 DEF PrepareSuccess, Prepared, Close
  <2>2. pose[c] = None
    BY <1>1, <1>2, <1>9 DEF IInv, TaskAgrees, Submitted
  <2>3. /\ pose' \in [Stores -> Poses \cup {None}] /\ pose'[n] = None
        /\ \A s \in Stores : s # n => pose'[s] = pose[s]
    BY <1>2, <1>3, <2>1, <2>2 DEF TypeOK
  <2>4. TypeOK'
    BY <1>1, <1>3, <1>7, <2>1, <2>3 DEF TypeOK, TaskRecord
  <2>5. \A k \in Kinds : \A x \in Holders(k) :
          (k = "result" /\ x = t) \/ Own(k, x)' = Own(k, x)
    BY <1>1, <1>7, <2>1, OwnValues, HolderFacts
  <2>6. \A s \in Stores :
          \/ pose'[s] = pose[s]
          \/ \E k \in Kinds : \E x \in Holders(k) : Own(k, x) = s /\ Own(k, x)' # s
    BY <1>2, <1>4, <2>3, HolderFacts
  <2>7. \A s \in Stores : pose[s] = None => pose'[s] = None
    BY <2>3
  <2>8. \A q \in Players : preparing'[q] = preparing[q] /\ (preparing[q] # None => preparing[q].token # t)
    BY <1>5, <1>6, <1>9, <2>1
  <2>9. /\ \A k \in Kinds : \A x \in Holders(k) : Own(k, x) # None /\ Own(k, x)' = Own(k, x) =>
             pose'[Own(k, x)] = pose[Own(k, x)] /\ pose[Own(k, x)] # None
        /\ \A q \in Players : RequestAgrees(q)'
        /\ \A u \in Tasks : TaskAgrees(u)'
        /\ WaitingAgrees'
        /\ \A u \in withdrawn' : Submitted(u)'
    <3>1. /\ task[t].kind # None /\ task[t].state # "queued"
          /\ task' = [task EXCEPT ![t] = NoTask] /\ waiting' = waiting
          /\ withdrawn' = withdrawn \ {t}
      BY <1>1
    <3>2. \A q \in Players :
            \/ /\ preparing'[q] = preparing[q]
               /\ preparing[q] # None => preparing[q].token # t
            \/ preparing'[q] = None /\ preparing[q] # None /\ preparing[q].token = t
      BY <2>8
    <3>3. QED
      BY <2>6, <2>7, <3>1, <3>2, CallbackRest
  <2>10. OwnedOnce'
    <3>1. \A k \in Kinds : \A x \in Holders(k) :
            Own(k, x)' = None \/ (Own(k, x)' = Own(k, x) /\ pose'[Own(k, x)] # None)
      BY <1>4, <2>5, <2>9
    <3>2. QED
      BY <1>3, <1>4, <3>1, OwnersMove, HolderFacts
  <2>11. ASSUME NEW q \in Players
         PROVE  ActivityAgrees(q)'
    <3>1. Own("plan", q)' = Own("plan", q) /\ "plan" \in Kinds /\ q \in Holders("plan")
      BY <2>1, OwnValues, HolderFacts
    <3>2. QED
      BY <1>1, <1>7, <2>1, <2>9, <3>1 DEF IInv, ActivityAgrees
  <2>12. QED
    BY <2>4, <2>9, <2>10, <2>11 DEF IInv
<1>10. QED
  BY <1>8, <1>9

\* The placement comes back from the preparation, over one loaded meanwhile; or it is closed.
LEMMA PrepareFailureKeeps ==
    ASSUME IInv, PrepareFailure
    PROVE  IInv'
<1> USE NoneFacts
<1>1. PICK t \in Tasks :
        /\ t = Head(completions) /\ ~stopping
        /\ task[t].kind = "prepare" /\ task[t].kind # None /\ task[t].state = "failed"
        /\ task[t].player \in Players /\ task[t].result = None /\ task[t].schematic \in Stores
        /\ task' = [task EXCEPT ![t] = NoTask] /\ task'[t].kind = None
        /\ \A u \in Tasks : u # t => task'[u] = task[u]
        /\ completions' \in Seq(Tasks) /\ waiting' = waiting
        /\ withdrawn' = withdrawn \ {t} /\ stopping' = stopping /\ saving' = saving
        /\ online' = online /\ allowed' = allowed
  BY CallbackFacts DEF PrepareFailure
<1>2. PICK p \in Players, c \in Stores : p = task[t].player /\ c = task[t].schematic
  BY <1>1
<1>3. TypeOK /\ OwnedOnce
  BY DEF IInv
<1>4. Own("result", t) = None /\ Own("result", t)' = None
  BY <1>1, OwnValues
<1>5. \A q \in Players : preparing[q] # None /\ preparing[q].token = t => q = p
  BY <1>2 DEF IInv, RequestAgrees
<1>6. StillWanted(t) <=> preparing[p] # None /\ preparing[p].token = t
  BY <1>2, WantedFacts
<1>7. pasting' = pasting /\ PrepareFailure
  BY DEF PrepareFailure
<1>8. \A q \in Players : Own("plan", q)' = Own("plan", q) /\ "plan" \in Kinds /\ q \in Holders("plan")
  BY <1>7, OwnValues, HolderFacts
<1>9. CASE StillWanted(t)
  <2>1. preparing[p] # None /\ preparing[p].token = t /\ preparing[p].placement = c
    BY <1>1, <1>2, <1>6, <1>9 DEF IInv, RequestAgrees
  <2>2. Own("pending", p) = c /\ pose[c] # None
    <3>1. Own("pending", p) = c
      BY <2>1, OwnValues
    <3>2. QED
      BY <1>2, <1>3, <3>1, HolderFacts DEF OwnedOnce
  <2>3. preparing' = [preparing EXCEPT ![p] = None]
    BY <1>1, <1>2, <1>9 DEF PrepareFailure, NotPrepared
  <2>4. preparing'[p] = None /\ \A q \in Players : q # p => preparing'[q] = preparing[q]
    BY <1>3, <2>3 DEF TypeOK
  <2>5. Own("pending", p)' = None
    BY <2>4, OwnValues
  <2>6. \A q \in Players :
          \/ preparing'[q] = preparing[q] /\ (preparing[q] # None => preparing[q].token # t)
          \/ preparing'[q] = None /\ preparing[q] # None /\ preparing[q].token = t
    BY <1>5, <2>1, <2>4
  <2>7. CASE p \in online
    <3>1. /\ placements' = [placements EXCEPT ![p] = c]
          /\ pose' = [s \in Stores |-> IF s \in Placed(p) THEN None ELSE pose[s]]
      BY <1>1, <1>2, <1>9, <2>7 DEF PrepareFailure, NotPrepared, Close
    <3>2. Own("placed", p) = placements[p] /\ placements[p] # c
      <4>1. Own("placed", p) = placements[p] /\ "pending" # "placed"
        BY OwnValues
      <4>2. QED
        BY <1>2, <1>3, <2>2, <4>1, HolderFacts DEF OwnedOnce
    <3>3. /\ pose' \in [Stores -> Poses \cup {None}]
          /\ \A s \in Stores : s # placements[p] => pose'[s] = pose[s]
          /\ \A s \in Stores : pose[s] = None => pose'[s] = None
      BY <1>3, <3>1 DEF Placed, TypeOK
    <3>4. /\ placements'[p] = c /\ placements' \in [Players -> Stores \cup {None}]
          /\ \A q \in Players : q # p => placements'[q] = placements[q]
      BY <1>2, <1>3, <3>1 DEF TypeOK
    <3>5. TypeOK'
      BY <1>1, <1>3, <1>7, <2>3, <3>3, <3>4 DEF TypeOK, TaskRecord
    <3>6. Own("placed", p)' = c
      BY <3>4, OwnValues
    <3>7. \A k \in Kinds : \A x \in Holders(k) :
            \/ k = "placed" /\ x = p
            \/ k = "pending" /\ x = p
            \/ Own(k, x)' = Own(k, x)
      BY <1>1, <1>4, <1>7, <2>4, <3>4, OwnValues, HolderFacts
    <3>8. \A s \in Stores :
            \/ pose'[s] = pose[s]
            \/ \E k \in Kinds : \E x \in Holders(k) : Own(k, x) = s /\ Own(k, x)' # s
      BY <3>2, <3>3, <3>6, HolderFacts
    <3>9. /\ \A k \in Kinds : \A x \in Holders(k) : Own(k, x) # None /\ Own(k, x)' = Own(k, x) =>
               pose'[Own(k, x)] = pose[Own(k, x)] /\ pose[Own(k, x)] # None
          /\ \A q \in Players : RequestAgrees(q)'
          /\ \A u \in Tasks : TaskAgrees(u)'
          /\ WaitingAgrees'
          /\ \A u \in withdrawn' : Submitted(u)'
      BY <1>1, <2>6, <3>3, <3>8, CallbackRest
    <3>10. OwnedOnce'
      <4>1. \A k \in Kinds : \A x \in Holders(k) :
              \/ Own(k, x)' = None
              \/ Own(k, x)' = Own(k, x) /\ pose'[Own(k, x)] # None
              \/ /\ k = "placed" /\ x = p /\ Own(k, x)' = Own("pending", p)
                 /\ pose'[Own("pending", p)] # None
        BY <1>2, <2>2, <2>5, <3>2, <3>3, <3>6, <3>7, <3>9
      <4>2. QED
        BY <1>2, <1>3, <2>5, <4>1, OwnersMove, HolderFacts
    <3>11. ASSUME NEW q \in Players
           PROVE  ActivityAgrees(q)'
      <4>1. preparing'[q] = None \/ preparing'[q] = preparing[q]
        BY <2>4
      <4>2. QED
        BY <1>1, <1>7, <1>8, <3>9, <4>1 DEF IInv, ActivityAgrees
    <3>12. QED
      BY <3>5, <3>9, <3>10, <3>11 DEF IInv
  <2>8. CASE p \notin online
    <3>1. /\ placements' = placements
          /\ pose' = [s \in Stores |-> IF s \in {c} THEN None ELSE pose[s]]
      BY <1>1, <1>2, <1>9, <2>8 DEF PrepareFailure, NotPrepared, Close
    <3>2. /\ pose' \in [Stores -> Poses \cup {None}]
          /\ \A s \in Stores : s # c => pose'[s] = pose[s]
          /\ \A s \in Stores : pose[s] = None => pose'[s] = None
      BY <1>2, <1>3, <3>1 DEF TypeOK
    <3>3. TypeOK'
      BY <1>1, <1>3, <1>7, <2>3, <3>1, <3>2 DEF TypeOK, TaskRecord
    <3>4. \A k \in Kinds : \A x \in Holders(k) :
            (k = "pending" /\ x = p) \/ Own(k, x)' = Own(k, x)
      BY <1>1, <1>4, <1>7, <2>4, <3>1, OwnValues, HolderFacts
    <3>5. \A s \in Stores :
            \/ pose'[s] = pose[s]
            \/ \E k \in Kinds : \E x \in Holders(k) : Own(k, x) = s /\ Own(k, x)' # s
      BY <1>2, <2>2, <2>5, <3>2, HolderFacts
    <3>6. /\ \A k \in Kinds : \A x \in Holders(k) : Own(k, x) # None /\ Own(k, x)' = Own(k, x) =>
               pose'[Own(k, x)] = pose[Own(k, x)] /\ pose[Own(k, x)] # None
          /\ \A q \in Players : RequestAgrees(q)'
          /\ \A u \in Tasks : TaskAgrees(u)'
          /\ WaitingAgrees'
          /\ \A u \in withdrawn' : Submitted(u)'
      BY <1>1, <2>6, <3>2, <3>5, CallbackRest
    <3>7. OwnedOnce'
      <4>1. \A k \in Kinds : \A x \in Holders(k) :
              Own(k, x)' = None \/ (Own(k, x)' = Own(k, x) /\ pose'[Own(k, x)] # None)
        BY <2>5, <3>4, <3>6
      <4>2. QED
        BY <1>2, <1>3, <1>4, <4>1, OwnersMove, HolderFacts
    <3>8. ASSUME NEW q \in Players
          PROVE  ActivityAgrees(q)'
      <4>1. preparing'[q] = None \/ preparing'[q] = preparing[q]
        BY <2>4
      <4>2. QED
        BY <1>1, <1>7, <1>8, <3>1, <3>6, <4>1 DEF IInv, ActivityAgrees
    <3>9. QED
      BY <3>3, <3>6, <3>7, <3>8 DEF IInv
  <2>9. QED
    BY <2>7, <2>8
<1>10. CASE ~StillWanted(t)
  <2>1. /\ placements' = placements /\ preparing' = preparing
        /\ pose' = [s \in Stores |-> IF s \in {c} THEN None ELSE pose[s]]
    BY <1>1, <1>2, <1>10 DEF PrepareFailure, NotPrepared, Close
  <2>2. pose[c] = None
    BY <1>1, <1>2, <1>10 DEF IInv, TaskAgrees, Submitted
  <2>3. pose' \in [Stores -> Poses \cup {None}] /\ \A s \in Stores : pose'[s] = pose[s]
    BY <1>2, <1>3, <2>1, <2>2 DEF TypeOK
  <2>4. TypeOK'
    BY <1>1, <1>3, <1>7, <2>1, <2>3 DEF TypeOK, TaskRecord
  <2>5. \A k \in Kinds : \A x \in Holders(k) : Own(k, x)' = Own(k, x)
    BY <1>1, <1>4, <1>7, <2>1, OwnValues, HolderFacts
  <2>6. \A q \in Players : preparing'[q] = preparing[q] /\ (preparing[q] # None => preparing[q].token # t)
    BY <1>5, <1>6, <1>10, <2>1
  <2>7. /\ \A k \in Kinds : \A x \in Holders(k) : Own(k, x) # None /\ Own(k, x)' = Own(k, x) =>
             pose'[Own(k, x)] = pose[Own(k, x)] /\ pose[Own(k, x)] # None
        /\ \A q \in Players : RequestAgrees(q)'
        /\ \A u \in Tasks : TaskAgrees(u)'
        /\ WaitingAgrees'
        /\ \A u \in withdrawn' : Submitted(u)'
    BY <1>1, <2>3, <2>6, CallbackRest
  <2>8. OwnedOnce'
    BY <1>3, <2>5, <2>7 DEF OwnedOnce
  <2>9. ASSUME NEW q \in Players
        PROVE  ActivityAgrees(q)'
    BY <1>1, <1>7, <1>8, <2>1, <2>7 DEF IInv, ActivityAgrees
  <2>10. QED
    BY <2>4, <2>7, <2>8, <2>9 DEF IInv
<1>11. QED
  BY <1>9, <1>10

----------------------------------------------------------------------------
(* The invariant and what follows from it. *)

LEMMA InitEstablishes == Init => IInv
<1> USE NoneFacts
<1>1. SUFFICES ASSUME Init
               PROVE  IInv
  OBVIOUS
<1>2. /\ \A q \in Players : placements[q] = None /\ preparing[q] = None /\ pasting[q] = None
      /\ \A t \in Tasks : task[t].kind = None
      /\ saving = {} /\ waiting = <<>> /\ withdrawn = {} /\ stopping = FALSE
  BY <1>1 DEF Init, NoTask
<1>3. TypeOK
  <2>1. waiting \in Seq(Tasks) /\ completions \in Seq(Tasks)
    BY <1>1 DEF Init
  <2>2. QED
    BY <1>1, <2>1 DEF Init, TypeOK
<1>4. \A k \in Kinds : \A x \in Holders(k) : Own(k, x) = None
  BY <1>2, OwnValues, HolderFacts
<1>5. OwnedOnce
  BY <1>4 DEF OwnedOnce
<1>6. \A q \in Players : ActivityAgrees(q) /\ RequestAgrees(q)
  BY <1>2, <1>4, HolderFacts DEF ActivityAgrees, RequestAgrees
<1>7. WaitingAgrees /\ \A t \in Tasks : TaskAgrees(t)
  BY <1>2 DEF WaitingAgrees, TaskAgrees, Submitted
<1>8. QED
  BY <1>2, <1>3, <1>5, <1>6, <1>7 DEF IInv

LEMMA StutterKeeps ==
    ASSUME IInv, UNCHANGED vars
    PROVE  IInv'
<1>1. /\ task' = task /\ waiting' = waiting /\ completions' = completions /\ stopping' = stopping
      /\ online' = online /\ allowed' = allowed /\ withdrawn' = withdrawn
      /\ placements' = placements /\ preparing' = preparing /\ saving' = saving
      /\ pasting' = pasting /\ pose' = pose
  BY DEF vars, people, tables, executor
<1>2. TypeOK' /\ WaitingAgrees'
  BY <1>1 DEF IInv, TypeOK, WaitingAgrees, Submitted
<1>3. /\ OwnedOnce' /\ \A q \in Players : RequestAgrees(q)'
      /\ \A t \in Tasks : TaskAgrees(t)'
      /\ \A t \in withdrawn' : Submitted(t)'
  BY <1>1, OwnersStay, SomeTask
<1>4. \A q \in Players : Own("plan", q)' = Own("plan", q)
  BY <1>1, OwnValues
<1>5. \A q \in Players : ActivityAgrees(q)'
  BY <1>1, <1>4 DEF IInv, ActivityAgrees
<1>6. QED
  BY <1>2, <1>3, <1>5 DEF IInv

LEMMA StepKeepsInvariant == IInv /\ [Next]_vars => IInv'
<1>1. SUFFICES ASSUME IInv, [Next]_vars
               PROVE  IInv'
  OBVIOUS
<1>2. ASSUME NEW p \in Players, PlayerActs(p)
      PROVE  IInv'
  BY <1>1, <1>2, RequestLoadKeeps, MovePlacementKeeps, StartPasteKeeps, TablesOnlyKeep,
     CancelPlacementKeeps, CancelAllKeeps DEF PlayerActs
<1>3. ASSUME NEW p \in Players,
             \/ JobEnds(p) \/ PreviewExpires(p) \/ Quit(p) \/ Join(p) \/ AccessChanges(p)
      PROVE  IInv'
  BY <1>1, <1>3, JobEndsKeeps, PreviewExpiresKeeps, QuitKeeps, TablesOnlyKeep
<1>4. ASSUME StartTask \/ \E t \in Tasks : TaskSucceeds(t) \/ TaskFails(t)
      PROVE  IInv'
  BY <1>1, <1>4, ExecutorKeeps, TaskSucceedsKeeps
<1>5. ASSUME Ticks
      PROVE  IInv'
  BY <1>1, <1>5, LoadSuccessKeeps, LoadFailureKeeps, PrepareSuccessKeeps, PrepareFailureKeeps
     DEF Ticks
<1>6. CASE Disable
  BY <1>1, <1>6, DisableKeeps
<1>7. CASE UNCHANGED vars
  BY <1>1, <1>7, StutterKeeps
<1>8. QED
  BY <1>1, <1>2, <1>3, <1>4, <1>5, <1>6, <1>7 DEF Next

LEMMA InvariantGivesOwnership == IInv => StoresOwned /\ OneActivity
<1> USE NoneFacts
<1>1. SUFFICES ASSUME IInv
               PROVE  StoresOwned /\ OneActivity
  OBVIOUS
<1>2. TypeOK /\ OwnedOnce
  BY <1>1 DEF IInv
<1>3. \A p \in Players : \A s : /\ s \in Placed(p) <=> s = Own("placed", p) /\ s # None
                                /\ s \in Pending(p) => s = Own("pending", p) /\ s # None
                                /\ s \in Plan(p) <=> s = Own("plan", p) /\ s # None
  <2>1. SUFFICES ASSUME NEW p \in Players, NEW s
                 PROVE  /\ s \in Placed(p) <=> s = Own("placed", p) /\ s # None
                        /\ s \in Pending(p) => s = Own("pending", p) /\ s # None
                        /\ s \in Plan(p) <=> s = Own("plan", p) /\ s # None
    OBVIOUS
  <2>2. preparing[p] # None => preparing[p].placement \in Stores
    BY <1>2 DEF TypeOK, Request
  <2>3. QED
    BY <2>2, OwnValues DEF Placed, Pending, Plan
<1>4. \A s : s \in Open <=> s \in Stores /\ pose[s] # None
  BY DEF Open
<1>5. ASSUME NEW p \in Players
      PROVE  Placed(p) \cup Pending(p) \cup Plan(p) \subseteq Open
  BY <1>2, <1>3, <1>4, HolderFacts DEF OwnedOnce
<1>6. ASSUME NEW p \in Players, NEW q \in Players
      PROVE  /\ Placed(p) \cap (Pending(q) \cup Plan(q)) = {} /\ Pending(p) \cap Plan(q) = {}
             /\ p # q => /\ Placed(p) \cap Placed(q) = {} /\ Pending(p) \cap Pending(q) = {}
                         /\ Plan(p) \cap Plan(q) = {}
  BY <1>2, <1>3, HolderFacts DEF OwnedOnce
<1>7. StoresOwned
  BY <1>5, <1>6 DEF StoresOwned
<1>8. ASSUME NEW p \in Players
      PROVE  /\ p \in saving => pasting[p] = None /\ preparing[p] = None
             /\ pasting[p] # None => preparing[p] = None
             /\ Plan(p) # {} => pasting[p].pose = pose[pasting[p].plan]
             /\ stopping => Placed(p) = {} /\ ~Busy(p)
  <2>1. ActivityAgrees(p)
    BY <1>1 DEF IInv
  <2>2. Plan(p) # {} => Own("plan", p) # None /\ Own("plan", p) = pasting[p].plan
    BY <1>3, OwnValues DEF Plan
  <2>3. QED
    BY <2>1, <2>2 DEF ActivityAgrees, Placed, Busy
<1>9. QED
  BY <1>7, <1>8 DEF OneActivity

\* A paste job appears only where its token was found, and tokens are not withdrawn.
LEMMA WantedPastes ==
    ASSUME IInv, [Next]_vars, NEW p \in Players,
           pasting'[p] # pasting[p], pasting'[p] # None, pasting'[p].operation = "paste"
    PROVE  pasting'[p].request \notin withdrawn
<1> USE NoneFacts
<1>1. TypeOK
  BY DEF IInv
<1>2. CASE PrepareSuccess
  <2>1. PICK t : t = Head(completions)
    OBVIOUS
  <2>2. PICK q : q = task[t].player
    OBVIOUS
  <2>3. PICK job : job = PasteJob(t)
    OBVIOUS
  <2>4. StillWanted(t) /\ pasting' = [pasting EXCEPT ![q] = job]
    BY <1>2, <2>1, <2>2, <2>3 DEF PrepareSuccess, Prepared
  <2>5. p = q /\ pasting'[p] = job
    BY <1>1, <2>4 DEF TypeOK
  <2>6. job.request = t
    BY <2>3 DEF PasteJob
  <2>7. preparing[q] # None /\ preparing[q].token = t
    BY <2>2, <2>4 DEF StillWanted, Requested
  <2>8. t \notin withdrawn
    BY <2>5, <2>7 DEF IInv, RequestAgrees
  <2>9. QED
    BY <2>5, <2>6, <2>8
<1>3. ASSUME NEW q \in Players, StartHistoryAction(q)
      PROVE  FALSE
  <2>1. pasting' = [pasting EXCEPT ![q] = [operation |-> "history", plan |-> None, pose |-> None,
                                           request |-> None]]
    BY <1>3 DEF StartHistoryAction
  <2>2. pasting'[p] = [operation |-> "history", plan |-> None, pose |-> None, request |-> None]
    BY <1>1, <2>1 DEF TypeOK
  <2>3. QED
    BY <2>2
<1>4. ASSUME NEW q \in Players,
             \/ RequestLoad(q) \/ MovePlacement(q) \/ StartPaste(q) \/ StartSave(q)
             \/ CancelPlacement(q) \/ CancelAll(q) \/ JobEnds(q) \/ PreviewExpires(q)
             \/ Quit(q) \/ Join(q) \/ AccessChanges(q)
      PROVE  FALSE
  <2>1. pasting' = pasting \/ pasting' = [pasting EXCEPT ![q] = None]
    BY <1>4 DEF RequestLoad, MovePlacement, StartPaste, StartSave, CancelPlacement, CancelAll,
       JobEnds, PreviewExpires, Quit, Join, AccessChanges, tables
  <2>2. QED
    BY <1>1, <2>1 DEF TypeOK
<1>5. CASE StartTask \/ \E t \in Tasks : TaskSucceeds(t) \/ TaskFails(t)
  BY <1>5 DEF StartTask, TaskSucceeds, TaskFails, tables
<1>6. CASE LoadSuccess \/ LoadFailure \/ PrepareFailure
  BY <1>6 DEF LoadSuccess, LoadFailure, PrepareFailure
<1>7. CASE Disable
  BY <1>7 DEF Disable
<1>8. CASE UNCHANGED vars
  BY <1>8 DEF vars, tables
<1>9. QED
  BY <1>2, <1>3, <1>4, <1>5, <1>6, <1>7, <1>8 DEF Next, PlayerActs, Ticks

\* Whatever a player does while workers load and prepare, every variable keeps its type: no
\* table, task or queue ever holds what its handlers do not expect.
THEOREM SessionTypeCorrect == Spec => []TypeOK
<1>1. IInv => TypeOK
  BY DEF IInv
<1>2. QED
  BY <1>1, InitEstablishes, StepKeepsInvariant, PTL DEF Spec

\* Every store a placement, a preparation or a paste job needs is open and owned once, with
\* any number of players, threads and late callbacks (_cleanup_placement, _cleanup_plan).
THEOREM StoresAlwaysOwned == Spec => []StoresOwned
<1>1. IInv => StoresOwned
  BY InvariantGivesOwnership
<1>2. QED
  BY <1>1, InitEstablishes, StepKeepsInvariant, PTL DEF Spec

\* A player has one activity at a time, none once the plugin is disabled, and a paste job
\* is for the pose its plan was built for (start_paste, on_disable).
THEOREM AlwaysOneActivity == Spec => []OneActivity
<1>1. IInv => OneActivity
  BY InvariantGivesOwnership
<1>2. QED
  BY <1>1, InitEstablishes, StepKeepsInvariant, PTL DEF Spec

\* No result of a request that was cancelled or left ever becomes a job (start_paste's token).
THEOREM OnlyWantedPastes == Spec => OnlyWantedPastesStart
<1>1. IInv /\ [Next]_vars =>
        [\A p \in Players :
           pasting'[p] # pasting[p] /\ pasting'[p] # None /\ pasting'[p].operation = "paste"
             => pasting'[p].request \notin withdrawn]_vars
  BY WantedPastes
<1>2. QED
  BY <1>1, InitEstablishes, StepKeepsInvariant, PTL DEF Spec, OnlyWantedPastesStart

=============================================================================
