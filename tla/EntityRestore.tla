----------------------------- MODULE EntityRestore -----------------------------
(***************************************************************************)
(* Block entities from their capture by a save, through the codec and the   *)
(* planner, to what a paste restores of them.                               *)
(***************************************************************************)
EXTENDS Loading, BlockData

CONSTANT ActorAt(_)  \* bound: the block entity at a position, of which EntityAt is the payload

EntityPlaces == (UNION {Box(size) : size \in Sizes}) \cup (UNION Strays)

ASSUME EntityAssumption ==
    \A place \in EntityPlaces :
      IsActor(ActorAt(place)) /\ EntityAt(place) = Snapshot(ActorAt(place))

\* snapshot_entity_payload writes the NBT of an actor key by key and wraps it never, and
\* restore reads it as one value: with these keys it is taken for a wrapper.  (What becomes of
\* an actor whose only key is CompoundWrapper depends on its value: no more is said of it.)
TakenForWrapper(actor) ==
    \/ Writable(actor) \in ReservedShapes \ {{CompoundWrapper}}
    \/ /\ Writable(actor) = {CompoundWrapper}
       /\ actor.nbt[CompoundWrapper][1] = "compound"
       /\ DOMAIN actor.nbt[CompoundWrapper][2] \notin ReservedShapes

\* What a paste restores of a captured actor is the actor, or an error says that it could not
\* be, and there is one only for values that are nested too deep or containers that are not
\* sound.  That is for an actor whose keys are not those of a wrapper.  Items are restored
\* right or refused for every actor, but NBT that is taken for a wrapper never comes back as it
\* was: restore writes something else without an error, or raises one.
Survived(actor, payload) ==
    LET restored == Restored(payload)
        silent == Captured(payload) /\ Raised \notin {restored.nbt, restored.slots}
    IN /\ Writable(actor) \notin ReservedShapes =>
            /\ Restorable(actor) => Captured(payload) /\ restored = Original(actor)
            /\ silent => restored = Original(actor)
       /\ silent => restored.slots = Original(actor).slots
       /\ TakenForWrapper(actor) /\ actor.type \notin Shelves /\ Captured(payload) =>
            restored.nbt # Original(actor).nbt

\* The block entity a paste restores at a turned place is the one captured there, through the
\* codec and the planner: no value changes its type, no compound inside of it is taken for a
\* wrapper, no item changes its slot, or an error says so (_encode_nbt, _decode_nbt, restore).
EntitiesSurvive ==
    pc = "planned" =>
      \A place \in DOMAIN schematic.entities :
        Survived(ActorAt(place), TurnedEntities(schematic, rotation)
                                   [RotateCoord(place, schematic.size, rotation)])
===============================================================================
