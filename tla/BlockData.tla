------------------------------- MODULE BlockData -------------------------------
(***************************************************************************)
(* blockdata_integration.py: the typed NBT of a block entity as JSON and    *)
(* back.  JSON has no bytes, no integer widths and no infinite numbers, so  *)
(* these become objects of reserved shapes, and a compound that happens to  *)
(* have such a shape is wrapped once more.                                  *)
(*                                                                          *)
(* NBT: <<"plain", v>> (a string, number or truth value), <<"float", v>>    *)
(* that is not finite, <<"scalar", kind, v>>, <<"bytes", v>>, <<"compound", *)
(* values by key>>, <<"list", values>>.  JSON: <<"leaf", v>>, <<"object",   *)
(* values by key>>, <<"array", values>>.                                    *)
(***************************************************************************)
EXTENDS Integers, Sequences, FiniteSets

CONSTANTS
    NbtValues,    \* bound: the NBT values there are, the members of collections among them
    MaxDepth,     \* 64: deepest level of a value
    ReadOnlyKeys, \* _READ_ONLY_NBT_KEYS and the keys the API adds
    Shelves,      \* actor types whose NBT is not restored
    MaxContainer  \* 4096


ScalarWrapper == "nscm_nbt_scalar"
BytesWrapper == "nscm_nbt_bytes"
FloatWrapper == "nscm_nbt_float"
CompoundWrapper == "nscm_nbt_compound"

NotFinite == {"nan", "inf", "-inf"}
Raised == <<"raised">>

IsNbt(nbt) ==
    \/ nbt[1] \in {"plain", "float", "bytes"} /\ nbt = <<nbt[1], nbt[2]>>
    \/ /\ nbt[1] = "scalar" /\ nbt = <<nbt[1], nbt[2], nbt[3]>>
       /\ nbt[3] \in NotFinite => <<"float", nbt[3]>> \in NbtValues
    \/ /\ nbt[1] \in {"compound", "list"} /\ nbt = <<nbt[1], nbt[2]>>
       /\ nbt[2] \in [DOMAIN nbt[2] -> NbtValues]

ASSUME BlockDataAssumption ==
    /\ MaxDepth \in Nat \ {0} /\ MaxContainer \in Nat
    /\ \A nbt \in NbtValues : IsNbt(nbt)

Leaf(v) == <<"leaf", v>>
Wrapped(key, json) == <<"object", [k \in {key} |-> json]>>

\* A collection, unless a member of it raised.
Collected(kind, members) ==
    IF \E k \in DOMAIN members : members[k] = Raised THEN Raised ELSE <<kind, members>>

ReservedShapes ==
    {{ScalarWrapper, "value"}, {BytesWrapper}, {FloatWrapper}, {CompoundWrapper}}

PlainCompound(members) == Collected("object", members)                \* mutant
Compound(members) ==
    IF DOMAIN members \in ReservedShapes
      THEN Collected("object", [k \in {CompoundWrapper} |-> Collected("object", members)])
      ELSE Collected("object", members)

\* _encode_nbt, given what it makes of the members of a value, one level deeper.
EncodeOne(nbt, deeper) ==
    CASE nbt[1] = "plain" -> Leaf(nbt[2])
      [] nbt[1] = "float" -> Wrapped(FloatWrapper, Leaf(nbt[2]))
      [] nbt[1] = "bytes" -> Wrapped(BytesWrapper, Leaf(nbt[2]))
      [] nbt[1] = "scalar" ->
           Collected("object", [k \in {ScalarWrapper, "value"} |->
             IF k = ScalarWrapper THEN Leaf(nbt[2])
             ELSE IF nbt[3] \in NotFinite THEN deeper[<<"float", nbt[3]>>] ELSE Leaf(nbt[3])])
      [] nbt[1] = "compound" -> Compound([k \in DOMAIN nbt[2] |-> deeper[nbt[2][k]]])
      [] nbt[1] = "list" -> Collected("array", [k \in DOMAIN nbt[2] |-> deeper[nbt[2][k]]])

\* By the levels that are left.
encode[left \in 0 .. MaxDepth + 1] ==
    [nbt \in NbtValues |-> IF left = 0 THEN Raised ELSE EncodeOne(nbt, encode[left - 1])]

Encode(nbt, depth) == encode[MaxDepth + 1 - depth][nbt]

\* What _encode_nbt writes for a value.
Encodings ==
    {encode[left][nbt] : left \in 0 .. MaxDepth + 1, nbt \in NbtValues}
      \cup {Leaf(nbt[3]) : nbt \in {value \in NbtValues : value[1] = "scalar"}}

\* _decode_nbt, for what _encode_nbt writes.
DecodeOne(json, deeper) ==
    LET members == json[2]
        decoded(values) == [k \in DOMAIN values |-> deeper[values[k]]]
    IN CASE json[1] = "leaf" -> <<"plain", members>>
         [] json[1] = "array" -> Collected("list", decoded(members))
         [] json[1] = "object" ->
              CASE DOMAIN members = {CompoundWrapper} /\ members[CompoundWrapper][1] = "object" ->
                     Collected("compound", decoded(members[CompoundWrapper][2]))
                [] DOMAIN members = {ScalarWrapper, "value"} ->
                     IF deeper[members["value"]] = Raised THEN Raised
                     ELSE <<"scalar", members[ScalarWrapper][2], deeper[members["value"]][2]>>
                [] DOMAIN members = {BytesWrapper} -> <<"bytes", members[BytesWrapper][2]>>
                [] DOMAIN members = {FloatWrapper} -> <<"float", members[FloatWrapper][2]>>
                [] OTHER -> Collected("compound", decoded(members))

decode[left \in 0 .. MaxDepth + 1] ==
    [json \in Encodings |-> IF left = 0 THEN Raised ELSE DecodeOne(json, decode[left - 1])]

Decode(json, depth) == DecodeOne(json, decode[MaxDepth - depth])

----------------------------------------------------------------------------
(* A captured actor: its type, NBT, and container with items by slot. *)

IsActor(actor) ==
    /\ actor.container \in BOOLEAN /\ actor.size \in Nat
    /\ actor.nbt \in [DOMAIN actor.nbt -> NbtValues]
    /\ actor.inventory \in [DOMAIN actor.inventory -> NbtValues]
    /\ DOMAIN actor.inventory \subseteq Int

\* snapshot_entity_payload; it raises if a value does, and for an item that is none.
Writable(actor) == DOMAIN actor.nbt \ ReadOnlyKeys

Snapshot(actor) ==
    [type |-> actor.type, container |-> actor.container, size |-> actor.size,
     nbt |-> [k \in Writable(actor) |-> Encode(actor.nbt[k], 0)],
     inventory |-> [slot \in DOMAIN actor.inventory |->
                      IF slot >= 0 /\ actor.inventory[slot][1] = "compound"
                        THEN Encode(actor.inventory[slot], 0) ELSE Raised]]

Captured(payload) ==
    /\ \A k \in DOMAIN payload.nbt : payload.nbt[k] # Raised
    /\ \A slot \in DOMAIN payload.inventory : payload.inventory[slot] # Raised

\* validate_entity_payload
PayloadValid(payload) ==
    /\ payload.size \in 0 .. MaxContainer
    /\ DOMAIN payload.inventory \subseteq 0 .. payload.size - 1
    /\ \A slot \in DOMAIN payload.inventory : payload.inventory[slot][1] = "object"

\* restore: the NBT as one compound, which a shelf is not given, and every slot of a
\* container, set or emptied.
RestoredNbt(payload) ==
    LET nbt == Decode(<<"object", payload.nbt>>, 0)
    IN IF nbt # Raised /\ payload.type \in Shelves THEN <<"compound", <<>>>> ELSE nbt

RestoredSlots(payload) ==
    Collected("slots",
      [slot \in IF payload.container THEN 0 .. payload.size - 1 ELSE {} |->
         IF slot \in DOMAIN payload.inventory THEN Decode(payload.inventory[slot], 0)
         ELSE <<"empty">>])

\* Whatever raises, nothing after it is written.
Restored(payload) ==
    IF PayloadValid(payload) /\ RestoredNbt(payload) # Raised
      THEN [nbt |-> RestoredNbt(payload), slots |-> RestoredSlots(payload)]
      ELSE [nbt |-> Raised, slots |-> Raised]

----------------------------------------------------------------------------
(* What restoring promises. *)

\* The values that are read back within so many more levels: the number of a scalar is one.
shallow[left \in 0 .. MaxDepth] ==
    LET deeper == IF left = 0 THEN {} ELSE shallow[left - 1]
    IN {nbt \in NbtValues :
          /\ nbt[1] = "scalar" => left > 0
          /\ nbt[1] \in {"compound", "list"} => \A k \in DOMAIN nbt[2] : nbt[2][k] \in deeper}

\* restore reads the NBT as one compound, so its values have a level less than at capture.
Restorable(actor) ==
    /\ \A k \in Writable(actor) : actor.nbt[k] \in shallow[MaxDepth - 1]
    /\ \A slot \in DOMAIN actor.inventory :
         actor.inventory[slot][1] = "compound" /\ actor.inventory[slot] \in shallow[MaxDepth]
    /\ actor.size <= MaxContainer /\ DOMAIN actor.inventory \subseteq 0 .. actor.size - 1

\* What the actor had, but for what is not written back.
Original(actor) ==
    [nbt |-> <<"compound", IF actor.type \in Shelves THEN <<>>
                           ELSE [k \in Writable(actor) |-> actor.nbt[k]]>>,
     slots |-> <<"slots", [slot \in IF actor.container THEN 0 .. actor.size - 1 ELSE {} |->
                             IF slot \in DOMAIN actor.inventory THEN actor.inventory[slot]
                             ELSE <<"empty">>]>>]
=============================================================================
