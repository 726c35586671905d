------------------------------ MODULE SpongeSchem ------------------------------
(***************************************************************************)
(* sponge_schem.py: a decoded schematic as a Sponge v3 file, which names    *)
(* every block of the box, in the order x, z, y, by a varint index into a   *)
(* palette of Java block states that starts with air.  Bedrock blocks that  *)
(* have the same Java name, or none, share an entry.                        *)
(***************************************************************************)
EXTENDS Codec

CONSTANTS
    VarintBase,  \* 128: values per byte of a varint
    ShortHalf,   \* 32768: where a signed short turns negative
    JavaName     \* java_blockstate_string: block of the palette -> Java name

Air == "air"

ASSUME SpongeAssumption ==
    /\ VarintBase \in Nat \ {0, 1}
    /\ ShortHalf \in Nat \ {0}

\* encode_varint: little end first, a flag on every byte but the last.
Varint(value) ==
    LET bytes[v \in Nat] ==
          IF v < VarintBase THEN <<v>>
          ELSE <<(v % VarintBase) + VarintBase>> \o bytes[v \div VarintBase]
    IN bytes[value]

\* _signed_short
SignedShort(value) == IF value < ShortHalf THEN value ELSE value - (2 * ShortHalf)

\* The output palette: air, then every other Java name once, as first met.
WithName(names, name) == IF name \in ToSet(names) THEN names ELSE Append(names, name)
JavaPalette(palette) ==
    LET names[n \in 0 .. Len(palette)] ==
          IF n = 0 THEN <<Air>> ELSE WithName(names[n - 1], JavaName[palette[n]])
    IN names[Len(palette)]
OutputIndex(palette, index) ==
    (CHOOSE i \in DOMAIN JavaPalette(palette) :
       JavaPalette(palette)[i] = JavaName[palette[index + 1]]) - 1

LinearByHeight(place, size) ==                                        \* mutant
    place[1] + (place[3] * size[1]) + (place[2] * size[1] * size[2])
Linear(place, size) ==
    place[1] + (place[3] * size[1]) + (place[2] * size[1] * size[3])

\* _map_states, for the states that have a direction: the Java property and its value; that
\* of a rail is a name, here its words.
JavaState(family, value) ==
    CASE family = "facing_direction" ->
           <<"facing", <<"down", "up", "north", "south", "west", "east">>[value + 1]>>
      [] family = "weirdo_direction" ->
           <<"facing", <<"east", "west", "south", "north">>[value + 1]>>
      [] family = "direction" -> <<"facing", <<"south", "west", "north", "east">>[value + 1]>>
      [] family = "pillar_axis" -> <<"axis", value>>
      [] family = "ground_sign_direction" -> <<"rotation", value>>
      [] family = "rail_direction" ->
           <<"shape", <<{"north", "south"}, {"east", "west"}, {"ascending", "east"},
                        {"ascending", "west"}, {"ascending", "north"}, {"ascending", "south"},
                        {"south", "east"}, {"south", "west"}, {"north", "west"},
                        {"north", "east"}>>[value + 1]>>

\* A block keeps no other of them: minecraft:cardinal_direction is stripped and reported.
JavaFamilies == {"facing_direction", "weirdo_direction", "direction", "pillar_axis",
                 "ground_sign_direction", "rail_direction"}

\* The checks of _palette_and_data.
Exportable(contents) ==
    /\ \A i \in 1 .. 3 : 0 < contents.size[i] /\ contents.size[i] < 2 * ShortHalf
    /\ \A n \in DOMAIN contents.records :
         /\ Place(contents.records[n]) \in Box(contents.size)
         /\ contents.records[n][4] < Len(contents.palette)

\* The indexes of the whole box: a record writes its own, air is everywhere else.
Indexes(contents) ==
    [n \in 1 .. Volume(contents.size) |->
       LET here == {i \in DOMAIN contents.records :
                      Linear(Place(contents.records[i]), contents.size) = n - 1}
       IN IF here = {} THEN 0
          ELSE OutputIndex(contents.palette, contents.records[Max(here)][4])]

\* encode_sponge_v3
Sponge(contents) ==
    [size |-> [i \in 1 .. 3 |-> SignedShort(contents.size[i])],
     palette |-> JavaPalette(contents.palette),
     data |-> FlattenSeq([n \in DOMAIN Indexes(contents) |-> Varint(Indexes(contents)[n])])]

----------------------------------------------------------------------------
(* A reader of the format. *)

UnsignedShort(value) == IF value < 0 THEN value + (2 * ShortHalf) ELSE value

\* The sides a Java block with this property points to.
JavaSides(property, value) ==
    CASE property = "facing" -> {value} \ {"up", "down"}
      [] property = "axis" ->
           CASE value = "x" -> {"east", "west"} [] value = "z" -> {"north", "south"}
             [] OTHER -> {}
      [] property = "rotation" ->
           IF value % 4 = 0 THEN {<<"south", "west", "north", "east">>[(value \div 4) + 1]} ELSE {}
      [] property = "shape" -> value \ {"ascending"}

\* A byte without the flag ends its varint, a flagged one adds its part to it.
AfterByte(before, byte) ==
    LET value == before.value + ((byte % VarintBase) * before.weight)
    IN IF byte < VarintBase
         THEN [values |-> Append(before.values, value), value |-> 0, weight |-> 1]
         ELSE [values |-> before.values, value |-> value, weight |-> before.weight * VarintBase]

VarintsIn(data) ==
    LET read[n \in 0 .. Len(data)] ==
          IF n = 0 THEN [values |-> <<>>, value |-> 0, weight |-> 1]
          ELSE AfterByte(read[n - 1], data[n])
    IN read[Len(data)].values

\* The Java name the file gives the block at x, y, z.
NameAt(sponge, place) ==
    LET width == UnsignedShort(sponge.size[1])
        length == UnsignedShort(sponge.size[3])
        index == place[1] + (place[3] * width) + (place[2] * width * length)
    IN sponge.palette[VarintsIn(sponge.data)[index + 1] + 1]
=============================================================================
