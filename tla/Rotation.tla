------------------------------- MODULE Rotation -------------------------------
(***************************************************************************)
(* rotation.py: quarter turns of block positions and of the block states    *)
(* that carry a direction.  A position is <<x, y, z>> relative to the       *)
(* schematic's low corner, a rotation one of 0, 90, 180 and 270 degrees     *)
(* clockwise, seen from above.                                              *)
(***************************************************************************)
EXTENDS Integers, Sequences

Rotations == {0, 90, 180, 270}

\* normalize_rotation: only whole quarter turns are accepted.
NormalizeRotation(n) == n % 360

RotatedSizeUnswapped(size, rotation) == size                          \* mutant
RotatedSize(size, rotation) ==
    IF rotation \in {90, 270} THEN <<size[3], size[2], size[1]>> ELSE size

RotateCoord(d, size, rotation) ==
    CASE rotation = 0   -> d
      [] rotation = 90  -> <<size[3] - 1 - d[3], d[2], d[1]>>
      [] rotation = 180 -> <<size[1] - 1 - d[1], d[2], size[3] - 1 - d[3]>>
      [] rotation = 270 -> <<d[3], d[2], size[1] - 1 - d[1]>>

----------------------------------------------------------------------------
(* Block states.  A family is a group of state names whose values turn the same way. *)

Cardinals == <<"north", "east", "south", "west">>
FacingDirection == <<2, 5, 3, 4>>
WeirdoDirection == <<3, 0, 2, 1>>
RailAscents == <<2, 5, 3, 4>>
RailCurves == <<6, 7, 8, 9>>

\* The value q places further in a cycle; a value outside it is left alone.
Cycle(order, value, q) ==
    IF \E i \in DOMAIN order : order[i] = value
      THEN LET i == CHOOSE j \in DOMAIN order : order[j] = value
           IN order[((i - 1 + q) % 4) + 1]
      ELSE value

\* Curves and ascents turned in each other's order.
RotateRailMixed(value, q) ==                                          \* mutant
    IF value \in {0, 1}
      THEN IF q % 2 = 0 THEN value ELSE 1 - value
      ELSE Cycle(RailCurves, Cycle(<<2, 3, 4, 5>>, value, q), q)
RotateRail(value, q) ==
    IF value \in {0, 1}
      THEN IF q % 2 = 0 THEN value ELSE 1 - value
      ELSE Cycle(RailCurves, Cycle(RailAscents, value, q), q)

\* rotate_states, for one state of the family.
RotateState(family, value, rotation) ==
    LET q == rotation \div 90
    IN CASE family = "cardinal_direction" -> Cycle(Cardinals, value, q)
         [] family = "facing_direction"   -> Cycle(FacingDirection, value, q)
         [] family = "weirdo_direction"   -> Cycle(WeirdoDirection, value, q)
         [] family = "ground_sign_direction" -> (value + q * 4) % 16
         [] family = "pillar_axis" -> IF q % 2 = 1 /\ value \in {"x", "z"}
                                        THEN IF value = "x" THEN "z" ELSE "x"
                                        ELSE value
         [] family = "rail_direction" -> RotateRail(value, q)
         [] OTHER -> value

----------------------------------------------------------------------------
(* What the values mean to the game, as unit steps in the world.                  *)

\* anchor_from_clicked_block: the step out of a block's face.
Step(side) == CASE side = "north" -> <<0, 0, -1>>
                [] side = "east"  -> <<1, 0, 0>>
                [] side = "south" -> <<0, 0, 1>>
                [] side = "west"  -> <<-1, 0, 0>>

Values(family) ==
    CASE family = "cardinal_direction" -> {"north", "east", "south", "west"}
      [] family = "facing_direction"   -> 0 .. 5
      [] family = "weirdo_direction"   -> 0 .. 3
      [] family = "ground_sign_direction" -> 0 .. 15
      [] family = "pillar_axis"    -> {"x", "y", "z"}
      [] family = "rail_direction" -> 0 .. 9
      [] family = "direction" -> 0 .. 3
Families == {"cardinal_direction", "facing_direction", "weirdo_direction",
             "ground_sign_direction", "pillar_axis", "rail_direction"}

\* rotate_states knows "direction" only as a text; trapdoors and beds have it as a number.
Unturned == {"direction"}

\* The sides a block with this state points to: none for vertical blocks and for signs
\* between two sides, two for axes, straight rails and curves, the upper end of an ascent.
Sides(family, value) ==
    CASE family = "cardinal_direction" -> {value}
      [] family = "facing_direction" ->
           IF value \in 2 .. 5 THEN {<<"north", "south", "west", "east">>[value - 1]} ELSE {}
      [] family = "weirdo_direction" -> {<<"east", "west", "south", "north">>[value + 1]}
      [] family = "ground_sign_direction" ->
           IF value % 4 = 0 THEN {<<"south", "west", "north", "east">>[value \div 4 + 1]} ELSE {}
      [] family = "pillar_axis" ->
           CASE value = "x" -> {"east", "west"} [] value = "z" -> {"north", "south"}
             [] OTHER -> {}
      [] family = "rail_direction" ->
           <<{"north", "south"}, {"east", "west"}, {"east"}, {"west"}, {"north"}, {"south"},
             {"south", "east"}, {"south", "west"}, {"north", "west"}, {"north", "east"}>>[value + 1]
      [] family = "direction" -> {<<"south", "west", "north", "east">>[value + 1]}
=============================================================================
