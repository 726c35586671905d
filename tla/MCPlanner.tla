------------------------------- MODULE MCPlanner -------------------------------
(* Selections that straddle chunks of width two, at corners of either sign. *)
EXTENDS EntityRestore

SomeSizes == {<<3, 1, 2>>, <<1, 2, 3>>, <<2, 1, 1>>}
OneSize == {<<2, 1, 1>>}
OneLow == {<<0, 0, 0>>}
NoStrays == {{}}
SomeLows == {<<0, 0, 0>>, <<-1, 0, 1>>}
SomeAnchors == {<<x, 0, z>> : x \in {-1, 0}, z \in {0, 1}}
SomePalettes == {<<"stone", "chest", "oldStone">>, <<"stone", "chest">>}
SomeStrays == {{}, {<<0, 0, 0>>}}
SomeBlocks(p) == (p[1] + p[2] + 2 * p[3]) % 3
SomeNames == [block \in {"stone", "oldStone", "chest"} |->
                IF block = "chest" THEN "chest" ELSE "stone"]

\* A chest with NBT of every kind, to the deepest level that can be read back, and with
\* compounds that look like wrappers; a shelf; a barrel that can be captured and is nested too
\* deep to be read back; and two whose whole NBT looks like a wrapper.
Byte(v) == <<"scalar", "byte", v>>
Look == [nscm_nbt_scalar |-> <<"plain", "byte">>, value |-> <<"plain", "1">>]
Deep == <<"list", <<<<"compound", [nscm_nbt_float |-> <<"scalar", "float", "nan">>]>>,
                    <<"compound", [nscm_nbt_compound |-> <<"plain", "x">>]>>>>>>
Chest == [type |-> "chest", container |-> TRUE, size |-> 2,
          nbt |-> [id |-> <<"plain", "Chest">>, lock |-> <<"plain", "key">>,
                   look |-> <<"compound", Look>>, deep |-> Deep,
                   dust |-> <<"bytes", "AA">>, far |-> <<"float", "inf">>],
          inventory |-> [slot \in {1} |-> <<"compound", [count |-> Byte("3"), tag |-> Deep]>>]]
Shelf == [type |-> "shelf", container |-> TRUE, size |-> 3,
          nbt |-> [top |-> Byte("1")],
          inventory |-> [slot \in {0} |-> <<"compound", [nscm_nbt_bytes |-> Byte("1")]>>]]
Barrel == [type |-> "barrel", container |-> FALSE, size |-> 0,
           nbt |-> [deep |-> <<"list", <<Deep>>>>, lock |-> <<"plain", "key">>], inventory |-> <<>>]
Banner == [type |-> "banner", container |-> TRUE, size |-> 1,
           nbt |-> [id |-> <<"plain", "Chest">>, nscm_nbt_bytes |-> <<"plain", "key">>],
           inventory |-> [slot \in {0} |-> <<"compound", Look>>]]
Sign == [type |-> "sign", container |-> FALSE, size |-> 0,
         nbt |-> [nscm_nbt_compound |-> <<"compound", [top |-> Byte("1")]>>], inventory |-> <<>>]
SomeActor(p) ==
    CASE p[1] = 2 -> Shelf
      [] p[2] = 1 -> Barrel
      [] p[3] = 2 -> Banner
      [] p = <<0, 0, 0>> -> Sign
      [] OTHER -> Chest
Actors == {Chest, Shelf, Barrel, Banner, Sign}
SomeEntity(p) == Snapshot(SomeActor(p))

\* Everything that is in them.
ValuesIn(f) == {f[k] : k \in DOMAIN f}
WithMembers(values) ==
    values
      \cup (UNION {ValuesIn(nbt[2]) : nbt \in {v \in values : v[1] \in {"compound", "list"}}})
      \cup {<<"float", nbt[3]>> : nbt \in {v \in values : v[1] = "scalar" /\ v[3] \in NotFinite}}
SomeValues ==
    WithMembers(WithMembers(WithMembers(WithMembers(WithMembers(
      UNION {ValuesIn(actor.nbt) \cup ValuesIn(actor.inventory) : actor \in Actors})))))
=============================================================================
