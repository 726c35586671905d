---------------------------- MODULE MCPlayerSession ----------------------------
(* One player, whose commands, departures and late results meet one another. *)
EXTENDS PlayerSession

CONSTANTS p1, north, east

OnePlayer == {p1}
TwoPoses == {north, east}
=============================================================================
