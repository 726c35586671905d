-------------------------------- MODULE Pacing --------------------------------
(***************************************************************************)
(* PastePacer of paste_pacing.py: how many blocks a tick may change follows *)
(* from how long the ticks before it took.                                  *)
(***************************************************************************)
EXTENDS Integers, FiniteSetsExt

CONSTANTS
    Budget,        \* paste_blocks_per_tick
    ChangeBudget,  \* paste_changed_blocks_per_tick
    Floor,         \* 64: ticks that are too long do not take the limit below it
    StartLimit,    \* 256: where the limit begins, and goes back to in idle ticks
    Step,          \* 64: the least that is added to the limit
    SteadyTicks    \* 10: so many ticks of the usual length in a row raise it

ASSUME PacingAssumption ==
    /\ {Budget, ChangeBudget, Floor, StartLimit, Step, SteadyTicks} \subseteq Nat \ {0}
    /\ Floor <= StartLimit

\* maximum, as on_enable sets it, and the bounds the limit keeps below it.
Ceiling == Min({Budget, ChangeBudget})
Least == Min({Floor, Ceiling})
FirstLimit == Min({StartLimit, Ceiling})

\* timed: last_tick is set.
Pacers == [limit : Least .. Ceiling, steady : 0 .. (SteadyTicks - 1), timed : BOOLEAN]

NewPacer == [limit |-> FirstLimit, steady |-> 0, timed |-> FALSE]

\* The time since the tick before: over 75 ms, 40 to 60 ms, or anything else, as between
\* callbacks that catch up.
Intervals == {"long", "usual", "other"}

Halved(limit) == Max({Least, limit \div 2})
Raised(limit) == Min({Ceiling, limit + Max({Step, limit \div 4})})

\* observe(now, active)
Observed(pacer, interval, active) ==
    CASE ~active -> [limit |-> FirstLimit, steady |-> 0, timed |-> TRUE]
      [] active /\ ~pacer.timed -> [pacer EXCEPT !.timed = TRUE]
      [] active /\ pacer.timed /\ interval = "long" ->
           [pacer EXCEPT !.limit = Halved(@), !.steady = 0]
      [] active /\ pacer.timed /\ interval = "usual" ->
           IF pacer.steady + 1 < SteadyTicks
             THEN [pacer EXCEPT !.steady = @ + 1]
             ELSE [pacer EXCEPT !.limit = Raised(@), !.steady = 0]
      [] active /\ pacer.timed /\ interval = "other" -> [pacer EXCEPT !.steady = 0]
=============================================================================
