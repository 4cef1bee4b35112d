--------------------------- MODULE MCWeekCollection ---------------------------
(* Two weeks of two days of two ticks. noon falls in week 0; dusk is made on   *)
(* UTC day 2 by a clock that still shows day 1, dawn on UTC day 1 by a clock   *)
(* that already shows day 2; monday is plainly in week 1.                      *)
EXTENDS WeekCollection, TLC

CONSTANTS noon, dusk, dawn, monday

Instants == (noon :> 2) @@ (dusk :> 4) @@ (dawn :> 3) @@ (monday :> 5)
Zones    == (noon :> 0) @@ (dusk :> (0 - 1)) @@ (dawn :> 1) @@ (monday :> 0)

MCTime   == [c \in Commits |-> Instants[c]]
MCOffset == [c \in Commits |-> Zones[c]]

Days(from, to) == [from |-> from, to |-> to]

UntilToday   == {Days(0, None)}
AnyDays      == {Days(0, 2), Days(1, None), Days(None, 2)}
OneBranch    == {Commits, {dusk}}
SomeBranches == {Commits, {noon}}

ProcSymmetry == Permutations(Procs)
=============================================================================
