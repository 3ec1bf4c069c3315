---------------------------- MODULE MCDepartures ----------------------------
(* Model values and symmetry for checking Departures.                       *)
EXTENDS Departures, TLC

CONSTANTS person1, w1, w2

MCPeople  == {person1}
MCWorkers == {w1, w2}

Symmetry == Permutations(MCWorkers)
=============================================================================
