--------------------------- MODULE MCMissionMoney ---------------------------
(* Values and symmetry for checking MissionMoney.                           *)
EXTENDS MissionMoney, TLC

CONSTANTS w1, w2

MCWorkers == {w1, w2}

\* 6 and 7 units leave 5 and 6 to three people, after a cut of 20%: no share
\* comes out even, and two of them tie.
MCAmounts     == {6, 7}
MCRates       == {1}
MCOrgShares   == {2000}
ThreeWays     == [p \in 1..3 |-> IF p = 3 THEN 3334 ELSE 3333]
MCSplits      == {ThreeWays}
MCStartStages == {"PostMission"}

\* The law of allocateDistribution over every small pool, from one share to
\* three, equal shares and very unequal ones.
AllocationInputs ==
  [pool: 1..40, org: {0, 1, 2000, 3333, 9999},
   split: {ThreeWays, [p \in {1} |-> 10000], [p \in 1..2 |-> 5000],
           [p \in 1..3 |-> <<1, 4999, 5000>>[p]], [p \in 1..3 |-> <<9998, 1, 1>>[p]]}]

ASSUME AllocationIsExact ==
  \A i \in AllocationInputs :
    Allocatable(i.org, i.split) =>
      Exact(i.pool, Floor(i.pool, i.org), AllocatedShares(i.pool, i.org, i.split), i.split)

Symmetry == Permutations(MCWorkers)
=============================================================================
