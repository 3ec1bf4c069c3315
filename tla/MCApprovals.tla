---------------------------- MODULE MCApprovals ----------------------------
(* Model values and symmetry for checking Approvals.                        *)
EXTENDS Approvals, TLC

CONSTANTS owner, ops, p1, p2, w1, w2

MCUsers      == {owner, ops}
MCOwners     == {owner}
MCSubmitters == {owner, ops}
MCPayloads   == {p1, p2}
MCWorkers    == {w1, w2}

Symmetry == Permutations(MCWorkers) \cup Permutations(MCPayloads)
=============================================================================
