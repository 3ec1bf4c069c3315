-------------------------- MODULE MCRevisionOutbox --------------------------
(* Model values and symmetry for checking RevisionOutbox.                   *)
EXTENDS RevisionOutbox, TLC

CONSTANTS u1, u2, w1, w2

MCOneUser == {u1}
MCPeer    == {u2}
MCUsers   == {u1, u2}
MCWorkers == {w1, w2}

Symmetry == Permutations(MCWorkers)
=============================================================================
