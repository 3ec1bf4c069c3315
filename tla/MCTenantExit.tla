---------------------------- MODULE MCTenantExit ----------------------------
(* Values for checking TenantExit: a guest's upload, a member's copy of it, *)
(* and two processes with a janitor.                                        *)
EXTENDS TenantExit

CONSTANTS g1, c1, j1, j2

MCGuests   == {g1}
MCStaff    == {}
MCSource   == [c \in {c1} |-> g1]
MCJanitors == {j1, j2}
=============================================================================
