----------------------------- MODULE Allocation -----------------------------
(***************************************************************************)
(* How a distribution splits a received amount (domain/distribution.ts).   *)
(* Amounts are minor units, shares basis points.  The organisation's cut   *)
(* is rounded down; the rest is split by largest remainder.                *)
(*                                                                         *)
(* People are ordered (the code compares their ids), so they are numbers.  *)
(***************************************************************************)
EXTENDS Integers, FiniteSets, FiniteSetsExt

FullBps == 10000

\* What of "pool" a share of "bps" basis points comes to, rounded down.
Floor(pool, bps) == (pool * bps) \div FullBps
Remainder(pool, bps) == (pool * bps) % FullBps

\* The combinations allocateDistribution accepts: the shares make up the
\* whole, or there are none and the organisation keeps everything.
Allocatable(org, split) ==
  IF DOMAIN split = {}
  THEN org = FullBps
  ELSE /\ \A p \in DOMAIN split : split[p] > 0
       /\ SumFunction(split) = FullBps

PlayerPool(pool, org) == pool - Floor(pool, org)

\* q comes before p when the leftover units are handed out.
Before(q, p, rest, split) ==
  LET rq == Remainder(rest, split[q])
      rp == Remainder(rest, split[p])
  IN  \/ rq > rp
      \/ rq = rp /\ split[q] > split[p]
      \/ rq = rp /\ split[q] = split[p] /\ q < p

Leftover(rest, split) ==
  rest - SumFunction([p \in DOMAIN split |-> Floor(rest, split[p])])

AllocatedSharesRoundedDown(pool, org, split) ==
  [p \in DOMAIN split |-> Floor(PlayerPool(pool, org), split[p])]

\* The units each share comes to: rounded down, and one more for the shares
\* that come first while units are left over.
AllocatedShares(pool, org, split) ==
  LET rest == PlayerPool(pool, org)
      ahead(p) == Cardinality({q \in DOMAIN split : Before(q, p, rest, split)})
  IN  [p \in DOMAIN split |->
         Floor(rest, split[p]) + (IF ahead(p) < Leftover(rest, split) THEN 1 ELSE 0)]

\* What an allocation owes: everything is given out, and nobody is a whole unit
\* away from an exact share of what the organisation leaves.
Exact(pool, cut, shares, split) ==
  /\ cut + SumFunction(shares) = pool
  /\ \A p \in DOMAIN split :
       shares[p] * FullBps - (pool - cut) * split[p] \in (1 - FullBps)..(FullBps - 1)
=============================================================================
