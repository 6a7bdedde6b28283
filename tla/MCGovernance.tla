---------------------------- MODULE MCGovernance ----------------------------
(* Values for the constants of Governance: one proposal with a timelock, or
   two of which one has no timelock dates, as the seeded proposals. *)
EXTENDS Governance, TLC

CONSTANTS alice, dip2

MCWeight == [v \in Voters |-> IF v = alice THEN 2 ELSE 1]
MCVotingEndsAt == [p \in Proposals |-> 0]
MCTimelockEndsAt == [p \in Proposals |-> IF p = dip2 THEN Null ELSE 1]
MCSymmetry == Permutations(Requests)
=============================================================================
