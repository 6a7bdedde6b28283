---------------------------- MODULE MCDelegation ----------------------------
(* Values for the constants of Delegation: alice and bob hold DUAL, carol has
   no balance row but can be chosen as delegatee. *)
EXTENDS Delegation, TLC

CONSTANTS alice

MCBalance == [u \in Holders |-> IF u = alice THEN 2 ELSE 1]
MCSymmetry == Permutations(Requests)
=============================================================================
