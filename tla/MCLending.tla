------------------------------ MODULE MCLending -----------------------------
(* Values for the constants of Lending. *)
EXTENDS Lending, TLC

MCSymmetry == Permutations(Requests)
=============================================================================
