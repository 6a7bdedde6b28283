----------------------------- MODULE MCAccrual ------------------------------
(* Values for the constants of Accrual. *)
EXTENDS Accrual, TLC

MCSymmetry == Permutations(Pools)
=============================================================================
