-------------------------------- MODULE MCKyc --------------------------------
(* A pending notice, an open review and a rejection of the provider; handlers
   are interchangeable. *)
EXTENDS Kyc, TLC

CONSTANTS pending, review, rejection

MCMeans == [e \in Events |-> CASE e = pending -> "in_progress"
                               [] e = review -> "pending_review"
                               [] e = rejection -> "rejected"]
MCSymmetry == Permutations(Processes)
=============================================================================
