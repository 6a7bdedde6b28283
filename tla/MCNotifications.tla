--------------------------- MODULE MCNotifications ---------------------------
(* Alerts and requests are interchangeable. *)
EXTENDS Notifications, TLC

MCSymmetry == Permutations(Alerts) \cup Permutations(Requests)
=============================================================================
