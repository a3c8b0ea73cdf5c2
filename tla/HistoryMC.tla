------------------------------ MODULE HistoryMC -----------------------------
(* Instances of History for TLC. *)
EXTENDS History

OneKeep == {2}
=============================================================================
