------------------------------- MODULE ServeMC ------------------------------
(* Instances of Serve for TLC. *)
EXTENDS Serve

\* The default, that 0 stands for, and a limit that bites.
TwoKeeps == {0, 2}
=============================================================================
