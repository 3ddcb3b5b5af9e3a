--------------------------- MODULE MCCheckScheduler ---------------------------
(***************************************************************************)
(* Instances of CheckScheduler for TLC.                                    *)
(***************************************************************************)
EXTENDS CheckScheduler

OneStuck == {1}
OneStoring == {2}
NoChecks == {}
===============================================================================
