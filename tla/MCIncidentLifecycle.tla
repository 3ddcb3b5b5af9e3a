------------------------- MODULE MCIncidentLifecycle -------------------------
(***************************************************************************)
(* Instances of IncidentLifecycle for TLC; the constants are plain numbers.*)
(***************************************************************************)
EXTENDS IncidentLifecycle
===============================================================================
