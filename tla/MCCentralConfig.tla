---------------------------- MODULE MCCentralConfig ----------------------------
(***************************************************************************)
(* Instances of CentralConfig for TLC.                                     *)
(***************************************************************************)
EXTENDS CentralConfig
===============================================================================
