--------------------------- MODULE MCOfflineMonitor ---------------------------
(***************************************************************************)
(* The instance of OfflineMonitor for TLC.                                 *)
(***************************************************************************)
EXTENDS OfflineMonitor

ReportsOk == {"ok"}
===============================================================================
