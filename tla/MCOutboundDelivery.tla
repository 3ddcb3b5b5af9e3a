------------------------- MODULE MCOutboundDelivery -------------------------
(***************************************************************************)
(* Instances of OutboundDelivery for TLC: the kinds a small agent leaves   *)
(* out of its cycle.                                                       *)
(***************************************************************************)
EXTENDS OutboundDelivery

(* Configuration statuses, incidents and heartbeats.                        *)
NoTelemetryButHeartbeats == {"discovery", "signal_samples", "check_results"}

(* Every kind but the samples, which travel like check results.            *)
NoSamples == {"signal_samples"}
==============================================================================
