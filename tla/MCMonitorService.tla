-------------------------- MODULE MCMonitorService --------------------------
(* Small instances of MonitorService: a device with a wake time, and one   *)
(* without whose lock detector is disabled.                                *)
EXTENDS MonitorService

MCConfigs == {[wake |-> TRUE, lock |-> TRUE], [wake |-> FALSE, lock |-> FALSE]}
=============================================================================
