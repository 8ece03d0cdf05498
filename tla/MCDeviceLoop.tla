---------------------------- MODULE MCDeviceLoop ----------------------------
(* Small instances of DeviceLoop.  Two configurations: one that wakes at    *)
(* the first slot of Thursday and Friday (days 4 and 5, the first two days  *)
(* of the epoch) and retries once, one without a schedule and with a retry  *)
(* count of zero.                                                           *)
EXTENDS DeviceLoop

Scheduled   == [retry |-> 2, days |-> {4, 5}, at |-> 0]
Unscheduled == [retry |-> 0, days |-> {}, at |-> 0]

MCConfigs == {Scheduled, Unscheduled}
=============================================================================
