--------------------------- MODULE MCDeviceManager ---------------------------
(* Instances of DeviceManager for TLC. *)
EXTENDS DeviceManager

TwoDevices == [name |-> "two", available |-> TRUE, count |-> 2, device |-> "UNKNOWN"]
Absent     == [name |-> "absent", available |-> FALSE, count |-> 1, device |-> "UNKNOWN"]

SomeProviders == {TwoDevices, Absent}

(* None free, below and above the fallback of 8, the largest size. *)
SomeReports == {Unknown, 0, 7, 15}
=============================================================================
