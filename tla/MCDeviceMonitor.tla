-------------------------- MODULE MCDeviceMonitor --------------------------
(* TLC instance of DeviceMonitor. *)
EXTENDS DeviceMonitor
CONSTANTS d1, d2, d3
=============================================================================
