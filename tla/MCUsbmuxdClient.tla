-------------------------- MODULE MCUsbmuxdClient --------------------------
(* TLC instance of UsbmuxdClient: one application thread, one monitor. *)
EXTENDS UsbmuxdClient
CONSTANTS c1, m1
=============================================================================
