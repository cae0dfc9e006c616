------------------------ MODULE MCNotificationProxy ------------------------
(* NotificationProxy with model values for the application's threads. *)
EXTENDS NotificationProxy
CONSTANTS a1, a2
=============================================================================
