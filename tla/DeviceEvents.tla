---------------------------- MODULE DeviceEvents ----------------------------
(***************************************************************************)
(* What usbmuxd_subscribe and usbmuxd_unsubscribe promise an application:  *)
(* for every device the callback sees UE_DEVICE_ADD and UE_DEVICE_REMOVE   *)
(* in turn, starting with ADD, only between a subscribe and the return of  *)
(* the unsubscribe, and the unsubscribe does return.                       *)
(***************************************************************************)
EXTENDS Integers

CONSTANT Devices

VARIABLES
  phase,    \* "unsubscribed", "subscribed" or "ending" (inside unsubscribe)
  view      \* ADD events minus REMOVE events, per device

Init ==
  /\ phase = "unsubscribed"
  /\ view = [d \in Devices |-> 0]

Subscribe ==
  /\ phase = "unsubscribed"
  /\ phase' = "subscribed"
  /\ view' = [d \in Devices |-> 0]

Add(d) ==
  /\ phase # "unsubscribed"
  /\ view[d] = 0
  /\ view' = [view EXCEPT ![d] = 1]
  /\ UNCHANGED phase

Remove(d) ==
  /\ phase # "unsubscribed"
  /\ view[d] = 1
  /\ view' = [view EXCEPT ![d] = 0]
  /\ UNCHANGED phase

Unsubscribe ==
  /\ phase = "subscribed"
  /\ phase' = "ending"
  /\ UNCHANGED view

UnsubscribeReturns ==
  /\ phase = "ending"
  /\ phase' = "unsubscribed"
  /\ UNCHANGED view

Next ==
  \/ Subscribe \/ Unsubscribe \/ UnsubscribeReturns
  \/ \E d \in Devices : Add(d) \/ Remove(d)

Spec == Init /\ [][Next]_<<phase, view>> /\ WF_<<phase, view>>(UnsubscribeReturns)
=============================================================================
