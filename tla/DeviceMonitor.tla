--------------------------- MODULE DeviceMonitor ---------------------------
(***************************************************************************)
(* The event half of libusbmuxd: the device_monitor thread that            *)
(* usbmuxd_subscribe starts, the collection of the devices it has reported *)
(* and the application thread that subscribes and unsubscribes.  The two   *)
(* threads share event_cb and listenfd without a lock; the listen          *)
(* handshake itself is in UsbmuxdClient.  The daemon is outside src/.      *)
(*                                                                         *)
(* The application keeps the protocol of the header: one subscription at a *)
(* time.  The signal usbmuxd_unsubscribe sends is caught by a handler.     *)
(***************************************************************************)
EXTENDS Collection, Sequences, FiniteSets

CONSTANTS
  Devices,        \* handles
  Disturbances,   \* messages a daemon may send besides Attached and Detached
  MaxToggles,     \* bound: attachments and detachments
  MaxCrashes,     \* bound: deaths of the daemon
  MaxDisturbances,\* bound: disturbances sent
  MaxSubscribes   \* bound: subscriptions

ASSUME NullIsNoDevice == NULL \notin Devices
ASSUME DisturbanceKinds == Disturbances \subseteq {"noid", "garbage", "other"}
ASSUME BoundsAreNaturals ==
  /\ MaxToggles \in Nat /\ MaxCrashes \in Nat /\ MaxDisturbances \in Nat
  /\ MaxSubscribes \in Nat

VARIABLES
  event_cb,   \* static usbmuxd_event_cb_t event_cb: is it set
  listenfd,   \* static int listenfd: "none" (-1), "current" or "stale" (an
              \* earlier connection, which the monitor never closes)
  devices,    \* static struct collection devices
  mpc,        \* the monitor thread
  cb, fd,     \* the arguments get_next_event was called with
  slot,       \* the iterator of its FOREACH
  apc,        \* the application thread
  view,       \* history: ADD minus REMOVE callbacks since the subscribe
  conn,       \* the newest listen connection, both ends
  up,         \* is the daemon running
  attached,   \* the devices it sees
  toggles, crashes, disturbed, subscribes   \* bounded counters

monitorVars == <<devices, mpc, cb, fd, slot, view>>
daemonVars  == <<up, attached, toggles, crashes, disturbed>>
vars == <<event_cb, listenfd, devices, mpc, cb, fd, slot, apc, view, conn, up,
          attached, toggles, crashes, disturbed, subscribes>>

Added(d)   == [type |-> "add", dev |-> d]
Removed(d) == [type |-> "remove", dev |-> d]
Disturbance(k) == [type |-> k, dev |-> NULL]
Messages == {Added(d) : d \in Devices} \cup {Removed(d) : d \in Devices}
            \cup {Disturbance(k) : k \in {"noid", "garbage", "other"}}

\* closed: by usbmuxd_unsubscribe; eof: by the daemon's death; pending: the
\* attached devices the daemon has not announced on it yet.
NoConn == [closed |-> FALSE, eof |-> TRUE, pending |-> {}, chan |-> <<>>]

Init ==
  /\ event_cb = FALSE /\ listenfd = "none"
  /\ devices = CollectionFree
  /\ mpc = "none" /\ cb = FALSE /\ fd = "none" /\ slot = 0
  /\ apc = "unsubscribed"
  /\ view = [d \in Devices |-> 0]
  /\ conn = NoConn
  /\ up \in BOOLEAN
  /\ attached \in SUBSET Devices
  /\ toggles = 0 /\ crashes = 0 /\ disturbed = 0 /\ subscribes = 0

-----------------------------------------------------------------------------
(* The monitor thread.                                                     *)

Goto(from, to) == mpc = from /\ mpc' = to

MonitorStarts ==
  /\ Goto("init", "outer")
  /\ devices' = CollectionInit
  /\ UNCHANGED <<event_cb, listenfd, cb, fd, slot, apc, view, conn, daemonVars, subscribes>>

\* while (event_cb), around usbmuxd_listen.
MonitorGoesOn ==
  /\ event_cb
  /\ Goto("outer", "listen")
  /\ UNCHANGED <<event_cb, listenfd, devices, cb, fd, slot, apc, view, conn, daemonVars,
                 subscribes>>

MonitorExits ==
  /\ ~event_cb
  /\ Goto("outer", "none")
  /\ devices' = CollectionFree
  /\ UNCHANGED <<event_cb, listenfd, cb, fd, slot, apc, view, conn, daemonVars, subscribes>>

\* usbmuxd_listen succeeds; the descriptor is still in a register.  The
\* connection listenfd names, if any, is dropped without being closed.
ListenSucceeds ==
  /\ up
  /\ Goto("listen", "assign")
  /\ conn' = [closed |-> FALSE, eof |-> FALSE, pending |-> attached, chan |-> <<>>]
  /\ listenfd' = IF listenfd = "current" THEN "stale" ELSE listenfd
  /\ UNCHANGED <<event_cb, devices, cb, fd, slot, apc, view, daemonVars, subscribes>>

\* It fails: the daemon is gone and event_cb was cleared while polling for
\* it, or it died during the handshake.
ListenFails ==
  /\ ~up
  /\ Goto("listen", "outer")
  /\ listenfd' = "none"
  /\ UNCHANGED <<event_cb, devices, cb, fd, slot, apc, view, conn, daemonVars, subscribes>>

AssignListenfd ==
  /\ Goto("assign", "inner")
  /\ listenfd' = "current"
  /\ UNCHANGED <<event_cb, devices, cb, fd, slot, apc, view, conn, daemonVars, subscribes>>

\* while (event_cb), around get_next_event.
InnerLoop ==
  /\ mpc = "inner"
  /\ mpc' = IF event_cb THEN "args" ELSE "outer"
  /\ UNCHANGED <<event_cb, listenfd, devices, cb, fd, slot, apc, view, conn, daemonVars,
                 subscribes>>

EvaluateArguments ==
  /\ Goto("args", "enter")
  /\ cb' = event_cb
  /\ fd' = listenfd
  /\ UNCHANGED <<event_cb, listenfd, devices, slot, apc, view, conn, daemonVars, subscribes>>

\* check_fd: an invalid descriptor or one already closed fails at once,
\* otherwise select blocks, with no timeout.
EnterSelect ==
  /\ mpc = "enter"
  /\ mpc' = IF fd = "none" \/ conn.closed THEN "flush" ELSE "select"
  /\ slot' = 0
  /\ UNCHANGED <<event_cb, listenfd, devices, cb, fd, apc, view, conn, daemonVars, subscribes>>

\* A slip: a failed receive leaves the loop without the REMOVE events.
ReceiveFailsBreaks ==
  /\ Goto("select", "outer")
  /\ \/ conn.eof /\ conn.chan = <<>>
     \/ conn.closed /\ (conn.chan # <<>> \/ conn.eof)
     \/ conn.chan # <<>> /\ Head(conn.chan).type = "garbage"
  /\ UNCHANGED <<event_cb, listenfd, devices, cb, fd, slot, apc, view, conn, daemonVars,
                 subscribes>>

\* select wakes for the end of the stream, or for data on a descriptor that
\* was closed meanwhile, or the packet does not decode: receive_packet < 0.
ReceiveFails ==
  /\ Goto("select", "flush")
  /\ \/ conn.eof /\ conn.chan = <<>>
     \/ conn.closed /\ (conn.chan # <<>> \/ conn.eof)
     \/ conn.chan # <<>> /\ Head(conn.chan).type = "garbage"
  /\ UNCHANGED <<event_cb, listenfd, devices, cb, fd, slot, apc, view, conn, daemonVars,
                 subscribes>>

\* generate_event calls back only through a non-NULL callback argument.
Notify(d, change) == view' = IF cb THEN [view EXCEPT ![d] = @ + change] ELSE view

\* A slip: the devices are dropped without telling the application.
FlushDeviceSilently ==
  /\ mpc = "flush"
  /\ \E i \in FilledFrom(devices, slot) :
       /\ \A j \in FilledFrom(devices, slot) : i <= j
       /\ devices' = CollectionRemove(devices, i)
       /\ slot' = i + 1
  /\ UNCHANGED <<event_cb, listenfd, mpc, cb, fd, view, apc, conn, daemonVars, subscribes>>

\* The failure branch of get_next_event: REMOVE for every device, slot by slot.
FlushDevice ==
  /\ mpc = "flush"
  /\ \E i \in FilledFrom(devices, slot) :
       /\ \A j \in FilledFrom(devices, slot) : i <= j
       /\ Notify(devices.list[i], -1)
       /\ devices' = CollectionRemove(devices, i)
       /\ slot' = i + 1
  /\ UNCHANGED <<event_cb, listenfd, mpc, cb, fd, apc, conn, daemonVars, subscribes>>

FlushDone ==
  /\ FilledFrom(devices, slot) = {}
  /\ Goto("flush", "outer")
  /\ UNCHANGED <<event_cb, listenfd, devices, cb, fd, slot, apc, view, conn, daemonVars,
                 subscribes>>

Receive(type) ==
  /\ ~conn.closed
  /\ conn.chan # <<>> /\ Head(conn.chan).type = type
  /\ conn' = [conn EXCEPT !.chan = Tail(@)]
  /\ UNCHANGED <<event_cb, listenfd, cb, fd, slot, apc, daemonVars, subscribes>>

ReceiveAdd ==
  /\ Goto("select", "inner")
  /\ Receive("add")
  /\ LET d == Head(conn.chan).dev
     IN  /\ devices' = CollectionAdd(devices, d)
         /\ Notify(d, 1)

\* A handle that devices_find does not know is ignored.
ReceiveRemove ==
  /\ Goto("select", "inner")
  /\ Receive("remove")
  /\ LET d == Head(conn.chan).dev
     IN  IF FirstSlot(devices, d) = {}
         THEN UNCHANGED <<devices, view>>
         ELSE /\ \E i \in FirstSlot(devices, d) : devices' = CollectionRemove(devices, i)
              /\ Notify(d, -1)

\* A message of another type is reported on stderr and skipped.
ReceiveOther ==
  /\ Goto("select", "inner")
  /\ Receive("other")
  /\ UNCHANGED <<devices, view>>

\* A Detached plist without a DeviceID: "payload is missing", -EBADMSG.  The
\* inner loop breaks, the devices stay.
ReceiveNoId ==
  /\ Goto("select", "outer")
  /\ Receive("noid")
  /\ UNCHANGED <<devices, view>>

-----------------------------------------------------------------------------
(* The application thread.                                                 *)

Subscribe ==
  /\ apc = "unsubscribed" /\ apc' = "subscribed"
  /\ subscribes < MaxSubscribes /\ subscribes' = subscribes + 1
  /\ event_cb' = TRUE
  /\ mpc' = "init"
  /\ view' = [d \in Devices |-> 0]
  /\ UNCHANGED <<listenfd, devices, cb, fd, slot, conn, daemonVars>>

Unsubscribe ==
  /\ apc = "subscribed" /\ apc' = "cleared"
  /\ event_cb' = FALSE
  /\ UNCHANGED <<listenfd, monitorVars, conn, daemonVars, subscribes>>

\* pthread_kill(devmon, 0) fails when the monitor is gone already.
MonitorIsGone ==
  /\ apc = "cleared" /\ apc' = "unsubscribed"
  /\ mpc = "none"
  /\ UNCHANGED <<event_cb, listenfd, monitorVars, conn, daemonVars, subscribes>>

CloseListenfd ==
  /\ apc = "cleared" /\ apc' = "closed"
  /\ conn' = IF listenfd = "current" THEN [conn EXCEPT !.closed = TRUE] ELSE conn
  /\ listenfd' = "none"
  /\ UNCHANGED <<event_cb, monitorVars, daemonVars, subscribes>>

\* A slip: the monitor is not signalled before it is joined.
SignalMonitorNever ==
  /\ apc = "closed" /\ apc' = "joining"
  /\ UNCHANGED <<event_cb, listenfd, devices, mpc, cb, fd, slot, view, conn, daemonVars,
                 subscribes>>

\* SIGINT interrupts a select, which check_fd then enters again.
SignalMonitor ==
  /\ apc = "closed" /\ apc' = "joining"
  /\ mpc' = IF mpc = "select" THEN "enter" ELSE mpc
  /\ UNCHANGED <<event_cb, listenfd, devices, cb, fd, slot, view, conn, daemonVars, subscribes>>

JoinMonitor ==
  /\ apc = "joining" /\ apc' = "unsubscribed"
  /\ mpc = "none"
  /\ UNCHANGED <<event_cb, listenfd, monitorVars, conn, daemonVars, subscribes>>

-----------------------------------------------------------------------------
(* The daemon (external): it announces what is attached on a new           *)
(* connection, then every change.                                          *)

Send(m) == conn' = [conn EXCEPT !.chan = Append(@, m)]
Live == up /\ ~conn.eof

Announce(d) ==
  /\ Live /\ d \in conn.pending
  /\ conn' = [conn EXCEPT !.pending = @ \ {d}, !.chan = Append(@, Added(d))]
  /\ UNCHANGED <<event_cb, listenfd, monitorVars, apc, daemonVars, subscribes>>

Attach(d) ==
  /\ d \notin attached /\ toggles < MaxToggles
  /\ attached' = attached \cup {d} /\ toggles' = toggles + 1
  /\ IF Live THEN Send(Added(d)) ELSE UNCHANGED conn
  /\ UNCHANGED <<event_cb, listenfd, monitorVars, apc, up, crashes, disturbed, subscribes>>

Detach(d) ==
  /\ d \in attached /\ toggles < MaxToggles
  /\ attached' = attached \ {d} /\ toggles' = toggles + 1
  /\ IF ~Live THEN UNCHANGED conn
     ELSE IF d \in conn.pending THEN conn' = [conn EXCEPT !.pending = @ \ {d}]
     ELSE Send(Removed(d))
  /\ UNCHANGED <<event_cb, listenfd, monitorVars, apc, up, crashes, disturbed, subscribes>>

Disturb(k) ==
  /\ Live /\ disturbed < MaxDisturbances
  /\ disturbed' = disturbed + 1
  /\ Send(Disturbance(k))
  /\ UNCHANGED <<event_cb, listenfd, monitorVars, apc, up, attached, toggles, crashes,
                 subscribes>>

\* What it had sent before it died can still be read.
DaemonDies ==
  /\ up /\ crashes < MaxCrashes
  /\ up' = FALSE /\ crashes' = crashes + 1
  /\ conn' = [conn EXCEPT !.eof = TRUE, !.pending = {}]
  /\ UNCHANGED <<event_cb, listenfd, monitorVars, apc, attached, toggles, disturbed, subscribes>>

DaemonStarts ==
  /\ ~up /\ up' = TRUE
  /\ UNCHANGED <<event_cb, listenfd, monitorVars, apc, conn, attached, toggles, crashes,
                 disturbed, subscribes>>

-----------------------------------------------------------------------------
MonitorStep ==
  \/ MonitorStarts \/ MonitorGoesOn \/ MonitorExits
  \/ ListenSucceeds \/ ListenFails \/ AssignListenfd
  \/ InnerLoop \/ EvaluateArguments \/ EnterSelect
  \/ ReceiveFails \/ FlushDevice \/ FlushDone
  \/ ReceiveAdd \/ ReceiveRemove \/ ReceiveOther \/ ReceiveNoId

UnsubscribeStep == MonitorIsGone \/ CloseListenfd \/ SignalMonitor \/ JoinMonitor

DaemonStep ==
  \/ \E d \in Devices : Announce(d) \/ Attach(d) \/ Detach(d)
  \/ \E k \in Disturbances : Disturb(k)
  \/ DaemonDies \/ DaemonStarts

Next == MonitorStep \/ Subscribe \/ Unsubscribe \/ UnsubscribeStep \/ DaemonStep

Spec == Init /\ [][Next]_vars

\* The scheduler runs both threads; the daemon announces what it has accepted
\* to announce.  Nothing obliges the daemon to come back or a user to unplug.
FairSpec ==
  /\ Spec
  /\ WF_vars(MonitorStep)
  /\ WF_vars(UnsubscribeStep)
  /\ \A d \in Devices : WF_vars(Announce(d))

-----------------------------------------------------------------------------
MonitorPCs == {"none", "init", "outer", "listen", "assign", "inner", "args", "enter",
               "select", "flush"}
ApplicationPCs == {"unsubscribed", "subscribed", "cleared", "closed", "joining"}
Connections == [closed : BOOLEAN, eof : BOOLEAN, pending : SUBSET Devices,
                chan : Seq(Messages)]

\* Type invariant.
TypeOK ==
  /\ event_cb \in BOOLEAN
  /\ listenfd \in {"none", "current", "stale"}
  /\ devices.capacity \in Nat
  /\ devices = [capacity |-> devices.capacity, list |-> devices.list]
  /\ devices.list \in [Slots(devices) -> Devices \cup {NULL}]
  /\ mpc \in MonitorPCs
  /\ cb \in BOOLEAN /\ fd \in {"none", "current", "stale"} /\ slot \in Nat
  /\ apc \in ApplicationPCs
  /\ view \in [Devices -> Int]
  /\ conn \in Connections
  /\ up \in BOOLEAN /\ attached \subseteq Devices
  /\ toggles \in Nat /\ crashes \in Nat /\ disturbed \in Nat /\ subscribes \in Nat

Occurrences(d) == Cardinality({i \in Slots(devices) : devices.list[i] = d})

\* While the application is subscribed, what the callback was told agrees
\* with the collection, device by device and record by record: no event is
\* lost when the array grows or is walked, whatever the daemon sends.
ViewIsCollection ==
  apc = "subscribed" => \A d \in Devices : view[d] = Occurrences(d)

\* "when then usbmuxd connection fails, generate remove events for every
\* device that is still present": when the monitor is back at dialling the
\* daemon, the application knows of no device.
DisconnectForgets ==
  apc = "subscribed" /\ mpc = "listen" => \A d \in Devices : view[d] = 0

Sent(m) == Cardinality({i \in 1 .. Len(conn.chan) : conn.chan[i] = m})

\* On a live connection nothing is lost or told twice: the application's
\* view, plus the messages in flight, plus the announcements to come, is what
\* is plugged in.
NothingLost ==
  /\ apc = "subscribed" /\ Live
  /\ mpc \in {"assign", "inner", "args", "enter", "select"}
  => \A d \in Devices :
       view[d] + Sent(Added(d)) - Sent(Removed(d)) + (IF d \in conn.pending THEN 1 ELSE 0)
         = (IF d \in attached THEN 1 ELSE 0)

\* Once the daemon stays up and the application stays subscribed, the
\* application's view settles on what is attached.
ViewSettles ==
  <>[](apc = "subscribed" /\ up)
  => <>[](\A d \in Devices : view[d] = (IF d \in attached THEN 1 ELSE 0))

\* The application sees what DeviceEvents promises.
Phase == IF apc \in {"cleared", "closed", "joining"} THEN "ending" ELSE apc
Events == INSTANCE DeviceEvents WITH phase <- Phase
ImplementsDeviceEvents == Events!Spec
=============================================================================
