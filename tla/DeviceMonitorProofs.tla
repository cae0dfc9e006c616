------------------------ MODULE DeviceMonitorProofs ------------------------
(***************************************************************************)
(* Theorems about DeviceMonitor: its type invariant, and that a subscribed *)
(* application's view agrees with the collection for any set of devices,   *)
(* any capacity the array grows to and any behaviour of the daemon.        *)
(***************************************************************************)
EXTENDS DeviceMonitor, CollectionProofs

USE DEF monitorVars, daemonVars, Goto

LEMMA FreeCollection ==
  /\ WellFormed(CollectionFree) /\ WellFormed(CollectionInit)
  /\ Slots(CollectionFree) = {}
  /\ CollectionInit.capacity = 1 /\ CollectionInit.list \in [Slots(CollectionInit) -> {NULL}]
  /\ Slots(CollectionInit) = {0} /\ CollectionInit.list[0] = NULL
BY DEF CollectionFree, CollectionInit, WellFormed, Slots

LEMMA MessageTypes ==
  /\ \A d \in Devices : Added(d) \in Messages /\ Removed(d) \in Messages
  /\ \A k \in Disturbances : Disturbance(k) \in Messages
  /\ \A m \in Messages : m.type \in {"add", "remove"} => m.dev \in Devices
<1>1. /\ \A d \in Devices : Added(d) \in Messages /\ Removed(d) \in Messages
      /\ \A k \in Disturbances : Disturbance(k) \in Messages
  BY DisturbanceKinds DEF Messages
<1>2. ASSUME NEW m \in Messages, m.type \in {"add", "remove"} PROVE m.dev \in Devices
  <2>1. ASSUME NEW k \in {"noid", "garbage", "other"}, m = Disturbance(k) PROVE FALSE
    BY <1>2, <2>1 DEF Disturbance
  <2>2. PICK d \in Devices : m = Added(d) \/ m = Removed(d)
    BY <2>1 DEF Messages
  <2> QED BY <2>2 DEF Added, Removed
<1> QED BY <1>1, <1>2

\* The collection holds devices only.
Devs(col) == \A i \in Slots(col) : col.list[i] \in Devices \cup {NULL}

LEMMA AddKeepsDevs ==
  ASSUME NEW col, WellFormed(col), Devs(col), NEW d \in Devices, col.capacity > 0
  PROVE  Devs(CollectionAdd(col, d)) /\ CollectionAdd(col, d).capacity > 0
<1> DEFINE new == CollectionAdd(col, d)
<1>1. CASE Holes(col) # {}
  <2> DEFINE i == CHOOSE i \in Holes(col) : \A j \in Holes(col) : i <= j
  <2>1. new = [col EXCEPT !.list = [@ EXCEPT ![i] = d]]
    BY <1>1 DEF CollectionAdd
  <2> HIDE DEF i
  <2>2. new.capacity = col.capacity /\ new.list = [col.list EXCEPT ![i] = d]
    BY <2>1 DEF WellFormed
  <2>3. Slots(new) = Slots(col)
    BY <2>2 DEF Slots
  <2>4. \A j \in Slots(col) : new.list[j] \in {d, col.list[j]}
    BY <2>2 DEF WellFormed
  <2> HIDE DEF new
  <2>5. Devs(new) /\ new.capacity > 0
    BY <2>2, <2>3, <2>4 DEF Devs
  <2> QED BY <2>5 DEF new
<1>2. CASE Holes(col) = {}
  <2>1. /\ new.capacity = 2 * col.capacity
        /\ new.list = [j \in 0 .. 2 * col.capacity - 1 |->
                         IF j < col.capacity THEN col.list[j]
                         ELSE IF j = col.capacity THEN d ELSE NULL]
    BY <1>2 DEF CollectionAdd
  <2>2. Slots(new) = 0 .. 2 * col.capacity - 1 /\ col.capacity \in Nat
    BY <2>1 DEF Slots, WellFormed
  <2>3. \A j \in Slots(new) : j < col.capacity => j \in Slots(col)
    BY <2>2 DEF Slots
  <2>4. \A j \in Slots(new) : new.list[j] \in Devices \cup {NULL}
    BY <2>1, <2>2, <2>3 DEF Devs
  <2>5. new.capacity > 0
    BY <2>1, <2>2
  <2> HIDE DEF new
  <2>6. Devs(new)
    BY <2>4 DEF Devs
  <2> QED BY <2>5, <2>6 DEF new
<1> QED BY <1>1, <1>2

LEMMA RemoveKeepsDevs ==
  ASSUME NEW col, WellFormed(col), Devs(col), NEW i \in Slots(col)
  PROVE  /\ Devs(CollectionRemove(col, i))
         /\ CollectionRemove(col, i).capacity = col.capacity
         /\ WellFormed(CollectionRemove(col, i))
<1> DEFINE new == CollectionRemove(col, i)
<1>1. new = [capacity |-> col.capacity, list |-> [col.list EXCEPT ![i] = NULL]]
  BY DEF CollectionRemove, WellFormed
<1>2. new.capacity = col.capacity /\ Slots(new) = Slots(col)
  BY <1>1 DEF Slots
<1>3. new.list = [j \in Slots(col) |-> IF j = i THEN NULL ELSE col.list[j]]
  BY <1>1 DEF WellFormed
<1> HIDE DEF new
<1>4. WellFormed(new) /\ Devs(new)
  BY <1>1, <1>2, <1>3 DEF WellFormed, Devs
<1> QED BY <1>2, <1>4 DEF new

(***************************************************************************)
(* The inductive invariant: the life of the monitor thread, the callback   *)
(* argument it was called with, and the agreement itself.                  *)
(***************************************************************************)
Awaiting == {"enter", "select", "flush"}

\* The callback will be called for what comes: it is set, or get_next_event
\* was called before it was cleared.
Reporting == event_cb \/ (mpc \in Awaiting /\ cb)

ThreadInv ==
  /\ apc = "unsubscribed" => mpc = "none"
  /\ apc = "subscribed" => mpc # "none"
  /\ event_cb <=> apc = "subscribed"
  /\ event_cb \in BOOLEAN /\ cb \in BOOLEAN
  /\ mpc \in {"none", "init"} => devices = CollectionFree
  /\ mpc \notin {"none", "init"} => devices.capacity > 0
  /\ event_cb /\ mpc \in Awaiting => cb
  /\ mpc = "select" => slot = 0
  /\ mpc \in MonitorPCs /\ apc \in ApplicationPCs

DataInv ==
  /\ WellFormed(devices) /\ Devs(devices)
  /\ view \in [Devices -> Int]
  /\ conn \in Connections /\ attached \subseteq Devices

Agreement ==
  Reporting => \A d \in Devices : view[d] = Cardinality(SlotsOf(devices, d))

IInv == ThreadInv /\ DataInv /\ Agreement

LEMMA ThreadStep == IInv /\ [Next]_vars => ThreadInv'
<1> SUFFICES ASSUME ThreadInv, DataInv, [Next]_vars PROVE ThreadInv'
    BY DEF IInv
<1> USE DEF MonitorPCs, ApplicationPCs, Awaiting
<1>1. CASE MonitorStarts
  BY <1>1, FreeCollection DEF MonitorStarts, ThreadInv
<1>2. CASE MonitorGoesOn \/ MonitorExits
  BY <1>2 DEF MonitorGoesOn, MonitorExits, ThreadInv
<1>3. CASE ListenSucceeds \/ ListenFails \/ AssignListenfd
  BY <1>3 DEF ListenSucceeds, ListenFails, AssignListenfd, ThreadInv
<1>4. CASE InnerLoop \/ EvaluateArguments
  BY <1>4 DEF InnerLoop, EvaluateArguments, ThreadInv
<1>5. CASE EnterSelect \/ ReceiveFails \/ FlushDone
  BY <1>5 DEF EnterSelect, ReceiveFails, FlushDone, ThreadInv
<1>6. CASE FlushDevice
  <2>1. PICK i \in FilledFrom(devices, slot) : devices' = CollectionRemove(devices, i)
    BY <1>6 DEF FlushDevice
  <2>2. devices'.capacity = devices.capacity
    BY <2>1, RemoveKeepsDevs DEF FilledFrom, DataInv
  <2> QED BY <1>6, <2>2 DEF FlushDevice, ThreadInv
<1>7. CASE ReceiveAdd
  <2>1. Head(conn.chan) \in Messages /\ Head(conn.chan).type = "add"
    BY <1>7 DEF ReceiveAdd, Receive, DataInv, Connections
  <2>2. devices'.capacity > 0
    BY <1>7, <2>1, AddKeepsDevs, MessageTypes DEF ReceiveAdd, ThreadInv, DataInv
  <2> QED BY <1>7, <2>2 DEF ReceiveAdd, Receive, ThreadInv
<1>8. CASE ReceiveRemove
  <2>1. devices'.capacity = devices.capacity
    <3>1. CASE devices' = devices
      BY <3>1
    <3>2. CASE \E i \in Slots(devices) : devices' = CollectionRemove(devices, i)
      BY <3>2, RemoveKeepsDevs DEF DataInv
    <3> QED BY <1>8, <3>1, <3>2 DEF ReceiveRemove, FirstSlot
  <2>2. /\ mpc = "select" /\ mpc' = "inner"
        /\ UNCHANGED <<apc, event_cb, cb>>
    BY <1>8 DEF ReceiveRemove, Receive
  <2> QED BY <2>1, <2>2 DEF ThreadInv
<1>9. CASE ReceiveOther \/ ReceiveNoId
  BY <1>9 DEF ReceiveOther, ReceiveNoId, Receive, ThreadInv
<1>10. CASE Subscribe \/ Unsubscribe
  BY <1>10 DEF Subscribe, Unsubscribe, ThreadInv
<1>11. CASE UnsubscribeStep
  BY <1>11 DEF UnsubscribeStep, MonitorIsGone, CloseListenfd, SignalMonitor, JoinMonitor, ThreadInv
<1>12. CASE DaemonStep
  <2>1. UNCHANGED <<apc, mpc, event_cb, devices, cb, slot>>
    BY <1>12 DEF DaemonStep, Announce, Attach, Detach, Disturb, DaemonDies, DaemonStarts
  <2> QED BY <2>1 DEF ThreadInv
<1>13. CASE UNCHANGED vars
  BY <1>13 DEF vars, ThreadInv
<1> QED
  BY <1>1, <1>2, <1>3, <1>4, <1>5, <1>6, <1>7, <1>8, <1>9, <1>10, <1>11, <1>12, <1>13
  DEF Next, MonitorStep

LEMMA NotifyType ==
  ASSUME view \in [Devices -> Int], NEW d \in Devices, NEW n \in Int, Notify(d, n)
  PROVE  view' \in [Devices -> Int]
BY DEF Notify

LEMMA DataStep == IInv /\ [Next]_vars => DataInv'
<1> SUFFICES ASSUME ThreadInv, DataInv, [Next]_vars PROVE DataInv'
    BY DEF IInv
<1>1. CASE MonitorStarts \/ MonitorExits
  BY <1>1, FreeCollection DEF MonitorStarts, MonitorExits, DataInv, Devs
<1>2. CASE MonitorGoesOn \/ ListenFails \/ AssignListenfd \/ InnerLoop \/ EvaluateArguments
  BY <1>2 DEF MonitorGoesOn, ListenFails, AssignListenfd, InnerLoop, EvaluateArguments, DataInv
<1>3. CASE ListenSucceeds
  <2>1. /\ UNCHANGED <<devices, view, attached>>
        /\ conn' = [closed |-> FALSE, eof |-> FALSE, pending |-> attached, chan |-> <<>>]
    BY <1>3 DEF ListenSucceeds
  <2>2. <<>> \in Seq(Messages) /\ attached \in SUBSET Devices
    BY DEF DataInv
  <2>3. conn' \in Connections
    BY <2>1, <2>2 DEF Connections
  <2> QED BY <2>1, <2>3 DEF DataInv
<1>4. CASE EnterSelect \/ ReceiveFails \/ FlushDone
  BY <1>4 DEF EnterSelect, ReceiveFails, FlushDone, DataInv
<1>5. CASE FlushDevice
  <2>1. PICK i \in FilledFrom(devices, slot) : /\ devices' = CollectionRemove(devices, i)
                                              /\ Notify(devices.list[i], -1)
    BY <1>5 DEF FlushDevice
  <2>2. WellFormed(devices') /\ Devs(devices')
    BY <2>1, RemoveKeepsDevs DEF FilledFrom, DataInv
  <2>3. devices.list[i] \in Devices
    BY <2>1 DEF FilledFrom, DataInv, Devs
  <2>4. view' \in [Devices -> Int]
    BY <2>1, <2>3, NotifyType DEF DataInv
  <2> QED BY <1>5, <2>2, <2>4 DEF FlushDevice, DataInv
<1>6. ASSUME NEW type, Receive(type)
      PROVE  /\ Head(conn.chan) \in Messages /\ Head(conn.chan).type = type
             /\ conn' \in Connections /\ UNCHANGED attached
  <2>1. /\ conn.chan \in Seq(Messages) /\ conn.chan # <<>>
        /\ conn' = [conn EXCEPT !.chan = Tail(conn.chan)]
    BY <1>6 DEF Receive, DataInv, Connections
  <2>2. Head(conn.chan) \in Messages /\ Tail(conn.chan) \in Seq(Messages)
    BY <2>1
  <2> QED BY <1>6, <2>1, <2>2 DEF Receive, DataInv, Connections
<1>7. CASE ReceiveAdd
  <2> DEFINE d == Head(conn.chan).dev
  <2>1. d \in Devices /\ conn' \in Connections /\ UNCHANGED attached
    BY <1>6, <1>7, MessageTypes DEF ReceiveAdd
  <2>2. devices' = CollectionAdd(devices, d) /\ Notify(d, 1) /\ devices.capacity > 0
    BY <1>7 DEF ReceiveAdd, ThreadInv
  <2> HIDE DEF d
  <2>3. WellFormed(devices') /\ Devs(devices')
    BY <2>1, <2>2, AddKeepsDevs, AddStoresOne, NullIsNoDevice DEF DataInv
  <2>4. view' \in [Devices -> Int]
    BY <2>1, <2>2, NotifyType DEF DataInv
  <2> QED BY <2>1, <2>3, <2>4 DEF DataInv
<1>8. CASE ReceiveRemove
  <2> DEFINE d == Head(conn.chan).dev
  <2>1. d \in Devices /\ conn' \in Connections /\ UNCHANGED attached
    BY <1>6, <1>8, MessageTypes DEF ReceiveRemove
  <2>2. CASE FirstSlot(devices, d) = {}
    BY <1>8, <2>1, <2>2 DEF ReceiveRemove, DataInv
  <2>3. CASE FirstSlot(devices, d) # {}
    <3>1. /\ \E i \in FirstSlot(devices, d) : devices' = CollectionRemove(devices, i)
          /\ Notify(d, -1)
      BY <1>8, <2>3 DEF ReceiveRemove
    <3>2. WellFormed(devices') /\ Devs(devices')
      BY <3>1, RemoveKeepsDevs DEF FirstSlot, DataInv
    <3>3. view' \in [Devices -> Int]
      BY <2>1, <3>1, NotifyType DEF DataInv
    <3> QED BY <2>1, <3>2, <3>3 DEF DataInv
  <2> QED BY <2>2, <2>3
<1>9. CASE ReceiveOther \/ ReceiveNoId
  BY <1>6, <1>9 DEF ReceiveOther, ReceiveNoId, DataInv
<1>10. CASE Subscribe \/ Unsubscribe
  BY <1>10 DEF Subscribe, Unsubscribe, DataInv
<1>11. CASE UnsubscribeStep
  <2>1. /\ conn' \in {conn, [conn EXCEPT !.closed = TRUE]}
        /\ UNCHANGED <<devices, view, attached>>
    BY <1>11 DEF UnsubscribeStep, MonitorIsGone, CloseListenfd, SignalMonitor, JoinMonitor
  <2>2. conn' \in Connections
    BY <2>1 DEF DataInv, Connections
  <2> QED BY <2>1, <2>2 DEF DataInv
<1>12. CASE DaemonStep
  <2>1. UNCHANGED <<devices, view>>
    BY <1>12 DEF DaemonStep, Announce, Attach, Detach, Disturb, DaemonDies, DaemonStarts
  <2>2. ASSUME NEW m \in Messages, NEW p \in SUBSET Devices
        PROVE  /\ [conn EXCEPT !.chan = Append(@, m)] \in Connections
               /\ [conn EXCEPT !.pending = p] \in Connections
               /\ [conn EXCEPT !.pending = p, !.chan = Append(@, m)] \in Connections
               /\ [conn EXCEPT !.eof = TRUE, !.pending = p] \in Connections
    <3>1. /\ conn \in Connections /\ conn.chan \in Seq(Messages)
          /\ Append(conn.chan, m) \in Seq(Messages)
      BY DEF DataInv, Connections
    <3>2. [conn EXCEPT !.chan = Append(@, m)] \in Connections
      BY <3>1 DEF Connections
    <3>3. [conn EXCEPT !.pending = p] \in Connections
      BY <3>1 DEF Connections
    <3>4. [conn EXCEPT !.pending = p, !.chan = Append(@, m)] \in Connections
      BY <3>1 DEF Connections
    <3>5. [conn EXCEPT !.eof = TRUE, !.pending = p] \in Connections
      BY <3>1 DEF Connections
    <3> QED BY <3>2, <3>3, <3>4, <3>5
  <2>3. CASE \E d \in Devices : Announce(d)
    <3>1. PICK d \in Devices : conn' = [conn EXCEPT !.pending = @ \ {d},
                                                  !.chan = Append(@, Added(d))]
      BY <2>3 DEF Announce
    <3>2. conn.pending \ {d} \in SUBSET Devices
      BY DEF DataInv, Connections
    <3>3. UNCHANGED attached
      BY <2>3 DEF Announce
    <3> QED BY <2>1, <2>2, <3>1, <3>2, <3>3, MessageTypes DEF DataInv
  <2>4. CASE \E d \in Devices : Attach(d) \/ Detach(d)
    <3>1. PICK d \in Devices : conn' \in {conn, [conn EXCEPT !.chan = Append(@, Added(d))],
                                          [conn EXCEPT !.chan = Append(@, Removed(d))],
                                          [conn EXCEPT !.pending = @ \ {d}]}
      BY <2>4 DEF Attach, Detach, Send
    <3>2. conn.pending \ {d} \in SUBSET Devices
      BY DEF DataInv, Connections
    <3>3. /\ [conn EXCEPT !.chan = Append(@, Added(d))] \in Connections
          /\ [conn EXCEPT !.chan = Append(@, Removed(d))] \in Connections
          /\ [conn EXCEPT !.pending = @ \ {d}] \in Connections
      BY <2>2, <3>2, MessageTypes
    <3>4. attached' \subseteq Devices
      BY <2>4 DEF Attach, Detach, DataInv
    <3> QED BY <2>1, <3>1, <3>3, <3>4 DEF DataInv
  <2>5. CASE \E k \in Disturbances : Disturb(k)
    <3>1. PICK k \in Disturbances : /\ conn' = [conn EXCEPT !.chan = Append(@, Disturbance(k))]
                                    /\ UNCHANGED attached
      BY <2>5 DEF Disturb, Send
    <3>2. conn' \in Connections
      BY <2>2, <3>1, MessageTypes
    <3> QED BY <2>1, <3>1, <3>2 DEF DataInv
  <2>6. CASE DaemonDies \/ DaemonStarts
    <3>1. /\ conn' \in {conn, [conn EXCEPT !.eof = TRUE, !.pending = {}]}
          /\ UNCHANGED attached
      BY <2>6 DEF DaemonDies, DaemonStarts
    <3>2. [conn EXCEPT !.eof = TRUE, !.pending = {}] \in Connections
      BY DEF DataInv, Connections
    <3> QED BY <2>1, <3>1, <3>2 DEF DataInv
  <2> QED BY <1>12, <2>3, <2>4, <2>5, <2>6 DEF DaemonStep
<1>13. CASE UNCHANGED vars
  BY <1>13 DEF vars, DataInv
<1> QED
  BY <1>1, <1>2, <1>3, <1>4, <1>5, <1>7, <1>8, <1>9, <1>10, <1>11, <1>12, <1>13
  DEF Next, MonitorStep

\* Only a subscription makes the monitor report.
LEMMA ReportingStep ==
  ASSUME ThreadInv, [Next]_vars, ~Subscribe, Reporting'
  PROVE  Reporting
<1> USE DEF Reporting, ThreadInv, Awaiting
<1>1. CASE MonitorStarts \/ MonitorGoesOn \/ MonitorExits \/ ListenSucceeds \/ ListenFails \/ AssignListenfd
  BY <1>1 DEF MonitorStarts, MonitorGoesOn, MonitorExits, ListenSucceeds, ListenFails, AssignListenfd
<1>2. CASE InnerLoop \/ EvaluateArguments \/ EnterSelect \/ ReceiveFails \/ FlushDone \/ FlushDevice
  BY <1>2 DEF InnerLoop, EvaluateArguments, EnterSelect, ReceiveFails, FlushDone, FlushDevice
<1>3. CASE ReceiveAdd \/ ReceiveRemove \/ ReceiveOther \/ ReceiveNoId
  BY <1>3 DEF ReceiveAdd, ReceiveRemove, ReceiveOther, ReceiveNoId, Receive
<1>4. CASE Unsubscribe \/ UnsubscribeStep
  BY <1>4 DEF Unsubscribe, UnsubscribeStep, MonitorIsGone, CloseListenfd, SignalMonitor, JoinMonitor
<1>5. CASE DaemonStep
  BY <1>5 DEF DaemonStep, Announce, Attach, Detach, Disturb, DaemonDies, DaemonStarts
<1>6. CASE UNCHANGED vars
  BY <1>6 DEF vars
<1> QED
  BY <1>1, <1>2, <1>3, <1>4, <1>5, <1>6 DEF Next, MonitorStep

\* One step at a time the callback and the collection change together: a
\* REMOVE for every slot emptied, an ADD for every record stored.
LEMMA AgreementStep == IInv /\ [Next]_vars => Agreement'
<1> SUFFICES ASSUME ThreadInv, DataInv, Agreement, [Next]_vars, Reporting'
             PROVE  \A d \in Devices : view'[d] = Cardinality(SlotsOf(devices', d))
    BY DEF IInv, Agreement
<1> DEFINE Agrees == \A d \in Devices : view[d] = Cardinality(SlotsOf(devices, d))
<1>1. ASSUME UNCHANGED <<devices, view>>, Reporting
      PROVE  Agrees'
  BY <1>1 DEF Agreement, SlotsOf, Slots
<1>2. \A d \in Devices : /\ Cardinality(SlotsOf(CollectionFree, d)) = 0
                         /\ Cardinality(SlotsOf(CollectionInit, d)) = 0
  <2> SUFFICES ASSUME NEW d \in Devices
               PROVE  SlotsOf(CollectionFree, d) = {} /\ SlotsOf(CollectionInit, d) = {}
      BY FS_EmptySet
  <2> QED BY FreeCollection, NullIsNoDevice DEF SlotsOf
<1>3. ASSUME NEW i \in Slots(devices), devices.list[i] # NULL,
             devices' = CollectionRemove(devices, i), Notify(devices.list[i], -1),
             Reporting, cb
      PROVE  Agrees'
  <2> DEFINE e == devices.list[i]
  <2>1. /\ e \in Devices
        /\ view' = [view EXCEPT ![e] = @ + (-1)]
        /\ view \in [Devices -> Int]
    BY <1>3 DEF Notify, DataInv, Devs
  <2>2. /\ Cardinality(SlotsOf(devices', e)) = Cardinality(SlotsOf(devices, e)) - 1
        /\ \A d : d # e /\ d # NULL => SlotsOf(devices', d) = SlotsOf(devices, d)
    BY <1>3, RemoveDropsOne DEF DataInv
  <2>3. \A d \in Devices : view[d] = Cardinality(SlotsOf(devices, d))
    BY <1>3 DEF Agreement
  <2> HIDE DEF e
  <2> SUFFICES ASSUME NEW d \in Devices
               PROVE  view'[d] = Cardinality(SlotsOf(devices', d))
      OBVIOUS
  <2>4. CASE d = e
    BY <2>1, <2>2, <2>3, <2>4
  <2>5. CASE d # e
    BY <2>1, <2>2, <2>3, <2>5, NullIsNoDevice
  <2> QED BY <2>4, <2>5
<1>4. ASSUME NEW e \in Devices, devices' = CollectionAdd(devices, e), Notify(e, 1),
             devices.capacity > 0, Reporting, cb
      PROVE  Agrees'
  <2>1. view' = [view EXCEPT ![e] = @ + 1] /\ view \in [Devices -> Int]
    BY <1>4 DEF Notify, DataInv
  <2>2. /\ Cardinality(SlotsOf(devices', e)) = Cardinality(SlotsOf(devices, e)) + 1
        /\ \A d : d # e /\ d # NULL => SlotsOf(devices', d) = SlotsOf(devices, d)
    BY <1>4, AddStoresOne, NullIsNoDevice DEF DataInv
  <2>3. \A d \in Devices : view[d] = Cardinality(SlotsOf(devices, d))
    BY <1>4 DEF Agreement
  <2> SUFFICES ASSUME NEW d \in Devices
               PROVE  view'[d] = Cardinality(SlotsOf(devices', d))
      OBVIOUS
  <2>4. CASE d = e
    BY <2>1, <2>2, <2>3, <2>4
  <2>5. CASE d # e
    BY <2>1, <2>2, <2>3, <2>5, NullIsNoDevice
  <2> QED BY <2>4, <2>5
<1>0. UNCHANGED apc \/ apc' # "subscribed" => Reporting
  BY ReportingStep DEF Subscribe
<1> HIDE DEF Reporting
<1>5. CASE MonitorStarts
  <2>1. mpc = "init" /\ devices' = CollectionInit /\ UNCHANGED <<view, apc>>
    BY <1>5 DEF MonitorStarts
  <2>2. devices = CollectionFree
    BY <2>1 DEF ThreadInv
  <2>3. Reporting
    BY <1>0, <2>1
  <2> QED BY <1>2, <2>1, <2>2, <2>3 DEF Agreement
<1>6. CASE MonitorExits
  BY <1>6 DEF MonitorExits, ThreadInv, Reporting, Awaiting
<1>7. CASE Subscribe
  <2>1. apc = "unsubscribed" /\ view' = [d \in Devices |-> 0] /\ UNCHANGED devices
    BY <1>7 DEF Subscribe
  <2>2. devices' = CollectionFree
    BY <2>1 DEF ThreadInv
  <2> QED BY <1>2, <2>1, <2>2
<1>8. CASE FlushDevice
  <2>1. PICK i \in FilledFrom(devices, slot) : /\ devices' = CollectionRemove(devices, i)
                                              /\ Notify(devices.list[i], -1)
    BY <1>8 DEF FlushDevice
  <2>2. Reporting /\ cb
    BY <1>0, <1>8 DEF FlushDevice, ThreadInv, Reporting, Awaiting
  <2>3. i \in Slots(devices) /\ devices.list[i] # NULL
    BY <2>1 DEF FilledFrom
  <2> QED BY <1>3, <2>1, <2>2, <2>3
<1>9. CASE ReceiveAdd
  <2> DEFINE e == Head(conn.chan).dev
  <2>1. e \in Devices
    <3>1. Head(conn.chan) \in Messages /\ Head(conn.chan).type = "add"
      BY <1>9 DEF ReceiveAdd, Receive, DataInv, Connections
    <3> QED BY <3>1, MessageTypes
  <2>2. devices' = CollectionAdd(devices, e) /\ Notify(e, 1)
    BY <1>9 DEF ReceiveAdd
  <2>3. devices.capacity > 0 /\ Reporting /\ cb
    BY <1>0, <1>9 DEF ReceiveAdd, Receive, ThreadInv, Reporting, Awaiting
  <2> HIDE DEF e
  <2> QED BY <1>4, <2>1, <2>2, <2>3
<1>10. CASE ReceiveRemove
  <2> DEFINE e == Head(conn.chan).dev
  <2>1. e \in Devices
    <3>1. Head(conn.chan) \in Messages /\ Head(conn.chan).type = "remove"
      BY <1>10 DEF ReceiveRemove, Receive, DataInv, Connections
    <3> QED BY <3>1, MessageTypes
  <2>2. Reporting /\ cb
    BY <1>0, <1>10 DEF ReceiveRemove, Receive, ThreadInv, Reporting, Awaiting
  <2>3. CASE FirstSlot(devices, e) = {}
    BY <1>1, <1>10, <2>2, <2>3 DEF ReceiveRemove
  <2>4. CASE FirstSlot(devices, e) # {}
    <3>1. PICK i \in FirstSlot(devices, e) : /\ devices' = CollectionRemove(devices, i)
                                            /\ Notify(e, -1)
      BY <1>10, <2>4 DEF ReceiveRemove
    <3>2. i \in Slots(devices) /\ devices.list[i] = e
      BY <3>1 DEF FirstSlot
    <3> HIDE DEF e
    <3> QED BY <1>3, <2>1, <2>2, <3>1, <3>2, NullIsNoDevice
  <2> QED BY <2>3, <2>4
<1>11. ASSUME UNCHANGED <<devices, view, apc>> PROVE Agrees'
  BY <1>0, <1>1, <1>11
<1>12. CASE MonitorGoesOn \/ ListenSucceeds \/ ListenFails \/ AssignListenfd
  BY <1>11, <1>12 DEF MonitorGoesOn, ListenSucceeds, ListenFails, AssignListenfd
<1>13. CASE InnerLoop \/ EvaluateArguments \/ EnterSelect \/ ReceiveFails \/ FlushDone
  BY <1>11, <1>13 DEF InnerLoop, EvaluateArguments, EnterSelect, ReceiveFails, FlushDone
<1>14. CASE ReceiveOther \/ ReceiveNoId
  BY <1>11, <1>14 DEF ReceiveOther, ReceiveNoId, Receive
<1>15. CASE Unsubscribe \/ UnsubscribeStep
  <2>1. UNCHANGED <<devices, view>> /\ apc' # "subscribed"
    BY <1>15 DEF Unsubscribe, UnsubscribeStep, MonitorIsGone, CloseListenfd, SignalMonitor,
                 JoinMonitor
  <2> QED BY <1>0, <1>1, <2>1
<1>16. CASE DaemonStep
  BY <1>11, <1>16 DEF DaemonStep, Announce, Attach, Detach, Disturb, DaemonDies, DaemonStarts
<1>17. CASE UNCHANGED vars
  BY <1>11, <1>17 DEF vars
<1> QED
  BY <1>5, <1>6, <1>7, <1>8, <1>9, <1>10, <1>12, <1>13, <1>14, <1>15, <1>16, <1>17
  DEF Next, MonitorStep

LEMMA InitIInv == Init => IInv
<1> SUFFICES ASSUME Init PROVE IInv
    OBVIOUS
<1>1. ThreadInv
  BY DEF Init, ThreadInv, MonitorPCs, ApplicationPCs
<1>2. DataInv
  <2>1. devices = CollectionFree /\ attached \subseteq Devices
        /\ view = [d \in Devices |-> 0]
    BY DEF Init
  <2>2. conn \in Connections
    BY DEF Init, NoConn, Connections
  <2> QED BY <2>1, <2>2, FreeCollection DEF DataInv, Devs
<1>3. Agreement
  BY DEF Init, Agreement, Reporting, Awaiting
<1> QED BY <1>1, <1>2, <1>3 DEF IInv

\* A subscribed application's view, built from the callbacks alone, agrees
\* record by record with the collection of the device_monitor thread.
THEOREM ViewAgrees == Spec => []ViewIsCollection
<1>1. IInv /\ [Next]_vars => IInv'
  BY ThreadStep, DataStep, AgreementStep DEF IInv
<1>2. IInv => ViewIsCollection
  BY DEF IInv, Agreement, ThreadInv, Reporting, ViewIsCollection, Occurrences, SlotsOf
<1> QED BY InitIInv, <1>1, <1>2, PTL DEF Spec

-----------------------------------------------------------------------------
(* The types.                                                              *)

RestTypes ==
  /\ listenfd \in {"none", "current", "stale"} /\ fd \in {"none", "current", "stale"}
  /\ slot \in Nat /\ up \in BOOLEAN
  /\ toggles \in Nat /\ crashes \in Nat /\ disturbed \in Nat /\ subscribes \in Nat

LEMMA RestTypesStep ==
  ASSUME RestTypes, DataInv, [Next]_vars
  PROVE  RestTypes'
<1> USE DEF RestTypes
<1>1. CASE MonitorStarts \/ MonitorGoesOn \/ MonitorExits \/ ListenSucceeds \/ ListenFails
           \/ AssignListenfd
  BY <1>1 DEF MonitorStarts, MonitorGoesOn, MonitorExits, ListenSucceeds, ListenFails, AssignListenfd
<1>2. CASE InnerLoop \/ EvaluateArguments \/ EnterSelect \/ ReceiveFails \/ FlushDone
  BY <1>2 DEF InnerLoop, EvaluateArguments, EnterSelect, ReceiveFails, FlushDone
<1>3. CASE FlushDevice
  <2>1. PICK i \in FilledFrom(devices, slot) : slot' = i + 1
    BY <1>3 DEF FlushDevice
  <2>2. slot' \in Nat
    BY <2>1 DEF FilledFrom, Slots, DataInv, WellFormed
  <2> QED BY <1>3, <2>2 DEF FlushDevice
<1>4. CASE ReceiveAdd \/ ReceiveRemove \/ ReceiveOther \/ ReceiveNoId
  BY <1>4 DEF ReceiveAdd, ReceiveRemove, ReceiveOther, ReceiveNoId, Receive
<1>5. CASE Subscribe \/ Unsubscribe \/ UnsubscribeStep
  BY <1>5 DEF Subscribe, Unsubscribe, UnsubscribeStep, MonitorIsGone, CloseListenfd, SignalMonitor,
              JoinMonitor
<1>6. CASE DaemonStep
  <2>1. ASSUME NEW d \in Devices, Announce(d) \/ Attach(d) \/ Detach(d) PROVE RestTypes'
    BY <2>1 DEF Announce, Attach, Detach
  <2>2. ASSUME NEW k \in Disturbances, Disturb(k) PROVE RestTypes'
    BY <2>2 DEF Disturb
  <2>3. CASE DaemonDies \/ DaemonStarts
    <3>1. crashes' \in Nat
      BY <2>3 DEF DaemonDies, DaemonStarts
    <3>2. up' \in BOOLEAN
      BY <2>3, Zenon DEF DaemonDies, DaemonStarts
    <3>3. UNCHANGED <<listenfd, fd, slot, toggles, disturbed, subscribes>>
      BY <2>3 DEF DaemonDies, DaemonStarts
    <3> QED
      BY <3>1, <3>2, <3>3
  <2> QED BY <1>6, <2>1, <2>2, <2>3 DEF DaemonStep
<1>7. CASE UNCHANGED vars
  BY <1>7 DEF vars
<1> QED
  BY <1>1, <1>2, <1>3, <1>4, <1>5, <1>6, <1>7 DEF Next, MonitorStep

\* What the two threads keep has its type in every state, for any set of
\* devices and any capacity the collection grows to.
THEOREM TypeCorrect == Spec => []TypeOK
<1>1. IInv /\ [Next]_vars => IInv'
  BY ThreadStep, DataStep, AgreementStep DEF IInv
<1>2. Init => RestTypes
  BY DEF Init, RestTypes
<1>3. IInv /\ RestTypes /\ [Next]_vars => RestTypes'
  BY RestTypesStep DEF IInv
<1>4. IInv /\ RestTypes => TypeOK
  BY DEF IInv, ThreadInv, DataInv, RestTypes, TypeOK, WellFormed, Devs
<1> QED BY InitIInv, <1>1, <1>2, <1>3, <1>4, PTL DEF Spec

-----------------------------------------------------------------------------
(* How often a message is among the first of a sequence.                   *)

Count(s, k, m) == Cardinality({i \in 1 .. k : s[i] = m})

LEMMA CountIsNat ==
  ASSUME NEW s, NEW k \in Nat, NEW m
  PROVE  IsFiniteSet({i \in 1 .. k : s[i] = m}) /\ Count(s, k, m) \in Nat
<1>1. IsFiniteSet(1 .. k)
  BY FS_Interval
<1> QED
  BY <1>1, FS_Subset, FS_CardinalityType DEF Count

LEMMA CountNone ==
  ASSUME NEW s, NEW m
  PROVE  Count(s, 0, m) = 0
<1>1. {i \in 1 .. 0 : s[i] = m} = {}
  OBVIOUS
<1> QED
  BY <1>1, FS_EmptySet DEF Count

LEMMA CountNext ==
  ASSUME NEW s, NEW k \in Nat, NEW m
  PROVE  Count(s, k + 1, m) = IF s[k + 1] = m THEN Count(s, k, m) + 1 ELSE Count(s, k, m)
<1> DEFINE S == {i \in 1 .. k : s[i] = m}
<1>1. IsFiniteSet(S) /\ k + 1 \notin S
  BY CountIsNat
<1>2. CASE s[k + 1] = m
  <2>1. {i \in 1 .. k + 1 : s[i] = m} = S \cup {k + 1}
    BY <1>2
  <2> QED
    BY <1>1, <1>2, <2>1, FS_AddElement DEF Count
<1>3. CASE s[k + 1] # m
  <2>1. {i \in 1 .. k + 1 : s[i] = m} = S
    BY <1>3
  <2> QED
    BY <1>3, <2>1 DEF Count
<1> QED
  BY <1>2, <1>3

LEMMA CountAppend ==
  ASSUME NEW S, NEW s \in Seq(S), NEW x \in S, NEW m
  PROVE  /\ \A k \in 0 .. Len(s) : Count(Append(s, x), k, m) = Count(s, k, m)
         /\ Count(Append(s, x), Len(s) + 1, m)
              = IF x = m THEN Count(s, Len(s), m) + 1 ELSE Count(s, Len(s), m)
<1>1. ASSUME NEW k \in 0 .. Len(s)
      PROVE  Count(Append(s, x), k, m) = Count(s, k, m)
  <2>1. {i \in 1 .. k : Append(s, x)[i] = m} = {i \in 1 .. k : s[i] = m}
    OBVIOUS
  <2> QED
    BY <2>1 DEF Count
<1>2. Len(s) \in 0 .. Len(s) /\ Len(s) \in Nat /\ Append(s, x)[Len(s) + 1] = x
  OBVIOUS
<1>3. Count(Append(s, x), Len(s), m) = Count(s, Len(s), m)
  BY <1>1, <1>2
<1>4. Count(Append(s, x), Len(s) + 1, m)
        = IF x = m THEN Count(Append(s, x), Len(s), m) + 1 ELSE Count(Append(s, x), Len(s), m)
  BY <1>2, CountNext
<1> QED
  BY <1>1, <1>3, <1>4

LEMMA CountTail ==
  ASSUME NEW S, NEW s \in Seq(S), s # <<>>, NEW k \in 0 .. Len(s) - 1, NEW m
  PROVE  Count(s, k + 1, m)
           = IF Head(s) = m THEN Count(Tail(s), k, m) + 1 ELSE Count(Tail(s), k, m)
<1> DEFINE T == {i \in 1 .. k : Tail(s)[i] = m}
           U == {i \in 2 .. k + 1 : s[i] = m}
           f == [i \in T |-> i + 1]
<1>1. /\ Head(s) = s[1] /\ Len(Tail(s)) = Len(s) - 1 /\ k \in Nat
      /\ \A i \in 1 .. k : Tail(s)[i] = s[i + 1]
  OBVIOUS
<1>2. f \in Bijection(T, U)
  <2>1. \A i \in T : i + 1 \in U
    BY <1>1
  <2>2. \A j \in U : j - 1 \in T
    <3> SUFFICES ASSUME NEW j \in U PROVE j - 1 \in T
      OBVIOUS
    <3>1. j - 1 \in 1 .. k /\ (j - 1) + 1 = j
      BY <1>1
    <3> QED
      BY <1>1, <3>1
  <2>3. f \in [T -> U] /\ \A a \in T, b \in T : f[a] = f[b] => a = b
    BY <2>1
  <2>4. \A j \in U : \E i \in T : f[i] = j
    <3> SUFFICES ASSUME NEW j \in U PROVE \E i \in T : f[i] = j
      OBVIOUS
    <3>1. j \in Int /\ (j - 1) + 1 = j
      OBVIOUS
    <3>2. j - 1 \in T /\ f[j - 1] = j
      BY <2>2, <3>1
    <3> HIDE DEF T, f
    <3> QED
      BY <3>2
  <2> HIDE DEF T, U, f
  <2> QED
    BY <2>3, <2>4 DEF Bijection, Injection, Surjection, IsInjective
<1>3. IsFiniteSet(T)
  <2>1. k \in Nat
    BY <1>1
  <2>2. IsFiniteSet(1 .. k) /\ T \subseteq 1 .. k
    BY <2>1, FS_Interval
  <2> HIDE DEF T
  <2> QED
    BY <2>2, FS_Subset
<1>4. Cardinality(U) = Count(Tail(s), k, m) /\ IsFiniteSet(U)
  <2>1. ExistsBijection(T, U)
    BY <1>2 DEF ExistsBijection
  <2> HIDE DEF T, U
  <2>2. Cardinality(U) = Cardinality(T) /\ IsFiniteSet(U)
    BY <1>3, <2>1, FS_Bijection
  <2> QED
    BY <2>2 DEF T, Count
<1>5. CASE Head(s) = m
  <2>1. {i \in 1 .. k + 1 : s[i] = m} = U \cup {1} /\ 1 \notin U
    BY <1>1, <1>5
  <2> HIDE DEF U
  <2> QED
    BY <1>4, <1>5, <2>1, FS_AddElement DEF Count
<1>6. CASE Head(s) # m
  <2>1. {i \in 1 .. k + 1 : s[i] = m} = U
    BY <1>1, <1>6
  <2> QED
    BY <1>4, <1>6, <2>1 DEF Count
<1> QED
  BY <1>5, <1>6

-----------------------------------------------------------------------------
(* Every device is told of in turn and nothing is lost, if the daemon names *)
(* the device in each Detached message.  get_next_event drops one that does *)
(* not and dials anew without a REMOVE, so that the ADD of the devices that *)
(* are still there comes again.                                             *)

NamesDevices == "noid" \notin Disturbances

Connected == {"assign", "inner", "args", "enter", "select"}

\* The view of d once the first k messages of the connection have been read.
Balance(d, k) == view[d] + Count(conn.chan, k, Added(d)) - Count(conn.chan, k, Removed(d))

Known ==
  /\ \A i \in 1 .. Len(conn.chan) : conn.chan[i].type = "noid" => "noid" \in Disturbances
  /\ conn.eof \/ up

Alternating ==
  Reporting /\ mpc \in Connected =>
    \A d \in Devices : \A k \in 0 .. Len(conn.chan) : Balance(d, k) \in {0, 1}

Complete ==
  Reporting /\ mpc \in Connected /\ ~conn.eof =>
    \A d \in Devices :
      Balance(d, Len(conn.chan)) + (IF d \in conn.pending THEN 1 ELSE 0)
        = (IF d \in attached THEN 1 ELSE 0)

Forgotten ==
  Reporting /\ mpc \in {"init", "outer", "listen"} => \A d \in Devices : view[d] = 0

Flushing ==
  mpc = "flush" =>
    /\ \A j \in Slots(devices) : j < slot => devices.list[j] = NULL
    /\ Reporting => \A d \in Devices : view[d] \in {0, 1}

Told == Known /\ Alternating /\ Complete /\ Forgotten /\ Flushing

LEMMA MessagesDiffer ==
  /\ \A d \in Devices, e \in Devices : Added(d) # Removed(e)
  /\ \A d \in Devices, e \in Devices : Added(d) = Added(e) => d = e
  /\ \A d \in Devices, e \in Devices : Removed(d) = Removed(e) => d = e
  /\ \A m : m.type \notin {"add", "remove"} => \A d \in Devices : m # Added(d) /\ m # Removed(d)
<1>1. \A d \in Devices : /\ Added(d).type = "add" /\ Added(d).dev = d
                         /\ Removed(d).type = "remove" /\ Removed(d).dev = d
  BY DEF Added, Removed
<1> QED
  BY <1>1

LEMMA TypeTells ==
  ASSUME NEW m \in Messages
  PROVE  /\ m.type = "add" => m = Added(m.dev) /\ m.dev \in Devices
         /\ m.type = "remove" => m = Removed(m.dev) /\ m.dev \in Devices
<1>1. CASE \E d \in Devices : m = Added(d) \/ m = Removed(d)
  BY <1>1 DEF Added, Removed
<1>2. CASE \E k \in {"noid", "garbage", "other"} : m = Disturbance(k)
  BY <1>2 DEF Disturbance
<1> QED
  BY <1>1, <1>2 DEF Messages

LEMMA BalanceIsInt ==
  ASSUME view \in [Devices -> Int], NEW d \in Devices, NEW k \in Nat
  PROVE  Balance(d, k) \in Int /\ Balance(d, 0) = view[d]
<1>1. /\ Count(conn.chan, k, Added(d)) \in Nat /\ Count(conn.chan, k, Removed(d)) \in Nat
      /\ Count(conn.chan, 0, Added(d)) = 0 /\ Count(conn.chan, 0, Removed(d)) = 0
  BY CountIsNat, CountNone
<1> QED
  BY <1>1 DEF Balance

\* A message that is sent changes what is to come of its own device.
LEMMA SendBalance ==
  ASSUME DataInv, NEW m \in Messages, conn'.chan = Append(conn.chan, m), UNCHANGED view,
         NEW d \in Devices
  PROVE  /\ Len(conn'.chan) = Len(conn.chan) + 1
         /\ \A k \in 0 .. Len(conn.chan) : Balance(d, k)' = Balance(d, k)
         /\ m = Added(d) => Balance(d, Len(conn.chan))' = Balance(d, Len(conn.chan)) + 1
         /\ m = Removed(d) => Balance(d, Len(conn.chan))' = Balance(d, Len(conn.chan)) - 1
         /\ m # Added(d) /\ m # Removed(d) =>
              Balance(d, Len(conn.chan))' = Balance(d, Len(conn.chan))
<1> DEFINE s == conn.chan
<1>1. s \in Seq(Messages) /\ Len(s) \in Nat /\ view[d] \in Int
  BY DEF DataInv, Connections
<1>2. Len(Append(s, m)) = Len(s) + 1
  BY <1>1
<1>3. \A k \in 0 .. Len(s) : /\ Count(Append(s, m), k, Added(d)) = Count(s, k, Added(d))
                             /\ Count(Append(s, m), k, Removed(d)) = Count(s, k, Removed(d))
  <2> HIDE DEF s
  <2>1. \A n : \A k \in 0 .. Len(s) : Count(Append(s, m), k, n) = Count(s, k, n)
    BY <1>1, CountAppend
  <2> QED
    BY <2>1
<1>4. /\ Count(Append(s, m), Len(s) + 1, Added(d))
           = IF m = Added(d) THEN Count(s, Len(s), Added(d)) + 1 ELSE Count(s, Len(s), Added(d))
      /\ Count(Append(s, m), Len(s) + 1, Removed(d))
           = IF m = Removed(d) THEN Count(s, Len(s), Removed(d)) + 1
             ELSE Count(s, Len(s), Removed(d))
  BY <1>1, CountAppend
<1>5. Count(s, Len(s), Added(d)) \in Nat /\ Count(s, Len(s), Removed(d)) \in Nat
  BY <1>1, CountIsNat
<1>6. Added(d) # Removed(d)
  BY MessagesDiffer
<1> HIDE DEF s
<1>7. /\ \A k \in Nat :
           Balance(d, k) = view[d] + Count(s, k, Added(d)) - Count(s, k, Removed(d))
      /\ \A k \in Nat :
           Balance(d, k)' = view[d] + Count(Append(s, m), k, Added(d))
                                    - Count(Append(s, m), k, Removed(d))
  BY DEF Balance, s
<1>8. \A k \in 0 .. Len(s) : Balance(d, k)' = Balance(d, k)
  BY <1>3, <1>7
<1>9. /\ m = Added(d) => Balance(d, Len(s))' = Balance(d, Len(s)) + 1
      /\ m = Removed(d) => Balance(d, Len(s))' = Balance(d, Len(s)) - 1
      /\ m # Added(d) /\ m # Removed(d) => Balance(d, Len(s))' = Balance(d, Len(s))
  <2>1. Len(s') = Len(s) + 1 /\ Len(s) + 1 \in Nat
    BY <1>1, <1>2 DEF s
  <2>2. Balance(d, Len(s)) = view[d] + Count(s, Len(s), Added(d)) - Count(s, Len(s), Removed(d))
    BY <1>1, <1>7
  <2>3. Balance(d, Len(s))' = view[d] + Count(Append(s, m), Len(s) + 1, Added(d))
                                          - Count(Append(s, m), Len(s) + 1, Removed(d))
    BY <1>7, <2>1
  <2> QED
    BY <1>1, <1>4, <1>5, <1>6, <2>2, <2>3
<1> QED
  BY <1>2, <1>8, <1>9 DEF s

\* A message that is read moves from what is to come to the view.
LEMMA ReadBalance ==
  ASSUME DataInv, conn.chan # <<>>, conn'.chan = Tail(conn.chan), NEW d \in Devices,
         view'[d] = IF Head(conn.chan) = Added(d) THEN view[d] + 1
                    ELSE IF Head(conn.chan) = Removed(d) THEN view[d] - 1 ELSE view[d]
  PROVE  /\ Len(conn'.chan) = Len(conn.chan) - 1 /\ Len(conn.chan) \in Nat \ {0}
         /\ \A k \in 0 .. Len(conn.chan) - 1 : Balance(d, k)' = Balance(d, k + 1)
<1> DEFINE s == conn.chan
<1>1. s \in Seq(Messages) /\ s # <<>> /\ view[d] \in Int
  BY DEF DataInv, Connections
<1>2. Len(Tail(s)) = Len(s) - 1 /\ Len(s) \in Nat \ {0}
  BY <1>1
<1>3. ASSUME NEW k \in 0 .. Len(s) - 1
      PROVE  Balance(d, k)' = Balance(d, k + 1)
  <2>1. k \in Nat
    BY <1>2
  <2>2. Count(Tail(s), k, Added(d)) \in Nat /\ Count(Tail(s), k, Removed(d)) \in Nat
    BY <2>1, CountIsNat
  <2>3. /\ Count(s, k + 1, Added(d)) = IF Head(s) = Added(d) THEN Count(Tail(s), k, Added(d)) + 1
                                       ELSE Count(Tail(s), k, Added(d))
        /\ Count(s, k + 1, Removed(d)) = IF Head(s) = Removed(d)
                                         THEN Count(Tail(s), k, Removed(d)) + 1
                                         ELSE Count(Tail(s), k, Removed(d))
    BY <1>1, CountTail
  <2>4. Added(d) # Removed(d)
    BY MessagesDiffer
  <2>5. /\ Balance(d, k + 1) = view[d] + Count(s, k + 1, Added(d)) - Count(s, k + 1, Removed(d))
        /\ Balance(d, k)' = view'[d] + Count(Tail(s), k, Added(d)) - Count(Tail(s), k, Removed(d))
        /\ view'[d] = IF Head(s) = Added(d) THEN view[d] + 1
                      ELSE IF Head(s) = Removed(d) THEN view[d] - 1 ELSE view[d]
    BY DEF Balance
  <2> HIDE DEF s
  <2>6. CASE Head(s) = Added(d)
    <3>1. /\ Count(s, k + 1, Added(d)) = Count(Tail(s), k, Added(d)) + 1
          /\ Count(s, k + 1, Removed(d)) = Count(Tail(s), k, Removed(d))
      BY <2>3, <2>4, <2>6
    <3>2. view'[d] = view[d] + 1
      BY <2>5, <2>6
    <3> QED
      BY <1>1, <2>2, <2>5, <3>1, <3>2
  <2>7. CASE Head(s) = Removed(d)
    <3>1. /\ Count(s, k + 1, Added(d)) = Count(Tail(s), k, Added(d))
          /\ Count(s, k + 1, Removed(d)) = Count(Tail(s), k, Removed(d)) + 1
      BY <2>3, <2>4, <2>7
    <3>2. view'[d] = view[d] - 1
      BY <2>4, <2>5, <2>7
    <3> QED
      BY <1>1, <2>2, <2>5, <3>1, <3>2
  <2>8. CASE Head(s) # Added(d) /\ Head(s) # Removed(d)
    BY <1>1, <2>2, <2>3, <2>5, <2>8
  <2> QED
    BY <2>6, <2>7, <2>8
<1> QED
  BY <1>2, <1>3

LEMMA KnownStep ==
  ASSUME DataInv, Known, [Next]_vars
  PROVE  Known'
<1> USE DEF Known
<1>1. conn.chan \in Seq(Messages)
  BY DEF DataInv, Connections
<1>2. ASSUME NEW m \in Messages, conn'.chan = Append(conn.chan, m),
             m.type = "noid" => "noid" \in Disturbances
      PROVE  \A i \in 1 .. Len(conn'.chan) : conn'.chan[i].type = "noid" => "noid" \in Disturbances
  <2>1. ASSUME NEW i \in 1 .. Len(conn'.chan)
        PROVE  conn'.chan[i] = m \/ (i \in 1 .. Len(conn.chan) /\ conn'.chan[i] = conn.chan[i])
    BY <1>1, <1>2
  <2> QED
    BY <1>2, <2>1
<1>3. CASE ListenSucceeds
  BY <1>3 DEF ListenSucceeds
<1>4. ASSUME NEW type, Receive(type) PROVE Known'
  <2>1. /\ conn.chan # <<>> /\ conn'.chan = Tail(conn.chan) /\ conn'.eof = conn.eof /\ up' = up
    BY <1>4 DEF Receive, DataInv, Connections
  <2>2. \A i \in 1 .. Len(conn'.chan) : i + 1 \in 1 .. Len(conn.chan)
                                        /\ conn'.chan[i] = conn.chan[i + 1]
    BY <1>1, <2>1
  <2> QED
    BY <2>1, <2>2
<1>5. CASE MonitorStarts \/ MonitorGoesOn \/ MonitorExits \/ ListenFails \/ AssignListenfd
  BY <1>5 DEF MonitorStarts, MonitorGoesOn, MonitorExits, ListenFails, AssignListenfd
<1>6. CASE InnerLoop \/ EvaluateArguments \/ EnterSelect \/ ReceiveFails \/ FlushDone \/ FlushDevice
  BY <1>6 DEF InnerLoop, EvaluateArguments, EnterSelect, ReceiveFails, FlushDone, FlushDevice
<1>7. CASE ReceiveAdd \/ ReceiveRemove \/ ReceiveOther \/ ReceiveNoId
  BY <1>4, <1>7 DEF ReceiveAdd, ReceiveRemove, ReceiveOther, ReceiveNoId
<1>8. CASE Subscribe \/ Unsubscribe \/ UnsubscribeStep
  <2>1. conn' = conn \/ conn' = [conn EXCEPT !.closed = TRUE]
    BY <1>8 DEF Subscribe, Unsubscribe, UnsubscribeStep, MonitorIsGone, CloseListenfd, SignalMonitor,
                JoinMonitor
  <2>2. up' = up
    BY <1>8 DEF Subscribe, Unsubscribe, UnsubscribeStep, MonitorIsGone, CloseListenfd, SignalMonitor,
                JoinMonitor
  <2>3. conn'.chan = conn.chan /\ conn'.eof = conn.eof
    BY <2>1 DEF DataInv, Connections
  <2> QED
    BY <2>2, <2>3
<1>9. CASE DaemonDies \/ DaemonStarts
  <2>1. \/ conn' = conn /\ up' = TRUE
        \/ conn' = [conn EXCEPT !.eof = TRUE, !.pending = {}]
    BY <1>9, Zenon DEF DaemonDies, DaemonStarts
  <2>2. conn'.chan = conn.chan /\ (conn'.eof \/ up')
    BY <2>1 DEF DataInv, Connections
  <2> QED
    BY <2>2
<1>10. ASSUME NEW d \in Devices, Announce(d) PROVE Known'
  <2>1. /\ conn'.chan = Append(conn.chan, Added(d)) /\ conn'.eof = conn.eof /\ up' = up
        /\ Added(d).type # "noid" /\ Added(d) \in Messages
    BY <1>10, MessageTypes DEF Announce, DataInv, Connections, Added
  <2> QED
    BY <1>2, <2>1
<1>11. ASSUME NEW d \in Devices, Attach(d) \/ Detach(d) PROVE Known'
  <2>1. \E m \in {Added(d), Removed(d)} :
          \/ conn' \in {conn, [conn EXCEPT !.pending = @ \ {d}]}
          \/ conn' = [conn EXCEPT !.chan = Append(@, m)]
    BY <1>11 DEF Attach, Detach, Send
  <2>2. PICK m \in {Added(d), Removed(d)} :
          conn'.chan = conn.chan \/ conn'.chan = Append(conn.chan, m)
    BY <2>1 DEF DataInv, Connections
  <2>3. conn'.eof = conn.eof
    BY <2>1 DEF DataInv, Connections
  <2>4. m \in Messages /\ m.type # "noid" /\ up' = up
    BY <1>11, MessageTypes DEF Attach, Detach, Added, Removed
  <2>5. CASE conn'.chan = conn.chan
    BY <2>3, <2>4, <2>5
  <2>6. CASE conn'.chan = Append(conn.chan, m)
    BY <1>2, <2>3, <2>4, <2>6
  <2> QED
    BY <2>2, <2>5, <2>6
<1>12. ASSUME NEW k \in Disturbances, Disturb(k) PROVE Known'
  <2>1. /\ conn'.chan = Append(conn.chan, Disturbance(k)) /\ conn'.eof = conn.eof /\ up' = up
        /\ Disturbance(k).type = k /\ Disturbance(k) \in Messages
    BY <1>12, MessageTypes DEF Disturb, Send, DataInv, Connections, Disturbance
  <2> QED
    BY <1>2, <2>1
<1>13. CASE UNCHANGED vars
  BY <1>13 DEF vars
<1> QED
  BY <1>3, <1>5, <1>6, <1>7, <1>8, <1>9, <1>10, <1>11, <1>12, <1>13
  DEF Next, MonitorStep, DaemonStep

\* What is sent in turn leaves what was sent before in turn.
LEMMA SentInTurn ==
  ASSUME DataInv, NEW m \in Messages, conn'.chan = Append(conn.chan, m), UNCHANGED view,
         NEW d \in Devices,
         \A k \in 0 .. Len(conn.chan) : Balance(d, k) \in {0, 1},
         Balance(d, Len(conn.chan))' \in {0, 1}
  PROVE  \A k \in 0 .. Len(conn'.chan) : Balance(d, k)' \in {0, 1}
<1>1. Len(conn'.chan) = Len(conn.chan) + 1 /\ Len(conn.chan) \in Nat
  BY SendBalance DEF DataInv, Connections
<1>2. \A k \in 0 .. Len(conn.chan) : Balance(d, k)' = Balance(d, k)
  BY SendBalance
<1> SUFFICES ASSUME NEW k \in 0 .. Len(conn'.chan) PROVE Balance(d, k)' \in {0, 1}
  OBVIOUS
<1>3. CASE k \in 0 .. Len(conn.chan)
  BY <1>2, <1>3
<1>4. CASE k = Len(conn'.chan)
  BY <1>4
<1> QED
  BY <1>1, <1>3, <1>4

\* What is read in turn leaves what is to come in turn.
LEMMA ReadInTurn ==
  ASSUME DataInv, conn.chan # <<>>, conn'.chan = Tail(conn.chan), NEW d \in Devices,
         view'[d] = IF Head(conn.chan) = Added(d) THEN view[d] + 1
                    ELSE IF Head(conn.chan) = Removed(d) THEN view[d] - 1 ELSE view[d],
         \A k \in 0 .. Len(conn.chan) : Balance(d, k) \in {0, 1}
  PROVE  /\ \A k \in 0 .. Len(conn'.chan) : Balance(d, k)' \in {0, 1}
         /\ Balance(d, Len(conn.chan))' = Balance(d, Len(conn.chan))
<1>1. Len(conn'.chan) = Len(conn.chan) - 1 /\ Len(conn.chan) \in Nat \ {0}
  BY ReadBalance
<1>2. \A k \in 0 .. Len(conn.chan) - 1 : Balance(d, k)' = Balance(d, k + 1)
  BY ReadBalance
<1>3. \A k \in 0 .. Len(conn'.chan) : Balance(d, k)' \in {0, 1}
  BY <1>1, <1>2
<1> QED
  BY <1>1, <1>2, <1>3

LEMMA SilentStep ==
  ASSUME Alternating, Complete, Reporting, mpc \in Connected, UNCHANGED view,
         conn'.chan = conn.chan,
         \/ conn'.eof
         \/ UNCHANGED attached /\ conn'.pending = conn.pending /\ conn'.eof = conn.eof
  PROVE  Alternating' /\ Complete'
<1>1. \A d, k : Balance(d, k)' = Balance(d, k)
  BY DEF Balance
<1> QED
  BY <1>1 DEF Alternating, Complete

\* What the daemon announces, and what comes and goes.
LEMMA DaemonTells ==
  ASSUME DataInv, Known, Alternating, Complete, Reporting, mpc \in Connected, DaemonStep
  PROVE  Alternating' /\ Complete'
<1> DEFINE n == Len(conn.chan)
<1>1. /\ \A d \in Devices : \A k \in 0 .. n : Balance(d, k) \in {0, 1}
      /\ ~conn.eof => \A d \in Devices : Balance(d, n) + (IF d \in conn.pending THEN 1 ELSE 0)
                                           = (IF d \in attached THEN 1 ELSE 0)
      /\ n \in 0 .. n
  BY DEF Alternating, Complete, DataInv, Connections
<1>2. UNCHANGED view
  BY DEF DaemonStep, Announce, Attach, Detach, Disturb, DaemonDies, DaemonStarts
<1>3. ASSUME NEW m \in Messages, conn'.chan = Append(conn.chan, m),
             \A d \in Devices :
               /\ Balance(d, n)' \in {0, 1}
               /\ Balance(d, n)' + (IF d \in conn'.pending THEN 1 ELSE 0)
                    = (IF d \in attached' THEN 1 ELSE 0)
      PROVE  Alternating' /\ Complete'
  <2>1. \A d \in Devices : \A k \in 0 .. Len(conn'.chan) : Balance(d, k)' \in {0, 1}
    <3> SUFFICES ASSUME NEW d \in Devices
                 PROVE  \A k \in 0 .. Len(conn'.chan) : Balance(d, k)' \in {0, 1}
      OBVIOUS
    <3>1. /\ Balance(d, Len(conn.chan))' \in {0, 1}
          /\ \A k \in 0 .. Len(conn.chan) : Balance(d, k) \in {0, 1}
      BY <1>1, <1>3
    <3> QED
      BY <1>2, <1>3, <3>1, SentInTurn
  <2>2. Alternating'
    BY <2>1 DEF Alternating
  <2>3. Complete'
    BY <1>3 DEF Complete
  <2> QED
    BY <2>2, <2>3
<1>4. ASSUME NEW e \in Devices, Announce(e) PROVE Alternating' /\ Complete'
  <2>1. /\ conn'.chan = Append(conn.chan, Added(e)) /\ conn'.pending = conn.pending \ {e}
        /\ e \in conn.pending /\ ~conn.eof /\ UNCHANGED attached /\ Added(e) \in Messages
    BY <1>4, MessageTypes DEF Announce, Live, DataInv, Connections
  <2>2. Balance(e, n) = 0 /\ e \in attached
    BY <1>1, <2>1
  <2> SUFFICES ASSUME NEW d \in Devices
               PROVE  /\ Balance(d, n)' \in {0, 1}
                      /\ Balance(d, n)' + (IF d \in conn'.pending THEN 1 ELSE 0)
                           = (IF d \in attached' THEN 1 ELSE 0)
    BY <1>3, <2>1
  <2>3. CASE d = e
    <3>1. Balance(d, n)' = 1
      BY <1>2, <2>1, <2>2, <2>3, SendBalance
    <3> HIDE DEF n
    <3> QED
      BY <2>1, <2>2, <2>3, <3>1
  <2>4. CASE d # e
    <3>1. Added(e) # Added(d) /\ Added(e) # Removed(d)
      BY <2>4, MessagesDiffer
    <3>2. Balance(d, n)' = Balance(d, n)
      BY <1>2, <2>1, <3>1, SendBalance
    <3>3. /\ Balance(d, n) \in {0, 1}
          /\ Balance(d, n) + (IF d \in conn.pending THEN 1 ELSE 0)
               = (IF d \in attached THEN 1 ELSE 0)
      BY <1>1, <2>1
    <3> HIDE DEF n
    <3> QED
      BY <2>1, <2>4, <3>2, <3>3
  <2> QED
    BY <2>3, <2>4
<1>5. ASSUME NEW e \in Devices, Attach(e) \/ Detach(e), ~Live PROVE Alternating' /\ Complete'
  <2>1. conn.eof /\ UNCHANGED conn
    BY <1>5 DEF Attach, Detach, Live, Known
  <2> QED
    BY <1>2, <2>1, SilentStep
<1>6. ASSUME NEW e \in Devices, Attach(e), Live PROVE Alternating' /\ Complete'
  <2>1. /\ conn'.chan = Append(conn.chan, Added(e)) /\ conn'.pending = conn.pending
        /\ e \notin attached /\ ~conn.eof /\ attached' = attached \cup {e} /\ Added(e) \in Messages
    BY <1>6, MessageTypes DEF Attach, Send, Live, DataInv, Connections
  <2>2. Balance(e, n) = 0 /\ e \notin conn.pending
    BY <1>1, <2>1
  <2> SUFFICES ASSUME NEW d \in Devices
               PROVE  /\ Balance(d, n)' \in {0, 1}
                      /\ Balance(d, n)' + (IF d \in conn'.pending THEN 1 ELSE 0)
                           = (IF d \in attached' THEN 1 ELSE 0)
    BY <1>3, <2>1
  <2>3. CASE d = e
    <3>1. Balance(d, n)' = 1
      BY <1>2, <2>1, <2>2, <2>3, SendBalance
    <3> HIDE DEF n
    <3> QED
      BY <2>1, <2>2, <2>3, <3>1
  <2>4. CASE d # e
    <3>1. Added(e) # Added(d) /\ Added(e) # Removed(d)
      BY <2>4, MessagesDiffer
    <3>2. Balance(d, n)' = Balance(d, n)
      BY <1>2, <2>1, <3>1, SendBalance
    <3>3. /\ Balance(d, n) \in {0, 1}
          /\ Balance(d, n) + (IF d \in conn.pending THEN 1 ELSE 0)
               = (IF d \in attached THEN 1 ELSE 0)
      BY <1>1, <2>1
    <3> HIDE DEF n
    <3> QED
      BY <2>1, <2>4, <3>2, <3>3
  <2> QED
    BY <2>3, <2>4
<1>7. ASSUME NEW e \in Devices, Detach(e), Live, e \in conn.pending
      PROVE  Alternating' /\ Complete'
  <2>1. /\ conn'.chan = conn.chan /\ conn'.pending = conn.pending \ {e}
        /\ e \in attached /\ ~conn.eof /\ attached' = attached \ {e}
    BY <1>7 DEF Detach, Live, DataInv, Connections
  <2>2. \A d, k : Balance(d, k)' = Balance(d, k)
    BY <1>2, <2>1 DEF Balance
  <2>3. Balance(e, n) = 0
    BY <1>1, <1>7, <2>1
  <2>4. Alternating'
    BY <1>1, <2>1, <2>2 DEF Alternating
  <2>5. ASSUME NEW d \in Devices
        PROVE  Balance(d, n) + (IF d \in conn'.pending THEN 1 ELSE 0)
                 = (IF d \in attached' THEN 1 ELSE 0)
    <3>1. CASE d = e
      BY <2>1, <2>3, <3>1
    <3>2. CASE d # e
      BY <1>1, <2>1, <3>2
    <3> QED
      BY <3>1, <3>2
  <2>6. Complete'
    BY <2>1, <2>2, <2>5 DEF Complete
  <2> QED
    BY <2>4, <2>6
<1>8. ASSUME NEW e \in Devices, Detach(e), Live, e \notin conn.pending
      PROVE  Alternating' /\ Complete'
  <2>1. /\ conn'.chan = Append(conn.chan, Removed(e)) /\ conn'.pending = conn.pending
        /\ e \in attached /\ ~conn.eof /\ attached' = attached \ {e} /\ Removed(e) \in Messages
    BY <1>8, MessageTypes DEF Detach, Send, Live, DataInv, Connections
  <2>2. Balance(e, n) = 1
    BY <1>1, <1>8, <2>1
  <2> SUFFICES ASSUME NEW d \in Devices
               PROVE  /\ Balance(d, n)' \in {0, 1}
                      /\ Balance(d, n)' + (IF d \in conn'.pending THEN 1 ELSE 0)
                           = (IF d \in attached' THEN 1 ELSE 0)
    BY <1>3, <2>1
  <2>3. CASE d = e
    <3>1. Balance(d, n)' = 0
      BY <1>2, <2>1, <2>2, <2>3, SendBalance
    <3> HIDE DEF n
    <3> QED
      BY <1>8, <2>1, <2>3, <3>1
  <2>4. CASE d # e
    <3>1. Removed(e) # Added(d) /\ Removed(e) # Removed(d)
      BY <2>4, MessagesDiffer
    <3>2. Balance(d, n)' = Balance(d, n)
      BY <1>2, <2>1, <3>1, SendBalance
    <3>3. /\ Balance(d, n) \in {0, 1}
          /\ Balance(d, n) + (IF d \in conn.pending THEN 1 ELSE 0)
               = (IF d \in attached THEN 1 ELSE 0)
      BY <1>1, <2>1
    <3> HIDE DEF n
    <3> QED
      BY <2>1, <2>4, <3>2, <3>3
  <2> QED
    BY <2>3, <2>4
<1>9. ASSUME NEW k \in Disturbances, Disturb(k) PROVE Alternating' /\ Complete'
  <2>1. /\ conn'.chan = Append(conn.chan, Disturbance(k)) /\ conn'.pending = conn.pending
        /\ ~conn.eof /\ UNCHANGED attached /\ Disturbance(k) \in Messages
    BY <1>9, MessageTypes DEF Disturb, Send, Live, DataInv, Connections
  <2>2. Disturbance(k).type \notin {"add", "remove"}
    BY DisturbanceKinds DEF Disturbance
  <2> SUFFICES ASSUME NEW d \in Devices
               PROVE  /\ Balance(d, n)' \in {0, 1}
                      /\ Balance(d, n)' + (IF d \in conn'.pending THEN 1 ELSE 0)
                           = (IF d \in attached' THEN 1 ELSE 0)
    BY <1>3, <2>1
  <2>3. Balance(d, n)' = Balance(d, n)
    BY <1>2, <2>1, <2>2, MessagesDiffer, SendBalance
  <2>4. /\ Balance(d, n) \in {0, 1}
        /\ Balance(d, n) + (IF d \in conn.pending THEN 1 ELSE 0) = (IF d \in attached THEN 1 ELSE 0)
    BY <1>1, <2>1
  <2> HIDE DEF n
  <2> QED
    BY <2>1, <2>3, <2>4
<1>10. CASE DaemonDies
  <2>1. conn'.chan = conn.chan /\ conn'.eof
    BY <1>10 DEF DaemonDies, DataInv, Connections
  <2> QED
    BY <1>2, <2>1, SilentStep
<1>11. CASE DaemonStarts
  <2>1. UNCHANGED <<conn, attached>>
    BY <1>11 DEF DaemonStarts
  <2> QED
    BY <1>2, <2>1, SilentStep
<1> QED
  BY <1>4, <1>5, <1>6, <1>7, <1>8, <1>9, <1>10, <1>11 DEF DaemonStep

\* The next message about a device is the one its view waits for.
LEMMA HeadIsDue ==
  ASSUME DataInv, Alternating, Reporting, mpc = "select", conn.chan # <<>>, NEW d \in Devices
  PROVE  /\ view[d] \in {0, 1}
         /\ Head(conn.chan) = Added(d) => view[d] = 0
         /\ Head(conn.chan) = Removed(d) => view[d] = 1
<1> DEFINE s == conn.chan
<1>1. s \in Seq(Messages) /\ s # <<>> /\ view[d] \in Int
  BY DEF DataInv, Connections
<1>2. Head(s) = s[1] /\ 0 \in 0 .. Len(s) /\ 1 \in 0 .. Len(s)
  BY <1>1
<1>3. Balance(d, 0) \in {0, 1} /\ Balance(d, 1) \in {0, 1}
  BY <1>2 DEF Alternating, Connected
<1>4. \A m : Count(s, 0, m) = 0 /\ Count(s, 1, m) = IF s[1] = m THEN 1 ELSE 0
  <2> SUFFICES ASSUME NEW m
               PROVE  Count(s, 0, m) = 0 /\ Count(s, 1, m) = IF s[1] = m THEN 1 ELSE 0
    OBVIOUS
  <2>1. Count(s, 0 + 1, m) = IF s[0 + 1] = m THEN Count(s, 0, m) + 1 ELSE Count(s, 0, m)
    BY CountNext
  <2>2. Count(s, 0, m) = 0
    BY CountNone
  <2> HIDE DEF s
  <2> QED
    BY <2>1, <2>2
<1>5. /\ Balance(d, 0) = view[d] + Count(s, 0, Added(d)) - Count(s, 0, Removed(d))
      /\ Balance(d, 1) = view[d] + Count(s, 1, Added(d)) - Count(s, 1, Removed(d))
  BY DEF Balance
<1>6. Added(d) # Removed(d)
  BY MessagesDiffer
<1> HIDE DEF s
<1>7. /\ view[d] \in {0, 1}
      /\ s[1] = Added(d) => view[d] = 0
      /\ s[1] = Removed(d) => view[d] = 1
  BY <1>1, <1>3, <1>4, <1>5, <1>6
<1> QED
  BY <1>2, <1>7 DEF s

LEMMA ReadTells ==
  ASSUME DataInv, Alternating, Complete, Reporting, mpc = "select", conn.chan # <<>>,
         conn' = [conn EXCEPT !.chan = Tail(@)], UNCHANGED attached,
         \A d \in Devices :
           view'[d] = IF Head(conn.chan) = Added(d) THEN view[d] + 1
                      ELSE IF Head(conn.chan) = Removed(d) THEN view[d] - 1 ELSE view[d]
  PROVE  Alternating' /\ Complete'
<1>1. conn'.chan = Tail(conn.chan) /\ conn'.pending = conn.pending /\ conn'.eof = conn.eof
  BY DEF DataInv, Connections
<1>2. ASSUME NEW d \in Devices
      PROVE  /\ \A k \in 0 .. Len(conn'.chan) : Balance(d, k)' \in {0, 1}
             /\ Balance(d, Len(conn.chan))' = Balance(d, Len(conn.chan))
  <2>1. \A k \in 0 .. Len(conn.chan) : Balance(d, k) \in {0, 1}
    BY DEF Alternating, Connected
  <2>2. view'[d] = IF Head(conn.chan) = Added(d) THEN view[d] + 1
                   ELSE IF Head(conn.chan) = Removed(d) THEN view[d] - 1 ELSE view[d]
    OBVIOUS
  <2> QED
    BY <1>1, <2>1, <2>2, ReadInTurn
<1>3. Alternating'
  BY <1>2 DEF Alternating
<1>4. ~conn.eof => \A d \in Devices :
        Balance(d, Len(conn.chan)) + (IF d \in conn.pending THEN 1 ELSE 0)
          = (IF d \in attached THEN 1 ELSE 0)
  BY DEF Complete, Connected
<1>5. Complete'
  BY <1>1, <1>2, <1>4 DEF Complete
<1> QED
  BY <1>3, <1>5

\* What the device_monitor thread reads.
LEMMA MonitorTells ==
  ASSUME IInv, Told, Reporting, MonitorStep, mpc' \in Connected
  PROVE  Alternating' /\ Complete'
<1> USE DEF IInv, Told
<1>1. CASE ListenSucceeds
  <2>1. /\ mpc = "listen" /\ UNCHANGED <<view, attached>>
        /\ conn' = [closed |-> FALSE, eof |-> FALSE, pending |-> attached, chan |-> <<>>]
    BY <1>1 DEF ListenSucceeds
  <2>2. \A d \in Devices : view'[d] = 0
    BY <2>1 DEF Forgotten
  <2>3. Len(conn'.chan) = 0 /\ conn'.pending = attached'
    BY <2>1
  <2>4. ASSUME NEW d \in Devices PROVE Balance(d, 0)' = 0
    <3>1. /\ Count(conn'.chan, 0, Added(d)) = 0 /\ Count(conn'.chan, 0, Removed(d)) = 0
          /\ view'[d] = 0
      BY <2>2, CountNone
    <3> QED
      BY <3>1 DEF Balance
  <2>5. Alternating'
    BY <2>3, <2>4 DEF Alternating
  <2>6. ASSUME NEW d \in Devices PROVE Balance(d, Len(conn.chan))' = 0
    BY <2>3, <2>4 DEF Balance
  <2>7. Complete'
    BY <2>3, <2>6 DEF Complete
  <2> QED
    BY <2>5, <2>7
<1>2. CASE AssignListenfd \/ InnerLoop \/ EvaluateArguments \/ EnterSelect
  <2>1. UNCHANGED <<view, conn, attached>> /\ mpc \in Connected
    BY <1>2 DEF AssignListenfd, InnerLoop, EvaluateArguments, EnterSelect, Connected
  <2> QED
    BY <2>1, SilentStep
<1>3. CASE MonitorStarts \/ MonitorGoesOn \/ MonitorExits \/ ListenFails \/ ReceiveFails
           \/ FlushDevice \/ FlushDone \/ ReceiveNoId
  BY <1>3 DEF MonitorStarts, MonitorGoesOn, MonitorExits, ListenFails, ReceiveFails, FlushDevice,
              FlushDone, ReceiveNoId, Connected
<1>4. ASSUME NEW type, Receive(type)
      PROVE  /\ conn.chan # <<>> /\ Head(conn.chan) \in Messages /\ Head(conn.chan).type = type
             /\ conn' = [conn EXCEPT !.chan = Tail(@)] /\ UNCHANGED attached
  BY <1>4 DEF Receive, DataInv, Connections
<1>5. CASE ReceiveAdd
  <2> DEFINE e == Head(conn.chan).dev
  <2>1. Head(conn.chan) = Added(e) /\ e \in Devices
    BY <1>4, <1>5, TypeTells DEF ReceiveAdd
  <2>2. mpc = "select" /\ Notify(e, 1) /\ cb
    BY <1>5 DEF ReceiveAdd, Reporting, ThreadInv, Awaiting
  <2> HIDE DEF e
  <2>3. view' = [view EXCEPT ![e] = @ + 1] /\ view \in [Devices -> Int]
    BY <2>2 DEF Notify, DataInv
  <2>4. ASSUME NEW d \in Devices
        PROVE  view'[d] = IF Head(conn.chan) = Added(d) THEN view[d] + 1
                          ELSE IF Head(conn.chan) = Removed(d) THEN view[d] - 1 ELSE view[d]
    <3>1. Added(e) # Removed(d) /\ (Added(e) = Added(d) => e = d)
      BY <2>1, MessagesDiffer
    <3> QED
      BY <2>1, <2>3, <3>1
  <2>5. Receive("add")
    BY <1>5 DEF ReceiveAdd
  <2> QED
    BY <1>4, <2>2, <2>4, <2>5, ReadTells
<1>6. CASE ReceiveRemove
  <2> DEFINE e == Head(conn.chan).dev
  <2>1. Head(conn.chan) = Removed(e) /\ e \in Devices /\ conn.chan # <<>>
    BY <1>4, <1>6, TypeTells DEF ReceiveRemove
  <2>2. mpc = "select" /\ cb
    BY <1>6 DEF ReceiveRemove, Reporting, ThreadInv, Awaiting
  <2>3. view[e] = 1
    BY <2>1, <2>2, HeadIsDue
  <2>4. FirstSlot(devices, e) # {}
    <3> HIDE DEF e
    <3>1. Cardinality(SlotsOf(devices, e)) = 1
      BY <2>1, <2>3 DEF Agreement
    <3>2. SlotsOf(devices, e) # {}
      BY <3>1, FS_EmptySet
    <3> QED
      BY <3>2, StoredIsFound DEF DataInv
  <2>5. Notify(e, -1) /\ Receive("remove")
    BY <1>6, <2>4 DEF ReceiveRemove
  <2> HIDE DEF e
  <2>6. view' = [view EXCEPT ![e] = @ + (-1)] /\ view \in [Devices -> Int]
    BY <2>2, <2>5 DEF Notify, DataInv
  <2>7. ASSUME NEW d \in Devices
        PROVE  view'[d] = IF Head(conn.chan) = Added(d) THEN view[d] + 1
                          ELSE IF Head(conn.chan) = Removed(d) THEN view[d] - 1 ELSE view[d]
    <3>1. Removed(e) # Added(d) /\ (Removed(e) = Removed(d) => e = d)
      BY <2>1, MessagesDiffer
    <3> QED
      BY <2>1, <2>6, <3>1
  <2> QED
    BY <1>4, <2>2, <2>5, <2>7, ReadTells
<1>7. CASE ReceiveOther
  <2>1. Receive("other") /\ mpc = "select" /\ UNCHANGED view
    BY <1>7 DEF ReceiveOther
  <2>2. \A d \in Devices : Head(conn.chan) # Added(d) /\ Head(conn.chan) # Removed(d)
    BY <1>4, <2>1, MessagesDiffer
  <2> QED
    BY <1>4, <2>1, <2>2, ReadTells
<1> QED
  BY <1>1, <1>2, <1>3, <1>5, <1>6, <1>7 DEF MonitorStep

LEMMA ConnectedStep ==
  ASSUME IInv, Told, [Next]_vars
  PROVE  Alternating' /\ Complete'
<1> SUFFICES ASSUME Reporting', mpc' \in Connected PROVE Alternating' /\ Complete'
  BY DEF Alternating, Complete
<1> USE DEF IInv, Told
<1>1. ~Subscribe
  BY DEF Subscribe, Connected
<1>2. Reporting
  BY <1>1, ReportingStep
<1>3. CASE Unsubscribe \/ UnsubscribeStep \/ UNCHANGED vars
  <2>1. /\ UNCHANGED <<view, attached>> /\ mpc \in Connected
        /\ conn' = conn \/ conn' = [conn EXCEPT !.closed = TRUE]
    BY <1>3 DEF Unsubscribe, UnsubscribeStep, MonitorIsGone, CloseListenfd, SignalMonitor, JoinMonitor,
                vars, Connected
  <2>2. conn'.chan = conn.chan /\ conn'.eof = conn.eof /\ conn'.pending = conn.pending
    BY <2>1 DEF DataInv, Connections
  <2> QED
    BY <1>2, <2>1, <2>2, SilentStep
<1>4. CASE DaemonStep
  <2>1. mpc \in Connected
    BY <1>4 DEF DaemonStep, Announce, Attach, Detach, Disturb, DaemonDies, DaemonStarts
  <2> QED
    BY <1>2, <1>4, <2>1, DaemonTells
<1> QED
  BY <1>1, <1>2, <1>3, <1>4, MonitorTells DEF Next

\* A collection without devices is a view without any.
LEMMA EmptyView ==
  ASSUME Agreement, Reporting, \A j \in Slots(devices) : devices.list[j] = NULL, NEW d \in Devices
  PROVE  view[d] = 0
<1>1. SlotsOf(devices, d) = {}
  BY NullIsNoDevice DEF SlotsOf
<1> QED
  BY <1>1, FS_EmptySet DEF Agreement

LEMMA ForgottenStep ==
  ASSUME NamesDevices, RestTypes, IInv, Told, [Next]_vars
  PROVE  Forgotten'
<1> SUFFICES ASSUME Reporting', mpc' \in {"init", "outer", "listen"}, NEW d \in Devices
             PROVE  view'[d] = 0
  BY DEF Forgotten
<1> USE DEF IInv, Told
<1>1. CASE Subscribe
  BY <1>1 DEF Subscribe
<1>2. ~Subscribe => Reporting
  BY ReportingStep
<1>3. CASE MonitorStarts \/ MonitorGoesOn \/ ListenFails
  <2>1. Reporting /\ mpc \in {"init", "outer", "listen"} /\ UNCHANGED view
    BY <1>2, <1>3 DEF MonitorStarts, MonitorGoesOn, ListenFails, Subscribe
  <2> QED
    BY <2>1 DEF Forgotten
<1>4. CASE InnerLoop
  BY <1>4 DEF InnerLoop, Reporting, Awaiting
<1>5. CASE FlushDone
  <2>1. Reporting /\ mpc = "flush" /\ FilledFrom(devices, slot) = {} /\ UNCHANGED view
    BY <1>2, <1>5 DEF FlushDone, Subscribe
  <2>2. ASSUME NEW j \in Slots(devices) PROVE devices.list[j] = NULL
    <3>1. CASE j < slot
      BY <2>1, <3>1 DEF Flushing
    <3>2. CASE j >= slot
      BY <2>1, <3>2 DEF FilledFrom
    <3>3. j \in Int
      BY DEF Slots, DataInv, WellFormed
    <3>4. slot \in Nat
      BY DEF RestTypes
    <3> QED
      BY <3>1, <3>2, <3>3, <3>4
  <2> QED
    BY <2>1, <2>2, EmptyView
<1>6. CASE ReceiveNoId
  <2>1. conn.chan \in Seq(Messages) /\ conn.chan # <<>> /\ Head(conn.chan).type = "noid"
    BY <1>6 DEF ReceiveNoId, Receive, DataInv, Connections
  <2>2. Head(conn.chan) = conn.chan[1] /\ 1 \in 1 .. Len(conn.chan)
    BY <2>1
  <2> QED
    BY <2>1, <2>2 DEF Known, NamesDevices
<1>7. CASE MonitorExits \/ ListenSucceeds \/ AssignListenfd \/ EvaluateArguments \/ EnterSelect
           \/ ReceiveFails \/ FlushDevice
  BY <1>7 DEF MonitorExits, ListenSucceeds, AssignListenfd, EvaluateArguments, EnterSelect, ReceiveFails,
              FlushDevice
<1>8. CASE ReceiveAdd \/ ReceiveRemove \/ ReceiveOther
  BY <1>8 DEF ReceiveAdd, ReceiveRemove, ReceiveOther
<1>9. CASE Unsubscribe \/ UnsubscribeStep \/ UNCHANGED vars
  <2>1. ~Subscribe /\ mpc \in {"init", "outer", "listen"} /\ UNCHANGED view
    BY <1>9 DEF Unsubscribe, UnsubscribeStep, MonitorIsGone, CloseListenfd, SignalMonitor, JoinMonitor,
                vars, Subscribe
  <2> QED
    BY <1>2, <2>1 DEF Forgotten
<1>10. CASE DaemonStep
  <2>1. ~Subscribe /\ mpc \in {"init", "outer", "listen"} /\ UNCHANGED view
    BY <1>10 DEF DaemonStep, Announce, Attach, Detach, Disturb, DaemonDies, DaemonStarts, Subscribe
  <2> QED
    BY <1>2, <2>1 DEF Forgotten
<1> QED
  BY <1>1, <1>3, <1>4, <1>5, <1>6, <1>7, <1>8, <1>9, <1>10 DEF Next, MonitorStep

\* Whoever is flushed has been added once.
LEMMA FlushedOnce ==
  ASSUME DataInv, Agreement, Flushing, mpc = "flush", Reporting,
         NEW i \in Slots(devices), devices.list[i] # NULL
  PROVE  devices.list[i] \in Devices /\ view[devices.list[i]] = 1
<1> DEFINE e == devices.list[i]
<1>1. e \in Devices /\ i \in SlotsOf(devices, e)
  BY DEF DataInv, Devs, SlotsOf
<1> HIDE DEF e
<1>2. IsFiniteSet(SlotsOf(devices, e))
  BY SlotsFinite DEF DataInv
<1>3. Cardinality(SlotsOf(devices, e)) # 0
  BY <1>1, <1>2, FS_EmptySet
<1>4. view[e] # 0 /\ view[e] \in {0, 1}
  BY <1>1, <1>3 DEF Agreement, Flushing
<1> QED
  BY <1>1, <1>4 DEF e

LEMMA FlushingStep ==
  ASSUME RestTypes, IInv, Told, [Next]_vars
  PROVE  Flushing'
<1> SUFFICES ASSUME mpc' = "flush"
             PROVE  /\ \A j \in Slots(devices') : j < slot' => devices'.list[j] = NULL
                    /\ Reporting' => \A d \in Devices : view'[d] \in {0, 1}
  BY DEF Flushing
<1> USE DEF IInv, Told
<1>1. Reporting' => Reporting
  BY ReportingStep DEF Subscribe
<1>2. \A j \in Slots(devices) : j \in Nat
  BY DEF Slots, DataInv, WellFormed
<1>3. CASE EnterSelect \/ ReceiveFails
  <2>1. slot' = 0 /\ UNCHANGED <<devices, view>> /\ mpc \in Connected
    BY <1>3 DEF EnterSelect, ReceiveFails, ThreadInv, Connected
  <2>2. ASSUME Reporting, NEW d \in Devices PROVE view[d] \in {0, 1}
    <3>1. 0 \in 0 .. Len(conn.chan)
      BY DEF DataInv, Connections
    <3>2. Balance(d, 0) \in {0, 1} /\ Balance(d, 0) = view[d]
      BY <2>1, <2>2, <3>1, BalanceIsInt DEF Alternating, DataInv
    <3> QED
      BY <3>2
  <2> QED
    BY <1>1, <1>2, <2>1, <2>2
<1>4. CASE FlushDevice
  <2>1. PICK i \in FilledFrom(devices, slot) :
          /\ \A j \in FilledFrom(devices, slot) : i <= j
          /\ Notify(devices.list[i], -1)
          /\ devices' = CollectionRemove(devices, i)
          /\ slot' = i + 1
    BY <1>4 DEF FlushDevice
  <2>2. mpc = "flush" /\ i \in Slots(devices) /\ devices.list[i] # NULL
    BY <1>4, <2>1 DEF FlushDevice, FilledFrom
  <2>3. /\ Slots(devices') = Slots(devices)
        /\ \A j \in Slots(devices) : devices'.list[j] = IF j = i THEN NULL ELSE devices.list[j]
    BY <2>1, <2>2 DEF CollectionRemove, DataInv, WellFormed, Slots
  <2>4. ASSUME NEW j \in Slots(devices), j < slot' PROVE devices'.list[j] = NULL
    <3>1. CASE j = i
      BY <2>3, <3>1
    <3>2. CASE j < slot
      BY <2>2, <2>3, <3>2 DEF Flushing
    <3>3. CASE j >= slot /\ j # i
      <4>1. j < i
        BY <1>2, <2>1, <2>2, <2>4, <3>3
      <4>2. j \notin FilledFrom(devices, slot)
        BY <1>2, <2>1, <2>2, <4>1
      <4> QED
        BY <2>3, <3>3, <4>2 DEF FilledFrom
    <3> QED
      BY <1>2, <3>1, <3>2, <3>3 DEF RestTypes
  <2>5. ASSUME Reporting, NEW d \in Devices PROVE view'[d] \in {0, 1}
    <3>1. devices.list[i] \in Devices /\ view[devices.list[i]] = 1
      BY <2>2, <2>5, FlushedOnce
    <3>2. view' = [view EXCEPT ![devices.list[i]] = @ + (-1)] /\ view \in [Devices -> Int]
      BY <2>1, <2>2, <2>5 DEF Notify, Reporting, ThreadInv, Awaiting, DataInv
    <3>3. view[d] \in {0, 1}
      BY <2>2, <2>5 DEF Flushing
    <3> QED
      BY <3>1, <3>2, <3>3
  <2> QED
    BY <1>1, <2>3, <2>4, <2>5
<1>5. ASSUME UNCHANGED <<devices, slot, view, mpc>>
      PROVE  /\ \A j \in Slots(devices') : j < slot' => devices'.list[j] = NULL
             /\ Reporting' => \A d \in Devices : view'[d] \in {0, 1}
  BY <1>1, <1>5 DEF Flushing, Slots
<1>6. CASE MonitorStarts \/ MonitorGoesOn \/ MonitorExits \/ ListenSucceeds \/ ListenFails
           \/ AssignListenfd \/ InnerLoop \/ EvaluateArguments \/ FlushDone
  BY <1>6 DEF MonitorStarts, MonitorGoesOn, MonitorExits, ListenSucceeds, ListenFails,
              AssignListenfd, InnerLoop, EvaluateArguments, FlushDone
<1>7. CASE ReceiveAdd \/ ReceiveRemove \/ ReceiveOther \/ ReceiveNoId \/ Subscribe
  BY <1>7 DEF ReceiveAdd, ReceiveRemove, ReceiveOther, ReceiveNoId, Subscribe
<1>8. CASE Unsubscribe \/ UnsubscribeStep \/ UNCHANGED vars
  BY <1>5, <1>8 DEF Unsubscribe, UnsubscribeStep, MonitorIsGone, CloseListenfd, SignalMonitor,
                    JoinMonitor, vars
<1>9. CASE DaemonStep
  BY <1>5, <1>9 DEF DaemonStep, Announce, Attach, Detach, Disturb, DaemonDies, DaemonStarts
<1> QED
  BY <1>3, <1>4, <1>6, <1>7, <1>8, <1>9 DEF Next, MonitorStep

Full == IInv /\ RestTypes /\ Told

LEMMA InitFull == Init => Full
<1> SUFFICES ASSUME Init PROVE Full
  OBVIOUS
<1>1. IInv /\ RestTypes
  BY InitIInv DEF Init, RestTypes
<1>2. conn = NoConn /\ conn.chan = <<>> /\ conn.eof /\ mpc = "none" /\ ~event_cb
  BY DEF Init, NoConn
<1>3. Told
  BY <1>2 DEF Told, Known, Alternating, Complete, Forgotten, Flushing, Reporting, Awaiting, Connected
<1> QED
  BY <1>1, <1>3 DEF Full

LEMMA FullStep == NamesDevices /\ Full /\ [Next]_vars => Full'
<1> SUFFICES ASSUME NamesDevices, Full, [Next]_vars PROVE Full'
  OBVIOUS
<1>1. IInv /\ RestTypes /\ Told
  BY DEF Full
<1>2. IInv'
  BY <1>1, ThreadStep, DataStep, AgreementStep DEF IInv
<1>3. RestTypes'
  BY <1>1, RestTypesStep DEF IInv
<1>4. Told'
  BY <1>1, KnownStep, ConnectedStep, ForgottenStep, FlushingStep DEF Told, IInv
<1> QED
  BY <1>2, <1>3, <1>4 DEF Full

THEOREM FullInvariant == ASSUME NamesDevices PROVE Spec => []Full
BY InitFull, FullStep, PTL DEF Spec

\* When the connection to the daemon fails, get_next_event has generated a
\* REMOVE event for every device before device_monitor dials again.
THEOREM DisconnectIsTold == ASSUME NamesDevices PROVE Spec => []DisconnectForgets
<1>1. Full => DisconnectForgets
  BY DEF Full, IInv, Told, ThreadInv, Forgotten, Reporting, DisconnectForgets
<1> QED
  BY <1>1, FullInvariant, PTL

\* On a live connection the view, what is on its way and what is still to be
\* announced make up what is plugged in, for any number of devices and of
\* messages on the way.
THEOREM NoneIsLost == ASSUME NamesDevices PROVE Spec => []NothingLost
<1>1. ASSUME Full, apc = "subscribed", Live, mpc \in Connected, NEW d \in Devices
      PROVE  view[d] + Sent(Added(d)) - Sent(Removed(d)) + (IF d \in conn.pending THEN 1 ELSE 0)
               = (IF d \in attached THEN 1 ELSE 0)
  <2>1. Reporting /\ ~conn.eof
    BY <1>1 DEF Full, IInv, ThreadInv, Reporting, Live
  <2>2. Balance(d, Len(conn.chan)) + (IF d \in conn.pending THEN 1 ELSE 0)
          = (IF d \in attached THEN 1 ELSE 0)
    BY <1>1, <2>1 DEF Full, Told, Complete
  <2> QED
    BY <2>2 DEF Balance, Count, Sent
<1>2. Full => NothingLost
  BY <1>1 DEF NothingLost, Connected
<1> QED
  BY <1>2, FullInvariant, PTL

-----------------------------------------------------------------------------
(* The refinement: usbmuxd_subscribe keeps what DeviceEvents promises.      *)

\* A callback tells of a device in turn.
LEMMA CallbackInTurn ==
  ASSUME NEW d \in Devices, view \in [Devices -> Int], cb, apc # "unsubscribed", UNCHANGED apc,
         \/ Notify(d, 1) /\ view[d] = 0
         \/ Notify(d, -1) /\ view[d] = 1
  PROVE  Events!Next
<1>1. Phase # "unsubscribed" /\ UNCHANGED Phase
  BY DEF Phase
<1>2. CASE Notify(d, 1) /\ view[d] = 0
  <2>1. view' = [view EXCEPT ![d] = 1]
    BY <1>2 DEF Notify
  <2> QED
    BY <1>1, <1>2, <2>1 DEF Events!Next, Events!Add
<1>3. CASE Notify(d, -1) /\ view[d] = 1
  <2>1. view' = [view EXCEPT ![d] = 0]
    BY <1>3 DEF Notify
  <2> QED
    BY <1>1, <1>3, <2>1 DEF Events!Next, Events!Remove
<1> QED
  BY <1>2, <1>3

LEMMA StepIsEvent ==
  ASSUME Full, [Next]_vars
  PROVE  [Events!Next]_<<Phase, view>>
<1> USE DEF Full, IInv, Told
<1>1. view \in [Devices -> Int]
  BY DEF DataInv
<1>2. CASE Subscribe
  <2>1. Events!Subscribe
    BY <1>2 DEF Subscribe, Events!Subscribe, Phase
  <2> QED
    BY <2>1 DEF Events!Next
<1>3. CASE Unsubscribe
  <2>1. Events!Unsubscribe
    BY <1>3 DEF Unsubscribe, Events!Unsubscribe, Phase
  <2> QED
    BY <2>1 DEF Events!Next
<1>4. CASE MonitorIsGone \/ JoinMonitor
  <2>1. Events!UnsubscribeReturns
    BY <1>4 DEF MonitorIsGone, JoinMonitor, Events!UnsubscribeReturns, Phase
  <2> QED
    BY <2>1 DEF Events!Next
<1>5. CASE CloseListenfd \/ SignalMonitor
  BY <1>5 DEF CloseListenfd, SignalMonitor, Phase
<1>6. CASE MonitorStarts \/ MonitorGoesOn \/ MonitorExits \/ ListenSucceeds \/ ListenFails
           \/ AssignListenfd
  BY <1>6 DEF MonitorStarts, MonitorGoesOn, MonitorExits, ListenSucceeds, ListenFails, AssignListenfd,
              Phase
<1>7. CASE InnerLoop \/ EvaluateArguments \/ EnterSelect \/ ReceiveFails \/ FlushDone
  BY <1>7 DEF InnerLoop, EvaluateArguments, EnterSelect, ReceiveFails, FlushDone, Phase
<1>8. CASE FlushDevice
  <2>1. PICK i \in FilledFrom(devices, slot) : Notify(devices.list[i], -1)
    BY <1>8 DEF FlushDevice
  <2>2. mpc = "flush" /\ UNCHANGED apc /\ i \in Slots(devices) /\ devices.list[i] # NULL
    BY <1>8, <2>1 DEF FlushDevice, FilledFrom
  <2>3. CASE cb
    <3>1. devices.list[i] \in Devices /\ view[devices.list[i]] = 1
      BY <2>2, <2>3, FlushedOnce DEF Reporting, Awaiting
    <3>2. apc # "unsubscribed"
      BY <2>2 DEF ThreadInv
    <3> QED
      BY <1>1, <2>1, <2>2, <2>3, <3>1, <3>2, CallbackInTurn
  <2>4. CASE ~cb
    BY <2>1, <2>2, <2>4 DEF Notify, Phase
  <2> QED
    BY <2>3, <2>4
<1>9. ASSUME NEW type, Receive(type), mpc = "select"
      PROVE  /\ Head(conn.chan) \in Messages /\ Head(conn.chan).type = type /\ conn.chan # <<>>
             /\ UNCHANGED apc /\ apc # "unsubscribed"
  BY <1>9 DEF Receive, DataInv, Connections, ThreadInv
<1>10. CASE ReceiveAdd
  <2> DEFINE e == Head(conn.chan).dev
  <2>1. mpc = "select" /\ Receive("add") /\ Notify(e, 1)
    BY <1>10 DEF ReceiveAdd
  <2>2. Head(conn.chan) = Added(e) /\ e \in Devices
    BY <1>9, <2>1, TypeTells
  <2> HIDE DEF e
  <2>3. CASE cb
    <3>1. view[e] = 0
      BY <1>9, <2>1, <2>2, <2>3, HeadIsDue DEF Reporting, Awaiting
    <3> QED
      BY <1>1, <1>9, <2>1, <2>2, <2>3, <3>1, CallbackInTurn
  <2>4. CASE ~cb
    BY <1>9, <2>1, <2>4 DEF Notify, Phase
  <2> QED
    BY <2>3, <2>4
<1>11. CASE ReceiveRemove
  <2> DEFINE e == Head(conn.chan).dev
  <2>1. mpc = "select" /\ Receive("remove") /\ (Notify(e, -1) \/ UNCHANGED view)
    BY <1>11 DEF ReceiveRemove
  <2>2. Head(conn.chan) = Removed(e) /\ e \in Devices
    BY <1>9, <2>1, TypeTells
  <2> HIDE DEF e
  <2>3. CASE cb /\ Notify(e, -1)
    <3>1. view[e] = 1
      BY <1>9, <2>1, <2>2, <2>3, HeadIsDue DEF Reporting, Awaiting
    <3> QED
      BY <1>1, <1>9, <2>1, <2>2, <2>3, <3>1, CallbackInTurn
  <2>4. CASE ~cb \/ UNCHANGED view
    BY <1>9, <2>1, <2>4 DEF Notify, Phase
  <2> QED
    BY <2>1, <2>3, <2>4
<1>12. CASE ReceiveOther \/ ReceiveNoId
  BY <1>12 DEF ReceiveOther, ReceiveNoId, Receive, Phase
<1>13. CASE DaemonStep
  <2>1. UNCHANGED <<apc, view>>
    BY <1>13 DEF DaemonStep, Announce, Attach, Detach, Disturb, DaemonDies, DaemonStarts
  <2> QED
    BY <2>1 DEF Phase
<1>14. CASE UNCHANGED vars
  BY <1>14 DEF vars, Phase
<1> QED
  BY <1>2, <1>3, <1>4, <1>5, <1>6, <1>7, <1>8, <1>10, <1>11, <1>12, <1>13, <1>14
  DEF Next, MonitorStep, UnsubscribeStep

\* The two threads of libusbmuxd, sharing event_cb and listenfd without a lock,
\* implement the alternation of ADD and REMOVE that DeviceEvents promises: the
\* safety part of ImplementsDeviceEvents, whose fairness is left to TLC.
THEOREM EventsAlternate ==
  ASSUME NamesDevices
  PROVE  Spec => Events!Init /\ [][Events!Next]_<<Phase, view>>
<1>1. Init => Events!Init
  BY DEF Init, Events!Init, Phase
<1>2. Full /\ [Next]_vars => [Events!Next]_<<Phase, view>>
  BY StepIsEvent
<1> QED
  BY <1>1, <1>2, FullInvariant, PTL DEF Spec
=============================================================================
