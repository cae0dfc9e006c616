--------------------------- MODULE RestoreFlowProofs ---------------------------
(***************************************************************************)
(* What RestoreFlow proves, for any devices and any plugging: "DONE" means *)
(* that the restore was started, and the list the two subscriptions share  *)
(* holds a device at most once per monitor.                                *)
(***************************************************************************)
EXTENDS RestoreFlow, FiniteSetTheorems, TLAPS

\* The main thread and the first monitor: nothing is waited for before the
\* first subscription, and nothing but the first monitor says "connected".
BeforeMonitor ==
  {"check", "device", "prepare", "lockdown", "reenter", "boot", "command", "prompt", "reopen", "open",
   "exit"}
Subscribed ==
  /\ mon[1] = "none" => pc \in BeforeMonitor
  /\ mon[1] \in {"init", "listen"} => pc = "wait"
  /\ mon[1] # "reading" => mon[2] = "none" /\ ~connected
  /\ \A m \in Monitors : mon[m] # "broken"

\* listenfd is the connection of the newest monitor that listens; the first
\* monitor keeps its own until its next event.
Connections ==
  /\ listenfd = IF mon[2] = "reading" THEN 2 ELSE IF mon[1] = "reading" THEN 1 ELSE 0
  /\ fd[1] \in IF mon[1] # "reading" THEN {0} ELSE IF listenfd = 1 THEN {1} ELSE {1, 2}
  /\ fd[2] = IF mon[2] = "reading" THEN 2 ELSE 0

\* Who reads, reads a connection, and there is a newest one.
Readers ==
  \A m \in Monitors :
    /\ mon[m] \in {"reading", "broken"} <=> fd[m] \in Monitors
    /\ mon[m] \in {"reading", "broken"} => listenfd \in Monitors

\* An open USB handle is one to a device that is there.
HandleIsLive == recovery = "open" => InIBoot

\* Where the main thread is tells its mode, its caller and what it has sent.
Stage ==
  /\ pc # "check" => mode # "none"
  /\ pc \in {"open", "wait", "dial"} => site # "none"
  /\ pc \in {"check", "device"} => site = "none"
  /\ site = "reboot" => mode = "restore"
  /\ pc \in {"boot", "command", "prompt", "reopen"} => mode = "recovery"
  /\ pc \in {"check", "device", "sendreboot", "prepare"} \/ site = "reboot" => uploaded = 0
  /\ pc = "boot" => uploaded <= 4
  /\ pc = "command" => uploaded >= 1
  /\ pc \in {"prompt", "reopen"} => uploaded <= 4
  /\ pc \in {"loop", "receive"} => started

\* The events of a device on a connection that is read: an add and a remove
\* in turn, the last of them as the device is now.
Between(s, i, j, d) == \A k \in 1 .. Len(s) : i < k /\ k < j => s[k].dev # d
Alternates(s, d) ==
  \A i, j \in 1 .. Len(s) :
    i < j /\ s[i].dev = d /\ s[j].dev = d /\ Between(s, i, j, d) => s[i].type # s[j].type
EndsAs(s, d, there) ==
  \A i \in 1 .. Len(s) :
    s[i].dev = d /\ Between(s, i, Len(s) + 1, d) => (s[i].type = "add" <=> d \in there)
Faithful(s, d, there) == Alternates(s, d) /\ EndsAs(s, d, there)

\* The next event of a device, read or still to come, is an add.
NextIsAdd(s, d, there) ==
  \/ \E i \in 1 .. Len(s) : s[i].dev = d /\ s[i].type = "add" /\ Between(s, 0, i, d)
  \/ d \notin there /\ Between(s, 0, Len(s) + 1, d)

ChannelsFaithful ==
  \A d \in Devices : \A c \in Monitors : Read(c) => Faithful(chan[c], d, Visible)

\* What a connection has added to the list and not taken from it.
Share(c, d) == IF NextIsAdd(chan[c], d, Visible) THEN 0 ELSE 1

\* The list holds of a device what the connections have added: after the
\* change of listenfd the first one may have left a record behind.
RecordsOf(d) ==
  /\ mon[1] # "reading" => known[d] = 0
  /\ mon[1] = "reading" /\ mon[2] # "reading" => known[d] <= Share(1, d)
  /\ mon[2] = "reading" => known[d] <= Share(2, d) + (IF fd[1] = 1 THEN Share(1, d) ELSE 1)
RecordsAreShares == \A d \in Devices : RecordsOf(d)

\* All of that ends when a packet is torn.
Whole == Subscribed /\ Connections /\ ChannelsFaithful /\ RecordsAreShares

IInv == TypeOK /\ Readers /\ HandleIsLive /\ Stage /\ (tears = 0 => Whole)

-----------------------------------------------------------------------------
\* An event is its two fields.
LEMMA EventFields ==
  /\ Events = [type : {"add", "remove"}, dev : Devices]
  /\ \A type, d : Event(type, d).type = type /\ Event(type, d).dev = d
<1>1. ASSUME NEW type, NEW d PROVE Event(type, d).type = type /\ Event(type, d).dev = d
  BY DEF Event
<1>2. \A e \in Events : e \in [type : {"add", "remove"}, dev : Devices]
  BY DEF Events, Event
<1>3. ASSUME NEW e \in [type : {"add", "remove"}, dev : Devices] PROVE e \in Events
  <2>1. e = Event(e.type, e.dev)
    BY DEF Event
  <2> QED
    BY <2>1 DEF Events
<1> QED
  BY <1>1, <1>2, <1>3

\* No program starts with a subscription.
LEMMA InitIInv == Init => IInv
<1> SUFFICES ASSUME Init PROVE IInv
  OBVIOUS
<1>1. TypeOK
  <2>1. chan \in [Monitors -> Seq(Events)] /\ known \in [Devices -> Nat]
    BY DEF Init
  <2>2. mon \in [Monitors -> {"none", "init", "listen", "reading", "broken"}] /\ fd \in [Monitors -> {0, 1, 2}]
    BY DEF Init
  <2> QED
    <3>1. uuid \in BOOLEAN /\ pc \in PCs /\ site = "none" /\ mode = "none" /\ recovery = "null"
          /\ uploaded = 0 /\ peer = NoDevice /\ started \in BOOLEAN /\ status = "running"
      BY DEF Init, PCs
    <3>2. quit \in BOOLEAN /\ connected \in BOOLEAN /\ listenfd = 0 /\ plugged \subseteq Devices
          /\ tmode \in Modes /\ bootsInto \in Modes /\ applied = {} /\ plugs \in Nat
      BY DEF Init, Modes
    <3>3. tears = 0
      BY DEF Init
    <3>4. tears \in 0 .. MaxTears
      BY <3>3, BoundsAreNaturals
    <3> QED
      BY <2>1, <2>2, <3>1, <3>2, <3>4 DEF TypeOK
<1>2. Subscribed /\ Connections /\ HandleIsLive /\ Stage /\ Readers
  BY DEF Init, Subscribed, BeforeMonitor, Connections, HandleIsLive, Stage, Readers, Monitors
<1>3. ChannelsFaithful
  BY DEF Init, ChannelsFaithful, Read, Monitors
<1>4. RecordsAreShares
  BY DEF Init, RecordsAreShares, RecordsOf, Monitors
<1> QED
  BY <1>1, <1>2, <1>3, <1>4 DEF IInv, Whole

\* A step of the program keeps what is waited for behind the first monitor.
LEMMA StepSubscribed ==
  ASSUME TypeOK, Subscribed, Stage, tears' = 0, [Next]_vars PROVE Subscribed'
<1> DEFINE goal == Subscribed'
<1> USE DEF Subscribed, BeforeMonitor, TypeOK, Monitors, Running, Goto, Fails, Quiet, flow, events
<1>1. CASE CheckMode \/ CheckModeFails \/ CheckDevice \/ CheckDeviceFails \/ RebootRestored
        \/ PrepareFails \/ EnterRecovery \/ EnterRecoveryFails \/ Reenter
  BY <1>1 DEF CheckMode, CheckModeFails, CheckDevice, CheckDeviceFails, RebootRestored,
      PrepareFails, EnterRecovery, EnterRecoveryFails, Reenter
<1>2. CASE ReenterFails \/ SendComponent \/ SendComponentFails \/ SendCommand \/ Reopen
        \/ HitKey \/ ReopenFails \/ Subscribe \/ WaitConnected \/ WaitGivesUp
  BY <1>2 DEF ReenterFails, SendComponent, SendComponentFails, SendCommand, Reopen,
      HitKey, ReopenFails, Subscribe, WaitConnected, WaitGivesUp
<1>3. CASE OpenRestoredFails \/ StartRestore \/ StartRestoreFails \/ LoopGoesOn \/ LoopEnds
        \/ ReceiveContinues \/ ReceiveQuits \/ Boots \/ RestoreEnds
  BY <1>3 DEF OpenRestoredFails, StartRestore, StartRestoreFails, LoopGoesOn, LoopEnds,
      ReceiveContinues, ReceiveQuits, Boots, RestoreEnds
<1>4. CASE Prepare
  BY <1>4 DEF Prepare, Stage, Modes
<1>5. CASE OpenRestored
  BY <1>5 DEF OpenRestored, AfterOpen, Stage
<1>6. ASSUME NEW m \in Monitors, MonitorStarts(m) PROVE goal
  BY <1>6 DEF MonitorStarts
<1>7. ASSUME NEW m \in Monitors, MonitorListens(m) PROVE goal
  BY <1>7 DEF MonitorListens
<1>t. ASSUME NEW m \in Monitors, Tear(m) \/ Flush(m) PROVE goal
  BY <1>t DEF Tear, Flush, ListenAnew
<1>8. ASSUME NEW m \in Monitors, Deliver(m) PROVE goal
  BY <1>8 DEF Deliver, ReceiveEvent, Callback
<1>9. ASSUME NEW d \in Devices, Plug(d) PROVE goal
  BY <1>9 DEF Plug
<1>10. CASE UNCHANGED vars
  BY <1>10 DEF vars
<1> QED
  BY <1>1, <1>t, <1>2, <1>3, <1>4, <1>5, <1>6, <1>7, <1>8, <1>9, <1>10 DEF Next, MainStep, MonitorStep

\* Nor does it leave a connection without its monitor.
LEMMA StepConnections ==
  ASSUME TypeOK, Subscribed, Connections, tears' = 0, [Next]_vars PROVE Connections'
<1> DEFINE goal == Connections'
<1> USE DEF Connections, Subscribed, TypeOK, Monitors, Running, Goto, Fails, Quiet, flow, events
<1>1. CASE CheckMode \/ CheckModeFails \/ CheckDevice \/ CheckDeviceFails \/ RebootRestored
        \/ Prepare \/ PrepareFails
  BY <1>1 DEF CheckMode, CheckModeFails, CheckDevice, CheckDeviceFails, RebootRestored,
      Prepare, PrepareFails
<1>2. CASE EnterRecovery \/ EnterRecoveryFails \/ Reenter \/ ReenterFails \/ SendComponent
        \/ SendComponentFails \/ SendCommand
  BY <1>2 DEF EnterRecovery, EnterRecoveryFails, Reenter, ReenterFails, SendComponent,
      SendComponentFails, SendCommand
<1>3. CASE Reopen \/ HitKey \/ ReopenFails \/ Subscribe \/ WaitConnected \/ WaitGivesUp \/ OpenRestored
        \/ OpenRestoredFails
  BY <1>3 DEF Reopen, HitKey, ReopenFails, Subscribe, WaitConnected, WaitGivesUp, OpenRestored,
      OpenRestoredFails
<1>4. CASE StartRestore \/ StartRestoreFails \/ LoopGoesOn \/ LoopEnds \/ ReceiveContinues
        \/ ReceiveQuits \/ Boots \/ RestoreEnds
  BY <1>4 DEF StartRestore, StartRestoreFails, LoopGoesOn, LoopEnds, ReceiveContinues,
      ReceiveQuits, Boots, RestoreEnds
<1>5. ASSUME NEW m \in Monitors, MonitorStarts(m) PROVE goal
  BY <1>5 DEF MonitorStarts
<1>6. ASSUME NEW m \in Monitors, MonitorListens(m) PROVE goal
  BY <1>6 DEF MonitorListens, NewConnection, Other
<1>t. ASSUME NEW m \in Monitors, Tear(m) \/ Flush(m) PROVE goal
  BY <1>t DEF Tear, Flush, ListenAnew
<1>7. ASSUME NEW m \in Monitors, Deliver(m) PROVE goal
  BY <1>7 DEF Deliver, ReceiveEvent
<1>8. ASSUME NEW d \in Devices, Plug(d) PROVE goal
  BY <1>8 DEF Plug
<1>9. CASE UNCHANGED vars
  BY <1>9 DEF vars
<1> QED
  BY <1>1, <1>t, <1>2, <1>3, <1>4, <1>5, <1>6, <1>7, <1>8, <1>9 DEF Next, MainStep, MonitorStep

\* A handle is taken from a device that is there and is stale when it goes.
LEMMA StepHandleIsLive ==
  ASSUME TypeOK, HandleIsLive, [Next]_vars PROVE HandleIsLive'
<1> DEFINE goal == HandleIsLive'
<1> USE DEF HandleIsLive, InIBoot, Running, Goto, Fails, Quiet, flow, device
<1>1. CASE CheckMode \/ CheckModeFails \/ CheckDevice \/ CheckDeviceFails \/ RebootRestored
        \/ Prepare \/ PrepareFails
  BY <1>1 DEF CheckMode, CheckModeFails, CheckDevice, CheckDeviceFails, RebootRestored,
      Prepare, PrepareFails
<1>2. CASE EnterRecoveryFails \/ Reenter \/ ReenterFails \/ SendComponent
        \/ SendComponentFails \/ SendCommand \/ Reopen
  BY <1>2 DEF EnterRecoveryFails, Reenter, ReenterFails, SendComponent,
      SendComponentFails, SendCommand, Reopen
<1>3. CASE HitKey \/ ReopenFails \/ Subscribe \/ WaitConnected \/ WaitGivesUp \/ OpenRestored
        \/ OpenRestoredFails \/ StartRestore
  BY <1>3 DEF HitKey, ReopenFails, Subscribe, WaitConnected, WaitGivesUp, OpenRestored,
      OpenRestoredFails, StartRestore
<1>4. CASE StartRestoreFails \/ LoopGoesOn \/ LoopEnds \/ ReceiveContinues \/ ReceiveQuits
        \/ Boots \/ RestoreEnds
  BY <1>4 DEF StartRestoreFails, LoopGoesOn, LoopEnds, ReceiveContinues, ReceiveQuits,
      Boots, RestoreEnds
<1>5. CASE EnterRecovery
  BY <1>5 DEF EnterRecovery, ModeOf
<1>6. ASSUME NEW m \in Monitors, MonitorStarts(m) PROVE goal
  BY <1>6 DEF MonitorStarts
<1>7. ASSUME NEW m \in Monitors, MonitorListens(m) PROVE goal
  BY <1>7 DEF MonitorListens
<1>t. ASSUME NEW m \in Monitors, Tear(m) \/ Flush(m) PROVE goal
  BY <1>t DEF Tear, Flush, ListenAnew
<1>8. ASSUME NEW m \in Monitors, Deliver(m) PROVE goal
  BY <1>8 DEF Deliver, ReceiveEvent
<1>9. ASSUME NEW d \in Devices, Plug(d) PROVE goal
  BY <1>9 DEF Plug, Unplugged
<1>10. CASE UNCHANGED vars
  BY <1>10 DEF vars
<1> QED
  BY <1>1, <1>t, <1>2, <1>3, <1>4, <1>5, <1>6, <1>7, <1>8, <1>9, <1>10 DEF Next, MainStep, MonitorStep

\* The order in which main takes its stages.
LEMMA StepStage ==
  ASSUME TypeOK, Stage, [Next]_vars PROVE Stage'
<1> DEFINE goal == Stage'
<1> USE DEF Stage, TypeOK, Running, Goto, Fails, Quiet, flow, device
<1>1. CASE CheckModeFails \/ CheckDevice \/ CheckDeviceFails \/ RebootRestored \/ PrepareFails
        \/ EnterRecovery \/ EnterRecoveryFails \/ Reenter
  BY <1>1 DEF CheckModeFails, CheckDevice, CheckDeviceFails, RebootRestored, PrepareFails,
      EnterRecovery, EnterRecoveryFails, Reenter
<1>2. CASE ReenterFails \/ SendComponent \/ SendComponentFails \/ Reopen \/ HitKey \/ ReopenFails
        \/ Subscribe \/ WaitConnected \/ WaitGivesUp
  BY <1>2 DEF ReenterFails, SendComponent, SendComponentFails, Reopen, HitKey, ReopenFails,
      Subscribe, WaitConnected, WaitGivesUp
<1>3. CASE OpenRestoredFails \/ StartRestore \/ StartRestoreFails \/ LoopGoesOn \/ LoopEnds
        \/ ReceiveContinues \/ ReceiveQuits \/ Boots \/ RestoreEnds
  BY <1>3 DEF OpenRestoredFails, StartRestore, StartRestoreFails, LoopGoesOn, LoopEnds,
      ReceiveContinues, ReceiveQuits, Boots, RestoreEnds
<1>4. CASE CheckMode
  BY <1>4 DEF CheckMode, Candidates, Visible, ModeOf
<1>5. CASE Prepare
  BY <1>5 DEF Prepare, Modes
<1>6. CASE SendCommand
  BY <1>6 DEF SendCommand
<1>7. CASE OpenRestored
  BY <1>7 DEF OpenRestored, AfterOpen
<1>8. ASSUME NEW m \in Monitors, MonitorStarts(m) PROVE goal
  BY <1>8 DEF MonitorStarts
<1>9. ASSUME NEW m \in Monitors, MonitorListens(m) PROVE goal
  BY <1>9 DEF MonitorListens
<1>t. ASSUME NEW m \in Monitors, Tear(m) \/ Flush(m) PROVE goal
  BY <1>t DEF Tear, Flush, ListenAnew
<1>10. ASSUME NEW m \in Monitors, Deliver(m) PROVE goal
  BY <1>10 DEF Deliver, ReceiveEvent
<1>11. ASSUME NEW d \in Devices, Plug(d) PROVE goal
  BY <1>11 DEF Plug
<1>12. CASE UNCHANGED vars
  BY <1>12 DEF vars
<1> QED
  BY <1>1, <1>t, <1>2, <1>3, <1>4, <1>5, <1>6, <1>7, <1>8, <1>9, <1>10, <1>11, <1>12 DEF Next, MainStep, MonitorStep

-----------------------------------------------------------------------------
\* What has become visible or has gone is sent behind what was sent before.
LEMMA AppendEvent ==
  ASSUME NEW s \in Seq(Events), NEW e \in Events, NEW d \in Devices,
         NEW before, NEW after,
         Faithful(s, d, before),
         IF e.dev = d THEN (d \in before <=> e.type # "add") /\ (d \in after <=> e.type = "add")
                      ELSE d \in before <=> d \in after
  PROVE  /\ Faithful(Append(s, e), d, after)
         /\ NextIsAdd(Append(s, e), d, after) => NextIsAdd(s, d, before)
<1> DEFINE t == Append(s, e)
<1>1. /\ Len(s) \in Nat /\ Len(t) = Len(s) + 1 /\ t[Len(s) + 1] = e
      /\ \A i \in 1 .. Len(s) : t[i] = s[i] /\ s[i] \in Events
  <2>1. Len(s) \in Nat /\ Len(t) = Len(s) + 1 /\ t[Len(s) + 1] = e
    OBVIOUS
  <2>2. ASSUME NEW i \in 1 .. Len(s) PROVE t[i] = s[i] /\ s[i] \in Events
    OBVIOUS
  <2> QED
    BY <2>1, <2>2
<1> USE EventFields
<1> HIDE DEF t
<1>2. Alternates(t, d)
  <2> SUFFICES ASSUME NEW i \in 1 .. Len(t), NEW j \in 1 .. Len(t), i < j,
                      t[i].dev = d, t[j].dev = d, Between(t, i, j, d)
               PROVE  t[i].type # t[j].type
    BY DEF Alternates
  <2>1. CASE j <= Len(s)
    <3>1. Between(s, i, j, d)
      BY <1>1, <2>1 DEF Between
    <3> QED
      BY <1>1, <2>1, <3>1 DEF Faithful, Alternates
  <2>2. CASE j = Len(s) + 1
    <3>1. Between(s, i, Len(s) + 1, d)
      BY <1>1, <2>2 DEF Between
    <3>2. i \in 1 .. Len(s) /\ t[i] = s[i] /\ t[j] = e
      BY <1>1, <2>2
    <3>3. s[i].type = "add" <=> d \in before
      BY <3>1, <3>2 DEF Faithful, EndsAs
    <3> QED
      BY <3>2, <3>3
  <2>3. j <= Len(s) \/ j = Len(s) + 1
    BY <1>1
  <2> QED
    BY <2>1, <2>2, <2>3
<1>3. EndsAs(t, d, after)
  <2> SUFFICES ASSUME NEW i \in 1 .. Len(t), t[i].dev = d, Between(t, i, Len(t) + 1, d)
               PROVE  t[i].type = "add" <=> d \in after
    BY DEF EndsAs
  <2>1. CASE e.dev = d
    <3>1. i = Len(s) + 1
      BY <1>1, <2>1 DEF Between
    <3> QED
      BY <1>1, <2>1, <3>1
  <2>2. CASE e.dev # d
    <3>1. i <= Len(s) /\ Between(s, i, Len(s) + 1, d)
      BY <1>1, <2>2 DEF Between
    <3> QED
      BY <1>1, <2>2, <3>1 DEF Faithful, EndsAs
  <2> QED
    BY <2>1, <2>2
<1>4. ASSUME NextIsAdd(t, d, after) PROVE NextIsAdd(s, d, before)
  <2>1. ASSUME NEW i \in 1 .. Len(t), t[i].dev = d, t[i].type = "add", Between(t, 0, i, d)
        PROVE  NextIsAdd(s, d, before)
    <3>1. CASE i <= Len(s)
      <4>1. Between(s, 0, i, d)
        BY <1>1, <2>1, <3>1 DEF Between
      <4> QED
        BY <1>1, <2>1, <3>1, <4>1 DEF NextIsAdd
    <3>2. CASE i = Len(s) + 1
      <4>1. Between(s, 0, Len(s) + 1, d)
        BY <1>1, <2>1, <3>2 DEF Between
      <4> QED
        BY <1>1, <2>1, <3>2, <4>1 DEF NextIsAdd
    <3> QED
      BY <1>1, <3>1, <3>2
  <2>2. ASSUME d \notin after, Between(t, 0, Len(t) + 1, d) PROVE NextIsAdd(s, d, before)
    <3>1. e.dev # d /\ Between(s, 0, Len(s) + 1, d)
      BY <1>1, <2>2 DEF Between
    <3> QED
      BY <2>2, <3>1 DEF NextIsAdd
  <2> QED
    BY <1>4, <2>1, <2>2 DEF NextIsAdd
<1> QED
  BY <1>2, <1>3, <1>4 DEF Faithful, t

\* What is read is the oldest event; behind an add the next is none.
LEMMA TailEvent ==
  ASSUME NEW s \in Seq(Events), s # <<>>, NEW d \in Devices, NEW there,
         Faithful(s, d, there)
  PROVE  /\ Faithful(Tail(s), d, there)
         /\ Head(s).dev = d /\ Head(s).type = "add" =>
              NextIsAdd(s, d, there) /\ ~NextIsAdd(Tail(s), d, there)
         /\ Head(s).dev # d => (NextIsAdd(Tail(s), d, there) => NextIsAdd(s, d, there))
<1> DEFINE t == Tail(s)
<1>1. /\ Len(s) \in Nat /\ Len(s) >= 1 /\ Len(t) = Len(s) - 1 /\ Head(s) = s[1]
      /\ \A i \in 1 .. Len(t) : t[i] = s[i + 1]
      /\ \A i \in 1 .. Len(s) : s[i] \in Events
  <2>1. Len(s) \in Nat /\ Len(s) >= 1 /\ Len(t) = Len(s) - 1 /\ Head(s) = s[1]
    OBVIOUS
  <2>2. ASSUME NEW i \in 1 .. Len(t) PROVE t[i] = s[i + 1]
    OBVIOUS
  <2>3. ASSUME NEW i \in 1 .. Len(s) PROVE s[i] \in Events
    OBVIOUS
  <2> QED
    BY <2>1, <2>2, <2>3
<1> USE EventFields
<1> HIDE DEF t
<1>2. Alternates(t, d)
  <2> SUFFICES ASSUME NEW i \in 1 .. Len(t), NEW j \in 1 .. Len(t), i < j,
                      t[i].dev = d, t[j].dev = d, Between(t, i, j, d)
               PROVE  t[i].type # t[j].type
    BY DEF Alternates
  <2>1. Between(s, i + 1, j + 1, d)
    <3> SUFFICES ASSUME NEW k \in 1 .. Len(s), i + 1 < k, k < j + 1 PROVE s[k].dev # d
      BY DEF Between
    <3>1. k - 1 \in 1 .. Len(t) /\ t[k - 1] = s[k]
      BY <1>1
    <3> QED
      BY <1>1, <3>1 DEF Between
  <2>2. i + 1 \in 1 .. Len(s) /\ j + 1 \in 1 .. Len(s) /\ t[i] = s[i + 1] /\ t[j] = s[j + 1]
    BY <1>1
  <2> QED
    BY <2>1, <2>2 DEF Faithful, Alternates
<1>3. EndsAs(t, d, there)
  <2> SUFFICES ASSUME NEW i \in 1 .. Len(t), t[i].dev = d, Between(t, i, Len(t) + 1, d)
               PROVE  t[i].type = "add" <=> d \in there
    BY DEF EndsAs
  <2>1. Between(s, i + 1, Len(s) + 1, d)
    <3> SUFFICES ASSUME NEW k \in 1 .. Len(s), i + 1 < k PROVE s[k].dev # d
      BY DEF Between
    <3>1. k - 1 \in 1 .. Len(t) /\ t[k - 1] = s[k]
      BY <1>1
    <3> QED
      BY <1>1, <3>1 DEF Between
  <2>2. i + 1 \in 1 .. Len(s) /\ t[i] = s[i + 1]
    BY <1>1
  <2> QED
    BY <2>1, <2>2 DEF Faithful, EndsAs
<1>4. ASSUME NEW i \in 1 .. Len(t), Between(t, 0, i, d)
      PROVE  i + 1 \in 1 .. Len(s) /\ t[i] = s[i + 1] /\ Between(s, 1, i + 1, d)
  <2>1. ASSUME NEW k \in 1 .. Len(s), 1 < k, k < i + 1 PROVE s[k].dev # d
    <3>1. k - 1 \in 1 .. Len(t) /\ t[k - 1] = s[k]
      BY <1>1, <2>1
    <3> QED
      BY <1>1, <1>4, <2>1, <3>1 DEF Between
  <2> QED
    BY <1>1, <2>1 DEF Between
<1>5. ASSUME Between(t, 0, Len(t) + 1, d) PROVE Between(s, 1, Len(s) + 1, d)
  <2>1. ASSUME NEW k \in 1 .. Len(s), 1 < k PROVE s[k].dev # d
    <3>1. k - 1 \in 1 .. Len(t) /\ t[k - 1] = s[k]
      BY <1>1, <2>1
    <3> QED
      BY <1>1, <1>5, <2>1, <3>1 DEF Between
  <2> QED
    BY <2>1 DEF Between
<1>6. ASSUME Head(s).dev = d, Head(s).type = "add"
      PROVE  NextIsAdd(s, d, there) /\ ~NextIsAdd(t, d, there)
  <2>1. 1 \in 1 .. Len(s) /\ s[1].dev = d /\ s[1].type = "add" /\ Between(s, 0, 1, d)
    BY <1>1, <1>6 DEF Between
  <2>2. ASSUME NEW i \in 1 .. Len(t), t[i].dev = d, t[i].type = "add", Between(t, 0, i, d)
        PROVE  FALSE
    BY <1>1, <1>4, <2>1, <2>2 DEF Faithful, Alternates
  <2>3. ASSUME d \notin there, Between(t, 0, Len(t) + 1, d) PROVE FALSE
    BY <1>1, <1>5, <2>1, <2>3 DEF Faithful, EndsAs
  <2> QED
    BY <2>1, <2>2, <2>3 DEF NextIsAdd
<1>7. ASSUME Head(s).dev # d, NextIsAdd(t, d, there) PROVE NextIsAdd(s, d, there)
  <2>1. ASSUME NEW i \in 1 .. Len(t), t[i].dev = d, t[i].type = "add", Between(t, 0, i, d)
        PROVE  NextIsAdd(s, d, there)
    <3>1. i + 1 \in 1 .. Len(s) /\ t[i] = s[i + 1] /\ Between(s, 1, i + 1, d)
      BY <1>4, <2>1
    <3>2. Between(s, 0, i + 1, d)
      BY <1>1, <1>7, <3>1 DEF Between
    <3> QED
      BY <2>1, <3>1, <3>2 DEF NextIsAdd
  <2>2. ASSUME d \notin there, Between(t, 0, Len(t) + 1, d) PROVE NextIsAdd(s, d, there)
    <3>1. Between(s, 0, Len(s) + 1, d)
      BY <1>1, <1>5, <1>7, <2>2 DEF Between
    <3> QED
      BY <2>2, <3>1 DEF NextIsAdd
  <2> QED
    BY <1>7, <2>1, <2>2 DEF NextIsAdd
<1> QED
  BY <1>2, <1>3, <1>6, <1>7 DEF Faithful, t

-----------------------------------------------------------------------------
\* What most steps leave alone, and the steps in which a device comes or goes.
Unmoved == UNCHANGED <<mon, fd, tears, listenfd, known, chan>> /\ Visible' = Visible
Moved(x) ==
  /\ UNCHANGED <<mon, fd, tears, listenfd, known>> /\ Broadcast
  /\ \A d \in Devices \ {x} : d \in Visible' <=> d \in Visible

\* The main thread, the user and the device move one device at most; the rest
\* is the monitors'.
LEMMA StepKinds ==
  ASSUME TypeOK, HandleIsLive, [Next]_vars
  PROVE  \/ Unmoved \/ \E x \in Devices : Moved(x)
         \/ Subscribe \/ \E m \in Monitors : MonitorStep(m)
<1> DEFINE goal == \/ Unmoved \/ \E x \in Devices : Moved(x)
                   \/ Subscribe \/ \E m \in Monitors : MonitorStep(m)
<1> USE DEF Running, Goto, Fails, Quiet, flow, events, device
<1>a. Target \in Devices
  BY DEF Devices
<1>b. ASSUME UNCHANGED <<plugged, mon, fd, tears, listenfd, known>>, Broadcast PROVE goal
  <2>1. \A d \in Devices \ {Target} : d \in Visible' <=> d \in Visible
    BY <1>b DEF Visible
  <2> QED
    BY <1>a, <1>b, <2>1 DEF Moved
<1>c. ASSUME UNCHANGED <<plugged, tmode, mon, fd, tears, listenfd, known, chan>> PROVE goal
  BY <1>c DEF Visible, Unmoved
<1>1. CASE CheckMode \/ CheckModeFails \/ CheckDevice \/ CheckDeviceFails \/ Prepare
        \/ PrepareFails \/ EnterRecoveryFails
  BY <1>c, <1>1 DEF CheckMode, CheckModeFails, CheckDevice, CheckDeviceFails, Prepare,
      PrepareFails, EnterRecoveryFails
<1>2. CASE Reenter \/ ReenterFails \/ SendComponent \/ SendComponentFails \/ Reopen
        \/ HitKey \/ ReopenFails \/ WaitConnected \/ WaitGivesUp
  BY <1>c, <1>2 DEF Reenter, ReenterFails, SendComponent, SendComponentFails, Reopen,
      HitKey, ReopenFails, WaitConnected, WaitGivesUp
<1>3. CASE OpenRestored \/ OpenRestoredFails \/ StartRestore \/ StartRestoreFails
        \/ LoopGoesOn \/ LoopEnds \/ ReceiveContinues \/ ReceiveQuits
  BY <1>c, <1>3 DEF OpenRestored, OpenRestoredFails, StartRestore, StartRestoreFails,
      LoopGoesOn, LoopEnds, ReceiveContinues, ReceiveQuits
<1>4. CASE RebootRestored \/ Boots \/ RestoreEnds
  BY <1>b, <1>4 DEF RebootRestored, Boots, RestoreEnds
<1>5. CASE EnterRecovery
  <2>1. PICK d \in Candidates :
           ModeOf(d) = "normal" /\
           IF d = Target
           THEN tmode' = "off" /\ bootsInto' = "recovery" /\ UNCHANGED plugged
           ELSE plugged' = plugged \ {d} /\ UNCHANGED <<tmode, bootsInto>>
    BY <1>5 DEF EnterRecovery
  <2>2. UNCHANGED <<mon, fd, tears, listenfd, known>> /\ Broadcast
    BY <1>5 DEF EnterRecovery
  <2>3. CASE d = Target
    BY <1>b, <2>1, <2>2, <2>3
  <2>4. CASE d # Target
    <3>1. d \in Devices
      BY <2>1 DEF Candidates, Visible, TypeOK
    <3>2. \A x \in Devices \ {d} : x \in Visible' <=> x \in Visible
      BY <2>1, <2>4 DEF Visible
    <3> QED
      BY <2>2, <3>1, <3>2 DEF Moved
  <2> QED
    BY <2>3, <2>4
<1>6. CASE SendCommand
  <2>1. UNCHANGED <<plugged, mon, fd, tears, listenfd, known, chan>>
    BY <1>6 DEF SendCommand
  <2>2. CASE UNCHANGED tmode
    BY <1>c, <2>1, <2>2
  <2>3. CASE tmode' = "off" /\ recovery = "open"
    <3>1. tmode = "recovery"
      BY <2>3 DEF HandleIsLive, InIBoot
    <3>2. Visible' = Visible
      BY <2>1, <2>3, <3>1 DEF Visible
    <3> QED
      BY <2>1, <3>2 DEF Unmoved
  <2> QED
    BY <1>6, <2>2, <2>3 DEF SendCommand
<1>7. CASE Subscribe
  BY <1>7
<1>8. ASSUME NEW m \in Monitors, MonitorStarts(m) PROVE goal
  BY <1>8 DEF MonitorStep
<1>9. ASSUME NEW m \in Monitors, MonitorListens(m) PROVE goal
  BY <1>9 DEF MonitorStep
<1>10. ASSUME NEW m \in Monitors, Deliver(m) \/ Tear(m) \/ Flush(m) PROVE goal
  BY <1>10 DEF MonitorStep
<1>11. ASSUME NEW d \in Devices, Plug(d) PROVE goal
  <2>1. UNCHANGED <<mon, fd, tears, listenfd, known>> /\ Broadcast
    BY <1>11 DEF Plug
  <2>2. \A x \in Devices \ {d} : x \in Visible' <=> x \in Visible
    BY <1>11 DEF Plug, Visible
  <2> QED
    BY <1>11, <2>1, <2>2 DEF Moved
<1>12. CASE UNCHANGED vars
  BY <1>c, <1>12 DEF vars
<1> QED
  BY <1>1, <1>2, <1>3, <1>4, <1>5, <1>6, <1>7, <1>8, <1>9, <1>10, <1>11, <1>12 DEF Next, MainStep, MonitorStep

\* A connection that is read carries a change of what is visible, or nothing
\* changed; either way no share becomes smaller.
LEMMA MovedIsSent ==
  ASSUME TypeOK, TypeOK', ChannelsFaithful, NEW x \in Devices, Moved(x),
         NEW c \in Monitors, Read(c), NEW d \in Devices
  PROVE  /\ Faithful(chan[c], d, Visible)'
         /\ NextIsAdd(chan[c], d, Visible)' => NextIsAdd(chan[c], d, Visible)
<1>1. Faithful(chan[c], d, Visible)
  BY DEF ChannelsFaithful
<1>2. CASE Changes = {} /\ UNCHANGED chan
  <2>1. d \in Visible' <=> d \in Visible
    BY <1>2, EventFields DEF Changes
  <2> QED
    BY <1>1, <1>2, <2>1 DEF Faithful, Alternates, EndsAs, NextIsAdd
<1>3. ASSUME NEW e \in Changes, chan'[c] = Append(chan[c], e)
      PROVE  /\ Faithful(chan[c], d, Visible)'
             /\ NextIsAdd(chan[c], d, Visible)' => NextIsAdd(chan[c], d, Visible)
  <2>1. /\ e.type \in {"add", "remove"}
        /\ e.type = "add" => e.dev \in Visible' /\ e.dev \notin Visible
        /\ e.type = "remove" => e.dev \in Visible /\ e.dev \notin Visible'
        /\ e = Event(e.type, e.dev)
    BY EventFields DEF Changes
  <2>2. Visible \subseteq Devices /\ Visible' \subseteq Devices
    BY DEF Visible, TypeOK
  <2>3. e.dev = x /\ e \in Events
    <3>1. e.dev \in Devices
      BY <2>1, <2>2
    <3>2. e.dev = x
      BY <2>1, <3>1 DEF Moved
    <3> QED
      BY <2>1, <3>1, <3>2 DEF Events
  <2>4. chan[c] \in Seq(Events)
    BY DEF TypeOK
  <2>5. IF e.dev = d THEN (d \in Visible <=> e.type # "add") /\ (d \in Visible' <=> e.type = "add")
                     ELSE d \in Visible <=> d \in Visible'
    BY <2>1, <2>3 DEF Moved
  <2> QED
    BY <1>1, <1>3, <2>3, <2>4, <2>5, AppendEvent
<1> QED
  <2>1. chan \in [Monitors -> Seq(Events)]
    BY DEF TypeOK
  <2>2. \A e \in Changes : chan' = [k \in Monitors |-> IF Read(k) THEN Append(chan[k], e) ELSE chan[k]]
          => chan'[c] = Append(chan[c], e)
    OBVIOUS
  <2> QED
    BY <1>2, <1>3, <2>2 DEF Moved, Broadcast

\* What usbmuxd announces on a new connection is what it lists, each once.
LEMMA AnnouncedOnce ==
  ASSUME TypeOK, NEW m \in Monitors, MonitorListens(m), NEW d \in Devices,
         NEW c \in Monitors, c = NewConnection(m)
  PROVE  /\ chan'[c] \in Seq(Events) /\ Faithful(chan'[c], d, Visible)
         /\ \A k \in Monitors \ {c} :
              chan'[k] \in Seq(Events) /\ (fd[Other(m)] = k => chan'[k] = chan[k])
         /\ chan' \in [Monitors -> Seq(Events)]
<1>1. PICK s \in Orders(Visible) :
        chan' = [k \in Monitors |->
                  IF k = c THEN [i \in DOMAIN s |-> Event("add", s[i])]
                  ELSE IF fd[Other(m)] = k THEN chan[k] ELSE <<>>]
  BY DEF MonitorListens
<1>2. Visible \subseteq Devices /\ IsFiniteSet(Devices)
  BY OthersAreFinite, FS_AddElement DEF Visible, TypeOK, Devices
<1>3. Cardinality(Visible) \in Nat
  BY <1>2, FS_Subset, FS_CardinalityType
<1> DEFINE n == Cardinality(Visible)
           t == [i \in 1 .. n |-> Event("add", s[i])]
<1>4. /\ s \in [1 .. n -> Visible]
      /\ \A i, j \in 1 .. n : s[i] = s[j] => i = j
  BY DEF Orders
<1>5. chan'[c] = t
  BY <1>1, <1>4
<1> HIDE DEF n
<1>6. \A i \in 1 .. n : t[i] = Event("add", s[i]) /\ s[i] \in Visible
  BY <1>4
<1>7. \A i \in 1 .. n : t[i] \in Events /\ t[i].type = "add" /\ t[i].dev = s[i]
  BY <1>2, <1>6, EventFields DEF Events
<1>8. t \in Seq(Events) /\ Len(t) = n
  <2>1. t \in [1 .. n -> Events] /\ n \in Nat
    BY <1>3, <1>7 DEF n
  <2> QED
    BY <2>1
<1> HIDE DEF t
<1>9. Faithful(t, d, Visible)
  <2>1. Alternates(t, d)
    BY <1>4, <1>7, <1>8 DEF Alternates
  <2>2. EndsAs(t, d, Visible)
    BY <1>4, <1>6, <1>7, <1>8 DEF EndsAs
  <2> QED
    BY <2>1, <2>2 DEF Faithful
<1>10. \A k \in Monitors : chan[k] \in Seq(Events) /\ <<>> \in Seq(Events)
  BY DEF TypeOK
<1>11. \A k \in Monitors \ {c} :
         chan'[k] \in Seq(Events) /\ (fd[Other(m)] = k => chan'[k] = chan[k])
  BY <1>1, <1>10
<1>12. chan' \in [Monitors -> Seq(Events)]
  BY <1>1, <1>5, <1>8, <1>11
<1> QED
  BY <1>5, <1>8, <1>9, <1>11, <1>12

\* An event is taken from a connection, whichever that is.
LEMMA ReceiveTypes ==
  ASSUME TypeOK, Readers, NEW m \in Monitors, ReceiveEvent(m)
  PROVE  /\ fd[m] \in Monitors /\ chan[fd[m]] \in Seq(Events) /\ Head(chan[fd[m]]) \in Events
         /\ fd' \in [Monitors -> {0, 1, 2}] /\ chan' \in [Monitors -> Seq(Events)]
<1>1. mon[m] = "reading" /\ chan[fd[m]] # <<>> /\ fd' = [fd EXCEPT ![m] = listenfd]
      /\ chan' = [c \in Monitors |->
                    IF c # fd[m] THEN chan[c]
                    ELSE IF \E n \in Monitors : fd'[n] = c THEN Tail(chan[c]) ELSE <<>>]
  BY DEF ReceiveEvent
<1>2. fd[m] \in Monitors /\ chan[fd[m]] \in Seq(Events)
  BY <1>1 DEF Readers, TypeOK
<1>3. Head(chan[fd[m]]) \in Events /\ Tail(chan[fd[m]]) \in Seq(Events) /\ <<>> \in Seq(Events)
  BY <1>1, <1>2
<1>4. chan' \in [Monitors -> Seq(Events)]
  BY <1>1, <1>3 DEF TypeOK
<1> QED
  BY <1>1, <1>2, <1>3, <1>4 DEF TypeOK

\* Before a packet is torn a monitor listens once.
LEMMA FirstListens ==
  ASSUME TypeOK, Subscribed, Connections, NEW m \in Monitors, MonitorListens(m)
  PROVE  NewConnection(m) = m /\ listenfd' = m /\ fd' = [fd EXCEPT ![m] = m]
<1>1. fd[Other(m)] # m
  BY DEF MonitorListens, Subscribed, Connections, TypeOK, Monitors, Other
<1> QED
  BY <1>1 DEF MonitorListens, NewConnection

\* What an event does: it is taken from the connection read, which is given up
\* when the monitor goes over to a newer one.
LEMMA ReceiveShape ==
  ASSUME TypeOK, Subscribed, Connections, NEW m \in Monitors, ReceiveEvent(m)
  PROVE  /\ UNCHANGED <<mon, listenfd>> /\ Visible' = Visible
         /\ mon[1] = "reading" /\ fd[m] \in Monitors /\ Read(fd[m])
         /\ chan[fd[m]] # <<>> /\ chan[fd[m]] \in Seq(Events)
         /\ Head(chan[fd[m]]) \in Events
         /\ \/ /\ fd' = fd /\ fd[m] = listenfd
               /\ chan' = [chan EXCEPT ![fd[m]] = Tail(@)]
            \/ /\ m = 1 /\ fd[1] = 1 /\ mon[2] = "reading" /\ fd'[1] = 2 /\ fd'[2] = 2
               /\ chan' = [chan EXCEPT ![1] = <<>>]
<1> USE DEF Monitors
<1>1. /\ UNCHANGED <<mon, listenfd, plugged, tmode>> /\ mon[m] = "reading" /\ chan[fd[m]] # <<>>
      /\ fd' = [fd EXCEPT ![m] = listenfd]
      /\ chan' = [c \in Monitors |->
                    IF c # fd[m] THEN chan[c]
                    ELSE IF \E n \in Monitors : fd'[n] = c THEN Tail(chan[c]) ELSE <<>>]
  BY DEF ReceiveEvent, device
<1>2. Visible' = Visible
  BY <1>1 DEF Visible
<1>3. mon[1] = "reading" /\ fd[m] \in Monitors /\ Read(fd[m])
  BY <1>1 DEF Subscribed, Connections, Read, TypeOK
<1>4. chan[fd[m]] \in Seq(Events) /\ Head(chan[fd[m]]) \in Events
  <2>1. chan[fd[m]] \in Seq(Events)
    BY <1>3 DEF TypeOK
  <2> QED
    BY <1>1, <2>1
<1>5. CASE fd[m] = listenfd
  <2>1. fd' = fd
    BY <1>1, <1>5 DEF TypeOK
  <2>2. fd'[m] = fd[m]
    BY <2>1
  <2>3. chan' = [chan EXCEPT ![fd[m]] = Tail(@)]
    BY <1>1, <1>3, <2>2 DEF TypeOK
  <2> QED
    BY <1>1, <1>2, <1>3, <1>4, <1>5, <2>1, <2>3
<1>6. CASE fd[m] # listenfd
  <2>1. m = 1 /\ fd[1] = 1 /\ listenfd = 2 /\ mon[2] = "reading" /\ fd[2] = 2
    BY <1>1, <1>3, <1>6 DEF Connections, TypeOK
  <2>2. fd'[1] = 2 /\ fd'[2] = 2
    BY <1>1, <2>1 DEF TypeOK
  <2>3. chan' = [chan EXCEPT ![1] = <<>>]
    <3>1. ~\E n \in Monitors : fd'[n] = 1
      BY <2>2
    <3>2. chan' = [c \in Monitors |-> IF c # 1 THEN chan[c] ELSE <<>>]
      BY <1>1, <2>1, <3>1
    <3> QED
      BY <3>2 DEF TypeOK
  <2> QED
    BY <1>1, <1>2, <1>3, <1>4, <2>1, <2>2, <2>3
<1> QED
  BY <1>5, <1>6

-----------------------------------------------------------------------------
\* The events of a change are events, on every connection.
LEMMA BroadcastTypes ==
  ASSUME chan \in [Monitors -> Seq(Events)], Visible \subseteq Devices, Visible' \subseteq Devices,
         Broadcast
  PROVE  chan' \in [Monitors -> Seq(Events)]
<1>1. CASE UNCHANGED chan
  BY <1>1
<1>2. ASSUME NEW e \in Changes,
             chan' = [c \in Monitors |-> IF Read(c) THEN Append(chan[c], e) ELSE chan[c]]
      PROVE  chan' \in [Monitors -> Seq(Events)]
  <2>1. e \in Events
    BY DEF Changes, Events
  <2> QED
    BY <1>2, <2>1
<1> QED
  BY <1>1, <1>2 DEF Broadcast

\* The main thread's variables keep their types.
FlowTypes ==
  /\ uuid \in BOOLEAN
  /\ pc \in PCs /\ site \in {"none", "reboot", "enter", "restore"}
  /\ mode \in Modes \cup {"none"}
  /\ recovery \in {"null", "open", "stale"} /\ uploaded \in 0 .. 5
  /\ peer \in Devices \cup {NoDevice}
  /\ started \in BOOLEAN /\ status \in {"running", "done", "error", "crashed"}
LEMMA StepFlowTypes ==
  ASSUME TypeOK, Stage, [Next]_vars PROVE FlowTypes'
<1> DEFINE goal == FlowTypes'
<1>a. FlowTypes
  BY DEF TypeOK, FlowTypes
<1>b. Visible \subseteq Devices /\ Candidates \subseteq Devices
  BY DEF TypeOK, Visible, Candidates
<1> USE DEF FlowTypes, Running, Goto, Fails, Quiet, flow, PCs, Modes
<1>1. CASE CheckModeFails \/ CheckDevice \/ CheckDeviceFails \/ RebootRestored \/ PrepareFails
        \/ EnterRecovery \/ EnterRecoveryFails \/ ReenterFails
  BY <1>a, <1>1 DEF CheckModeFails, CheckDevice, CheckDeviceFails, RebootRestored,
      PrepareFails, EnterRecovery, EnterRecoveryFails, ReenterFails
<1>2. CASE SendComponentFails \/ SendCommand \/ Reopen \/ HitKey \/ ReopenFails \/ Subscribe
        \/ WaitConnected \/ WaitGivesUp \/ OpenRestoredFails
  BY <1>a, <1>2 DEF SendComponentFails, SendCommand, Reopen, HitKey, ReopenFails, Subscribe,
      WaitConnected, WaitGivesUp, OpenRestoredFails
<1>3. CASE StartRestore \/ StartRestoreFails \/ LoopGoesOn \/ LoopEnds \/ ReceiveContinues
        \/ ReceiveQuits \/ Boots \/ RestoreEnds
  BY <1>a, <1>3 DEF StartRestore, StartRestoreFails, LoopGoesOn, LoopEnds,
      ReceiveContinues, ReceiveQuits, Boots, RestoreEnds
<1>4. CASE CheckMode
  BY <1>a, <1>4 DEF CheckMode, Candidates, Visible, ModeOf
<1>5. CASE Prepare
  BY <1>a, <1>5 DEF Prepare, Stage
<1>6. CASE Reenter
  BY <1>a, <1>6 DEF Reenter, NormalEnterRecoveryReturns
<1>7. CASE SendComponent
  BY <1>a, <1>7 DEF SendComponent, Stage
<1>8. CASE OpenRestored
  BY <1>a, <1>b, <1>8 DEF OpenRestored, AfterOpen, Stage
<1>9. ASSUME NEW m \in Monitors, MonitorStarts(m) PROVE goal
  BY <1>a, <1>9 DEF MonitorStarts
<1>10. ASSUME NEW m \in Monitors, MonitorListens(m) PROVE goal
  BY <1>a, <1>10 DEF MonitorListens
<1>t. ASSUME NEW m \in Monitors, Tear(m) \/ Flush(m) PROVE goal
  BY <1>a, <1>t DEF Tear, Flush, ListenAnew
<1>11. ASSUME NEW m \in Monitors, Deliver(m) PROVE goal
  BY <1>a, <1>11 DEF Deliver, ReceiveEvent
<1>12. ASSUME NEW d \in Devices, Plug(d) PROVE goal
  BY <1>a, <1>12 DEF Plug, Unplugged
<1>13. CASE UNCHANGED vars
  BY <1>a, <1>13 DEF vars
<1> QED
  BY <1>1, <1>t, <1>2, <1>3, <1>4, <1>5, <1>6, <1>7, <1>8, <1>9, <1>10, <1>11, <1>12, <1>13 DEF Next, MainStep, MonitorStep

EventTypes ==
  /\ quit \in BOOLEAN /\ connected \in BOOLEAN
  /\ mon \in [Monitors -> {"none", "init", "listen", "reading", "broken"}]
  /\ fd \in [Monitors -> {0, 1, 2}] /\ tears \in 0 .. MaxTears /\ listenfd \in {0, 1, 2}
  /\ known \in [Devices -> Nat]
DeviceTypes ==
  /\ plugged \subseteq Devices /\ tmode \in Modes \cup {"off"}
  /\ bootsInto \in Modes /\ plugs \in Nat
  /\ applied \subseteq {Components[i] : i \in 1 .. 5}
LEMMA StepDeviceTypes ==
  ASSUME TypeOK, Stage, [Next]_vars PROVE DeviceTypes'
<1> DEFINE goal == DeviceTypes'
<1>a. DeviceTypes
  BY DEF TypeOK, DeviceTypes
<1> USE DEF DeviceTypes, Running, Goto, Fails, Quiet, device, Modes
<1>1. CASE CheckMode \/ CheckModeFails \/ CheckDevice \/ CheckDeviceFails \/ RebootRestored
        \/ Prepare \/ PrepareFails
  BY <1>a, <1>1 DEF CheckMode, CheckModeFails, CheckDevice, CheckDeviceFails,
      RebootRestored, Prepare, PrepareFails
<1>2. CASE EnterRecovery \/ EnterRecoveryFails \/ Reenter \/ ReenterFails \/ SendComponent
        \/ SendComponentFails \/ Reopen
  BY <1>a, <1>2 DEF EnterRecovery, EnterRecoveryFails, Reenter, ReenterFails,
      SendComponent, SendComponentFails, Reopen
<1>3. CASE HitKey \/ ReopenFails \/ Subscribe \/ WaitConnected \/ WaitGivesUp \/ OpenRestored
        \/ OpenRestoredFails \/ StartRestore
  BY <1>a, <1>3 DEF HitKey, ReopenFails, Subscribe, WaitConnected, WaitGivesUp, OpenRestored,
      OpenRestoredFails, StartRestore
<1>4. CASE StartRestoreFails \/ LoopGoesOn \/ LoopEnds \/ ReceiveContinues \/ ReceiveQuits
        \/ Boots \/ RestoreEnds
  BY <1>a, <1>4 DEF StartRestoreFails, LoopGoesOn, LoopEnds, ReceiveContinues,
      ReceiveQuits, Boots, RestoreEnds
<1>5. CASE SendCommand
  <2>1. uploaded \in 1 .. 5
    BY <1>5 DEF TypeOK, Stage, SendCommand
  <2>2. applied' \subseteq applied \cup {Components[uploaded]} /\ UNCHANGED <<plugged, plugs>>
    BY <1>5 DEF SendCommand
  <2>3. tmode' \in Modes \cup {"off"} /\ bootsInto' \in Modes
    BY <1>a, <1>5 DEF SendCommand
  <2> QED
    BY <1>a, <2>1, <2>2, <2>3
<1>6. ASSUME NEW m \in Monitors, MonitorStarts(m) PROVE goal
  BY <1>a, <1>6 DEF MonitorStarts
<1>7. ASSUME NEW m \in Monitors, MonitorListens(m) PROVE goal
  BY <1>a, <1>7 DEF MonitorListens
<1>t. ASSUME NEW m \in Monitors, Tear(m) \/ Flush(m) PROVE goal
  BY <1>a, <1>t DEF Tear, Flush, ListenAnew
<1>8. ASSUME NEW m \in Monitors, Deliver(m) PROVE goal
  BY <1>a, <1>8 DEF Deliver, ReceiveEvent
<1>9. ASSUME NEW d \in Devices, Plug(d) PROVE goal
  BY <1>a, BoundsAreNaturals, <1>9 DEF Plug
<1>10. CASE UNCHANGED vars
  BY <1>a, <1>10 DEF vars
<1> QED
  BY <1>1, <1>t, <1>2, <1>3, <1>4, <1>5, <1>6, <1>7, <1>8, <1>9, <1>10 DEF Next, MainStep, MonitorStep

\* So do the monitors'.
LEMMA StepEventTypes ==
  ASSUME TypeOK, Readers, [Next]_vars PROVE EventTypes'
<1> DEFINE goal == EventTypes'
<1>a. EventTypes
  BY DEF TypeOK, EventTypes
<1> USE DEF EventTypes, Running, Goto, Fails, Quiet, events
<1>1. CASE CheckMode \/ CheckModeFails \/ CheckDevice \/ CheckDeviceFails \/ RebootRestored
        \/ Prepare \/ PrepareFails
  BY <1>a, <1>1 DEF CheckMode, CheckModeFails, CheckDevice, CheckDeviceFails,
      RebootRestored, Prepare, PrepareFails
<1>2. CASE EnterRecovery \/ EnterRecoveryFails \/ Reenter \/ ReenterFails \/ SendComponent
        \/ SendComponentFails \/ SendCommand
  BY <1>a, <1>2 DEF EnterRecovery, EnterRecoveryFails, Reenter, ReenterFails,
      SendComponent, SendComponentFails, SendCommand
<1>3. CASE Reopen \/ HitKey \/ ReopenFails \/ Subscribe \/ WaitConnected \/ WaitGivesUp \/ OpenRestored
        \/ OpenRestoredFails
  BY <1>a, <1>3 DEF Reopen, HitKey, ReopenFails, Subscribe, WaitConnected, WaitGivesUp,
      OpenRestored, OpenRestoredFails
<1>4. CASE StartRestore \/ StartRestoreFails \/ LoopGoesOn \/ LoopEnds \/ ReceiveContinues
        \/ ReceiveQuits \/ Boots \/ RestoreEnds
  BY <1>a, <1>4 DEF StartRestore, StartRestoreFails, LoopGoesOn, LoopEnds,
      ReceiveContinues, ReceiveQuits, Boots, RestoreEnds
<1>5. ASSUME NEW m \in Monitors, MonitorStarts(m) PROVE goal
  BY <1>a, <1>5 DEF MonitorStarts
<1>6. ASSUME NEW m \in Monitors, MonitorListens(m) PROVE goal
  BY <1>a, <1>6 DEF MonitorListens, NewConnection, Other, Monitors
<1>t. ASSUME NEW m \in Monitors, Tear(m) \/ Flush(m) PROVE goal
  <2>1. CASE Tear(m)
    <3>1. UNCHANGED <<quit, connected, listenfd, known>>
          /\ tears' = tears + 1 /\ tears < MaxTears
      BY <2>1 DEF Tear
    <3>2. tears' \in 0 .. MaxTears
      BY <1>a, <3>1, BoundsAreNaturals
    <3>3. mon' \in [Monitors -> {"none", "init", "listen", "reading", "broken"}]
      BY <1>a, <2>1 DEF Tear
    <3>4. fd' \in [Monitors -> {0, 1, 2}]
      BY <1>a, <2>1 DEF Tear
    <3> QED
      BY <1>a, <3>1, <3>2, <3>3, <3>4
  <2>2. CASE Flush(m)
    <3>1. UNCHANGED <<tears, listenfd>>
      BY <2>2 DEF Flush, ListenAnew
    <3>2. known' \in [Devices -> Nat]
      BY <2>2 DEF Flush, ListenAnew
    <3>3. quit' \in BOOLEAN /\ connected' \in BOOLEAN
      BY <1>a, <2>2 DEF Flush, Callback
    <3>4. mon' \in [Monitors -> {"none", "init", "listen", "reading", "broken"}]
          /\ fd' \in [Monitors -> {0, 1, 2}]
      BY <1>a, <2>2 DEF Flush, ListenAnew
    <3> QED
      BY <1>a, <3>1, <3>2, <3>3, <3>4
  <2> QED
    BY <1>t, <2>1, <2>2
<1>7. ASSUME NEW m \in Monitors, Deliver(m) PROVE goal
  <2> DEFINE e == Head(chan[fd[m]])
  <2>1. ReceiveEvent(m) /\ UNCHANGED <<mon, tears, listenfd>> /\ fd' \in [Monitors -> {0, 1, 2}]
    BY <1>a, <1>7 DEF Deliver, ReceiveEvent
  <2>2. e \in Events
    BY <2>1, ReceiveTypes
  <2>3. e.type \in {"add", "remove"} /\ e.dev \in Devices
    BY <2>2, EventFields
  <2>4. \/ UNCHANGED <<known, connected, quit>>
        \/ /\ e.type = "remove" => known[e.dev] # 0
           /\ known' = [known EXCEPT ![e.dev] = @ + (IF e.type = "add" THEN 1 ELSE -1)]
           /\ Callback(e.type)
    BY <1>7 DEF Deliver
  <2>5. quit' \in BOOLEAN /\ connected' \in BOOLEAN
    BY <1>a, <2>4 DEF Callback
  <2> HIDE DEF e
  <2>6. known' \in [Devices -> Nat]
    BY <1>a, <2>3, <2>4
  <2> QED
    BY <1>a, <2>1, <2>5, <2>6
<1>8. ASSUME NEW d \in Devices, Plug(d) PROVE goal
  BY <1>a, <1>8 DEF Plug
<1>9. CASE UNCHANGED vars
  BY <1>a, <1>9 DEF vars
<1> QED
  BY <1>1, <1>t, <1>2, <1>3, <1>4, <1>5, <1>6, <1>7, <1>8, <1>9 DEF Next, MainStep, MonitorStep

\* The types are kept.
LEMMA StepTypeOK ==
  ASSUME TypeOK, Readers, Stage, HandleIsLive, [Next]_vars PROVE TypeOK'
<1>1. FlowTypes' /\ DeviceTypes' /\ EventTypes'
  BY StepFlowTypes, StepDeviceTypes, StepEventTypes
<1>2. chan \in [Monitors -> Seq(Events)] /\ Visible \subseteq Devices /\ Visible' \subseteq Devices
  BY <1>1 DEF TypeOK, Visible, DeviceTypes
<1>3. chan' \in [Monitors -> Seq(Events)]
  <2>1. CASE Unmoved \/ Subscribe
    BY <1>2, <2>1 DEF Unmoved, Subscribe
  <2>2. ASSUME NEW x \in Devices, Moved(x) PROVE chan' \in [Monitors -> Seq(Events)]
    BY <1>2, <2>2, BroadcastTypes DEF Moved
  <2>3. ASSUME NEW m \in Monitors, MonitorStarts(m) PROVE chan' \in [Monitors -> Seq(Events)]
    BY <1>2, <2>3 DEF MonitorStarts
  <2>4. ASSUME NEW m \in Monitors, MonitorListens(m) PROVE chan' \in [Monitors -> Seq(Events)]
    <3>1. NewConnection(m) \in Monitors
      BY DEF NewConnection, Other, Monitors
    <3>2. Target \in Devices
      BY DEF Devices
    <3> QED
      BY <2>4, <3>1, <3>2, AnnouncedOnce
  <2>5. ASSUME NEW m \in Monitors, Deliver(m) PROVE chan' \in [Monitors -> Seq(Events)]
    BY <2>5, ReceiveTypes DEF Deliver
  <2>6. ASSUME NEW m \in Monitors, Tear(m) PROVE chan' \in [Monitors -> Seq(Events)]
    <3>1. /\ fd[m] \in Monitors /\ chan[fd[m]] # <<>>
          /\ chan' = [chan EXCEPT ![fd[m]] = Tail(@)]
      BY <2>6 DEF Tear, Readers
    <3>2. Tail(chan[fd[m]]) \in Seq(Events)
      BY <1>2, <3>1
    <3> QED
      BY <1>2, <3>1, <3>2
  <2>7. ASSUME NEW m \in Monitors, Flush(m) PROVE chan' \in [Monitors -> Seq(Events)]
    BY <1>2, <2>7 DEF Flush, ListenAnew
  <2> QED
    BY StepKinds, <2>1, <2>2, <2>3, <2>4, <2>5, <2>6, <2>7 DEF MonitorStep
<1> QED
  BY <1>1, <1>3 DEF TypeOK, FlowTypes, DeviceTypes, EventTypes

\* A monitor reads what it was given last.
LEMMA StepReaders ==
  ASSUME TypeOK, Readers, HandleIsLive, [Next]_vars PROVE Readers'
<1> DEFINE goal == Readers'
<1> USE DEF Readers, TypeOK, Monitors
<1>1. CASE Unmoved
  BY <1>1 DEF Unmoved
<1>2. ASSUME NEW x \in Devices, Moved(x) PROVE goal
  BY <1>2 DEF Moved
<1>3. CASE Subscribe
  BY <1>3 DEF Subscribe
<1>4. ASSUME NEW m \in Monitors, MonitorStarts(m) PROVE goal
  BY <1>4 DEF MonitorStarts
<1>5. ASSUME NEW m \in Monitors, MonitorListens(m) PROVE goal
  BY <1>5 DEF MonitorListens, NewConnection, Other
<1>6. ASSUME NEW m \in Monitors, Deliver(m) PROVE goal
  BY <1>6 DEF Deliver, ReceiveEvent
<1>7. ASSUME NEW m \in Monitors, Tear(m) PROVE goal
  BY <1>7 DEF Tear, Other
<1>8. ASSUME NEW m \in Monitors, Flush(m) PROVE goal
  BY <1>8 DEF Flush, ListenAnew
<1> QED
  BY StepKinds, <1>1, <1>2, <1>3, <1>4, <1>5, <1>6, <1>7, <1>8 DEF MonitorStep

\* The counter of torn packets only grows.
LEMMA TearsGrow ==
  ASSUME TypeOK, HandleIsLive, [Next]_vars, tears' = 0 PROVE tears = 0
<1> USE DEF TypeOK
<1>1. CASE Unmoved \/ \E x \in Devices : Moved(x)
  BY <1>1 DEF Unmoved, Moved
<1>2. CASE Subscribe
  BY <1>2 DEF Subscribe
<1>3. ASSUME NEW m \in Monitors, MonitorStarts(m) \/ MonitorListens(m) \/ Deliver(m) PROVE tears = 0
  BY <1>3 DEF MonitorStarts, MonitorListens, Deliver, ReceiveEvent
<1>4. ASSUME NEW m \in Monitors, Tear(m) \/ Flush(m) PROVE tears = 0
  BY <1>4 DEF Tear, Flush, ListenAnew
<1> QED
  BY StepKinds, <1>1, <1>2, <1>3, <1>4 DEF MonitorStep
-----------------------------------------------------------------------------
\* What a connection brings stays as usbmuxd sees the devices.
LEMMA StepChannelsFaithful ==
  ASSUME TypeOK, TypeOK', Subscribed, Connections, HandleIsLive, ChannelsFaithful, tears' = 0,
         [Next]_vars
  PROVE  ChannelsFaithful'
<1> SUFFICES ASSUME NEW d \in Devices, NEW c \in Monitors, Read(c)'
             PROVE  Faithful(chan[c], d, Visible)'
  BY DEF ChannelsFaithful
<1>1. Read(c) => Faithful(chan[c], d, Visible)
  BY DEF ChannelsFaithful
<1>2. CASE Unmoved
  BY <1>1, <1>2 DEF Unmoved, Read
<1>3. ASSUME NEW x \in Devices, Moved(x) PROVE Faithful(chan[c], d, Visible)'
  <2>1. Read(c)
    BY <1>3 DEF Moved, Read
  <2> QED
    BY <1>3, <2>1, MovedIsSent
<1>4. CASE Subscribe
  <2>1. UNCHANGED <<fd, listenfd, chan, plugged, tmode>>
        /\ (mon'[c] = "reading" => mon[c] = "reading")
    BY <1>4 DEF Subscribe, device, TypeOK
  <2> QED
    BY <1>1, <2>1 DEF Read, Visible
<1>5. ASSUME NEW m \in Monitors, MonitorStarts(m) PROVE Faithful(chan[c], d, Visible)'
  <2>1. UNCHANGED <<fd, listenfd, chan, plugged, tmode>>
        /\ (mon'[c] = "reading" => mon[c] = "reading")
    BY <1>5 DEF MonitorStarts, device, TypeOK
  <2> QED
    BY <1>1, <2>1 DEF Read, Visible
<1>6. ASSUME NEW m \in Monitors, MonitorListens(m) PROVE Faithful(chan[c], d, Visible)'
  <2>1. Visible' = Visible
    BY <1>6 DEF MonitorListens, device, Visible
  <2>2. NewConnection(m) = m /\ listenfd' = m /\ fd' = [fd EXCEPT ![m] = m]
    BY <1>6, FirstListens
  <2>3. CASE c = m
    BY <1>6, <2>1, <2>2, <2>3, AnnouncedOnce
  <2>4. CASE c # m
    <3>1. fd[Other(m)] = c
      BY <2>2, <2>4 DEF Read, TypeOK, Monitors, Other
    <3>2. chan'[c] = chan[c] /\ Read(c)
      BY <1>6, <2>2, <2>4, <3>1, AnnouncedOnce DEF Read, Monitors, Other
    <3> QED
      BY <1>1, <2>1, <3>2
  <2> QED
    BY <2>3, <2>4
<1>7. ASSUME NEW m \in Monitors, Deliver(m) PROVE Faithful(chan[c], d, Visible)'
  <2>1. ReceiveEvent(m)
    BY <1>7 DEF Deliver
  <2>2. UNCHANGED <<mon, listenfd>> /\ Visible' = Visible /\ fd[m] \in Monitors /\ Read(fd[m])
        /\ chan[fd[m]] # <<>> /\ chan[fd[m]] \in Seq(Events)
    BY <2>1, ReceiveShape
  <2>3. CASE fd' = fd /\ chan' = [chan EXCEPT ![fd[m]] = Tail(@)]
    <3>1. Read(c)
      BY <2>2, <2>3 DEF Read
    <3>2. CASE c = fd[m]
      <4>1. chan'[c] = Tail(chan[c])
        BY <2>2, <2>3, <3>2 DEF TypeOK
      <4> QED
        BY <1>1, <2>2, <3>1, <3>2, <4>1, TailEvent
    <3>3. CASE c # fd[m]
      BY <1>1, <2>2, <2>3, <3>1, <3>3 DEF TypeOK
    <3> QED
      BY <3>2, <3>3
  <2>4. CASE /\ m = 1 /\ fd[1] = 1 /\ mon[2] = "reading" /\ fd'[1] = 2 /\ fd'[2] = 2
             /\ chan' = [chan EXCEPT ![1] = <<>>]
    <3>1. listenfd' = 2
      BY <2>2, <2>4 DEF Connections
    <3>2. c = 2
      BY <2>4, <3>1 DEF Read, Monitors
    <3>3. Read(c) /\ chan'[c] = chan[c]
      BY <2>2, <2>4, <3>1, <3>2 DEF Read, TypeOK, Monitors
    <3> QED
      BY <1>1, <2>2, <3>3
  <2> QED
    BY <2>1, <2>3, <2>4, ReceiveShape
<1>8. ASSUME NEW m \in Monitors, Tear(m) \/ Flush(m) PROVE FALSE
  BY <1>8 DEF Tear, Flush, ListenAnew, TypeOK, Subscribed
<1> QED
  BY StepKinds, <1>2, <1>3, <1>4, <1>5, <1>6, <1>7, <1>8 DEF MonitorStep

\* get_next_event, for a device: an add is counted, a remove is taken back if
\* there is something to take back.
LEMMA Counted ==
  ASSUME TypeOK, Subscribed, Connections, NEW m \in Monitors, Deliver(m), NEW d \in Devices
  PROVE  LET e == Head(chan[fd[m]])
         IN  /\ e \in Events /\ known'[d] \in Nat
             /\ e.dev # d => known'[d] = known[d]
             /\ e.dev = d /\ e.type = "add" => known'[d] = known[d] + 1
             /\ e.dev = d /\ e.type = "remove" =>
                  IF known[d] = 0 THEN known'[d] = 0 ELSE known'[d] = known[d] - 1
<1> DEFINE e == Head(chan[fd[m]])
<1>1. e \in Events
  BY ReceiveShape DEF Deliver
<1>2. e.type \in {"add", "remove"} /\ e.dev \in Devices
  BY <1>1, EventFields
<1>3. known \in [Devices -> Nat]
  BY DEF TypeOK
<1>4. IF e.type = "remove" /\ known[e.dev] = 0
      THEN known' = known
      ELSE known' = [known EXCEPT ![e.dev] = @ + (IF e.type = "add" THEN 1 ELSE -1)]
  BY DEF Deliver
<1> HIDE DEF e
<1>5. e.dev # d => known'[d] = known[d]
  BY <1>2, <1>3, <1>4
<1>6. e.dev = d /\ e.type = "add" => known'[d] = known[d] + 1
  BY <1>3, <1>4
<1>7. e.dev = d /\ e.type = "remove" =>
        IF known[d] = 0 THEN known'[d] = 0 ELSE known'[d] = known[d] - 1
  BY <1>3, <1>4
<1>8. known'[d] \in Nat
  BY <1>2, <1>3, <1>5, <1>6, <1>7
<1>9. /\ e \in Events /\ known'[d] \in Nat
      /\ e.dev # d => known'[d] = known[d]
      /\ e.dev = d /\ e.type = "add" => known'[d] = known[d] + 1
      /\ e.dev = d /\ e.type = "remove" =>
           IF known[d] = 0 THEN known'[d] = 0 ELSE known'[d] = known[d] - 1
  BY <1>1, <1>5, <1>6, <1>7, <1>8
<1> QED
  BY <1>9 DEF e

\* A step that changes no record and makes no share smaller.
LEMMA SharesGrow ==
  ASSUME TypeOK, Subscribed, Connections, NEW d \in Devices, RecordsOf(d),
         UNCHANGED <<fd, listenfd, known>>,
         \A c \in Monitors : mon'[c] = "reading" <=> mon[c] = "reading",
         \A c \in Monitors : Read(c) => (NextIsAdd(chan[c], d, Visible)' => NextIsAdd(chan[c], d, Visible))
  PROVE  RecordsOf(d)'
<1> USE DEF Monitors
<1>1. known[d] \in Nat
  BY DEF TypeOK
<1>2. \A c \in Monitors : Read(c) => Share(c, d) <= Share(c, d)'
  BY DEF Share
<1>3. Share(1, d) \in {0, 1} /\ Share(2, d) \in {0, 1} /\ Share(1, d)' \in {0, 1} /\ Share(2, d)' \in {0, 1}
  BY DEF Share
<1>4. CASE mon[1] # "reading"
  BY <1>4 DEF RecordsOf, Subscribed
<1>5. CASE mon[1] = "reading" /\ mon[2] # "reading"
  <2>1. Read(1)
    BY <1>5 DEF Read, Connections
  <2> QED
    BY <1>1, <1>2, <1>3, <1>5, <2>1 DEF RecordsOf
<1>6. CASE mon[2] = "reading"
  <2>1. mon[1] = "reading" /\ Read(2)
    BY <1>6 DEF Read, Connections, Subscribed
  <2>2. fd[1] = 1 => Read(1)
    BY <2>1 DEF Read
  <2>3. fd'[1] = fd[1] /\ known'[d] = known[d]
    OBVIOUS
  <2> QED
    BY <1>1, <1>2, <1>3, <1>6, <2>1, <2>2, <2>3 DEF RecordsOf
<1> QED
  BY <1>4, <1>5, <1>6

\* The records stay within the shares.
LEMMA StepRecordsAreShares ==
  ASSUME TypeOK, TypeOK', Subscribed, Connections, HandleIsLive, ChannelsFaithful,
         RecordsAreShares, tears' = 0, [Next]_vars
  PROVE  RecordsAreShares'
<1> SUFFICES ASSUME NEW d \in Devices PROVE RecordsOf(d)'
  BY DEF RecordsAreShares
<1> USE DEF Monitors
<1>1. RecordsOf(d) /\ known[d] \in Nat
  BY DEF RecordsAreShares, TypeOK
<1>s. Share(1, d) \in {0, 1} /\ Share(2, d) \in {0, 1} /\ Share(1, d)' \in {0, 1} /\ Share(2, d)' \in {0, 1}
  BY DEF Share
<1>2. CASE Unmoved
  BY <1>1, <1>2, SharesGrow DEF Unmoved
<1>3. ASSUME NEW x \in Devices, Moved(x) PROVE RecordsOf(d)'
  <2>1. \A c \in Monitors : Read(c) => (NextIsAdd(chan[c], d, Visible)' => NextIsAdd(chan[c], d, Visible))
    BY <1>3, MovedIsSent
  <2> QED
    BY <1>1, <1>3, <2>1, SharesGrow DEF Moved
<1>4. CASE Subscribe
  <2>1. /\ UNCHANGED <<fd, listenfd, known, chan>> /\ Visible' = Visible
        /\ \A c \in Monitors : mon'[c] = "reading" <=> mon[c] = "reading"
    BY <1>4 DEF Subscribe, device, TypeOK, Visible
  <2> QED
    BY <1>1, <2>1, SharesGrow
<1>5. ASSUME NEW m \in Monitors, MonitorStarts(m) PROVE RecordsOf(d)'
  <2>1. known'[d] = 0
    BY <1>5 DEF MonitorStarts
  <2> QED
    BY <1>s, <2>1 DEF RecordsOf
<1>6. ASSUME NEW m \in Monitors, MonitorListens(m) PROVE RecordsOf(d)'
  <2>m. NewConnection(m) = m /\ fd' = [fd EXCEPT ![m] = m]
    BY <1>6, FirstListens
  <2>1. /\ Visible' = Visible /\ known'[d] = known[d] /\ mon[m] = "listen"
        /\ mon' = [mon EXCEPT ![m] = "reading"]
        /\ \A c \in Monitors \ {m} : fd[Other(m)] = c => chan'[c] = chan[c]
    BY <1>6, <2>m, AnnouncedOnce DEF MonitorListens, device, Visible
  <2>2. CASE m = 1
    <3>1. known'[d] = 0 /\ mon'[2] # "reading"
      BY <1>1, <2>1, <2>2 DEF RecordsOf, Subscribed, TypeOK
    <3> QED
      BY <1>s, <3>1 DEF RecordsOf
  <2>3. CASE m = 2
    <3>1. mon[1] = "reading" /\ mon'[1] = "reading" /\ mon'[2] = "reading" /\ fd[1] = 1
      BY <2>1, <2>3 DEF Subscribed, Connections, TypeOK
    <3>m. chan'[1] = chan[1]
      BY <2>1, <2>3, <3>1 DEF Other
    <3>2. Share(1, d)' = Share(1, d)
      BY <2>1, <3>m DEF Share
    <3>3. known[d] <= Share(1, d)
      BY <1>1, <2>1, <2>3, <3>1 DEF RecordsOf
    <3> QED
      BY <1>1, <1>s, <2>1, <2>m, <3>1, <3>2, <3>3 DEF RecordsOf
  <2> QED
    BY <2>2, <2>3
<1>7. ASSUME NEW m \in Monitors, Deliver(m) PROVE RecordsOf(d)'
  <2>1. ReceiveEvent(m)
    BY <1>7 DEF Deliver
  <2>c. PICK c \in Monitors : c = fd[m]
    BY <2>1, ReceiveShape
  <2> DEFINE e == Head(chan[c])
  <2>2. UNCHANGED <<mon, listenfd>> /\ Visible' = Visible /\ mon[1] = "reading"
        /\ Read(c) /\ chan[c] # <<>> /\ chan[c] \in Seq(Events)
    BY <2>1, <2>c, ReceiveShape
  <2>3. /\ e \in Events /\ known'[d] \in Nat
        /\ e.dev # d => known'[d] = known[d]
        /\ e.dev = d /\ e.type = "add" => known'[d] = known[d] + 1
        /\ e.dev = d /\ e.type = "remove" =>
             IF known[d] = 0 THEN known'[d] = 0 ELSE known'[d] = known[d] - 1
    BY <1>7, <2>c, Counted
  <2>4. Faithful(chan[c], d, Visible)
    BY <2>2 DEF ChannelsFaithful
  <2>5. e.type \in {"add", "remove"}
    BY <2>3, EventFields
  <2>6. e.dev = d /\ e.type = "add" => Share(c, d) = 0
    BY <2>2, <2>4, TailEvent DEF Share
  <2>7. CASE fd' = fd /\ fd[m] = listenfd /\ chan' = [chan EXCEPT ![fd[m]] = Tail(@)]
    <3>1. chan'[c] = Tail(chan[c]) /\ \A n \in Monitors \ {c} : chan'[n] = chan[n]
      BY <2>2, <2>7, <2>c DEF TypeOK
    <3>2. \A n \in Monitors \ {c} : Share(n, d)' = Share(n, d)
      BY <2>2, <3>1 DEF Share
    <3>3. e.dev = d /\ e.type = "add" => Share(c, d)' = 1
      BY <2>2, <2>4, <3>1, TailEvent DEF Share
    <3>4. e.dev # d => Share(c, d) <= Share(c, d)'
      BY <2>2, <2>4, <3>1, TailEvent DEF Share
    <3> HIDE DEF e
    <3>5. CASE mon[2] # "reading"
      <4>1. c = 1
        BY <2>2, <2>7, <2>c, <3>5 DEF Connections
      <4>2. known[d] <= Share(1, d)
        BY <1>1, <2>2, <3>5 DEF RecordsOf
      <4>3. known'[d] <= Share(1, d)'
        BY <1>1, <1>s, <2>3, <2>5, <2>6, <3>3, <3>4, <4>1, <4>2
      <4> QED
        BY <2>2, <3>5, <4>3 DEF RecordsOf
    <3>6. CASE mon[2] = "reading"
      <4>1. c = 2
        BY <2>2, <2>7, <2>c, <3>6 DEF Connections
      <4> DEFINE first == IF fd[1] = 1 THEN Share(1, d) ELSE 1
      <4>2. known[d] <= Share(2, d) + first
        BY <1>1, <3>6 DEF RecordsOf
      <4>3. first \in {0, 1} /\ first' = first
        BY <1>s, <2>7, <3>2, <4>1
      <4> HIDE DEF first
      <4>4. known'[d] <= Share(2, d)' + first'
        BY <1>1, <1>s, <2>3, <2>5, <2>6, <3>3, <3>4, <4>1, <4>2, <4>3
      <4> QED
        BY <2>2, <3>6, <4>4 DEF RecordsOf, first
    <3> QED
      BY <3>5, <3>6
  <2>8. CASE /\ m = 1 /\ fd[1] = 1 /\ mon[2] = "reading" /\ fd'[1] = 2 /\ fd'[2] = 2
             /\ chan' = [chan EXCEPT ![1] = <<>>]
    <3>1. chan'[2] = chan[2]
      BY <2>8 DEF TypeOK
    <3>2. Share(2, d)' = Share(2, d)
      BY <2>2, <3>1 DEF Share
    <3>3. known[d] <= Share(2, d) + Share(1, d)
      BY <1>1, <2>8 DEF RecordsOf
    <3>4. c = 1
      BY <2>8, <2>c
    <3> HIDE DEF e
    <3>5. known'[d] <= Share(2, d)' + 1
      BY <1>1, <1>s, <2>3, <2>5, <2>6, <3>2, <3>3, <3>4
    <3> QED
      BY <2>2, <2>8, <3>5 DEF RecordsOf
  <2> QED
    BY <2>1, <2>7, <2>8, ReceiveShape
<1>8. ASSUME NEW m \in Monitors, Tear(m) \/ Flush(m) PROVE FALSE
  BY <1>8 DEF Tear, Flush, ListenAnew, TypeOK, Subscribed
<1> QED
  BY StepKinds, <1>2, <1>3, <1>4, <1>5, <1>6, <1>7, <1>8 DEF MonitorStep

-----------------------------------------------------------------------------
\* The invariant is inductive.
LEMMA StepIInv == ASSUME IInv, [Next]_vars PROVE IInv'
<1>1. TypeOK /\ Readers /\ HandleIsLive /\ Stage
  BY DEF IInv
<1>2. TypeOK' /\ Readers' /\ HandleIsLive' /\ Stage'
  BY <1>1, StepTypeOK, StepReaders, StepHandleIsLive, StepStage
<1>3. ASSUME tears' = 0 PROVE Whole'
  <2>1. Whole
    BY <1>1, <1>3, TearsGrow DEF IInv
  <2> QED
    BY <1>1, <1>2, <1>3, <2>1, StepSubscribed, StepConnections, StepChannelsFaithful,
       StepRecordsAreShares DEF Whole
<1> QED
  BY <1>2, <1>3 DEF IInv

\* It holds throughout.
LEMMA Invariance == Spec => []IInv
<1>1. IInv /\ [Next]_vars => IInv'
  BY StepIInv
<1> QED
  BY InitIInv, <1>1, PTL DEF Spec

\* Every variable of the flow keeps its type: five components are sent and no
\* sixth, no list index is out of its range, no count of records is negative.
THEOREM TypeCorrect == Spec => []TypeOK
<1>1. IInv => TypeOK
  BY DEF IInv
<1> QED
  BY <1>1, Invariance, PTL

\* main prints DONE only when restore_device has sent StartRestore, in
\* whatever mode the device was found and whatever the monitors saw.
THEOREM DoneIsStarted == Spec => []DoneMeansStarted
<1>1. Init => DoneMeansStarted
  BY DEF Init, DoneMeansStarted
<1>2. ASSUME IInv, DoneMeansStarted, [Next]_vars PROVE DoneMeansStarted'
  <2> DEFINE goal == DoneMeansStarted'
  <2> USE DEF DoneMeansStarted, Running, Goto, Fails, Quiet, flow
  <2>1. CASE CheckMode \/ CheckModeFails \/ CheckDevice \/ CheckDeviceFails \/ RebootRestored
          \/ Prepare \/ PrepareFails \/ EnterRecovery \/ EnterRecoveryFails
    BY <1>2, <2>1 DEF CheckMode, CheckModeFails, CheckDevice, CheckDeviceFails,
        RebootRestored, Prepare, PrepareFails, EnterRecovery, EnterRecoveryFails
  <2>2. CASE ReenterFails \/ SendComponent \/ SendComponentFails \/ SendCommand \/ Reopen
          \/ HitKey \/ ReopenFails \/ Subscribe \/ WaitConnected \/ WaitGivesUp
    BY <1>2, <2>2 DEF ReenterFails, SendComponent, SendComponentFails, SendCommand, Reopen,
        HitKey, ReopenFails, Subscribe, WaitConnected, WaitGivesUp
  <2>3. CASE OpenRestored \/ OpenRestoredFails \/ StartRestore \/ StartRestoreFails
          \/ LoopGoesOn \/ ReceiveContinues \/ ReceiveQuits \/ Boots \/ RestoreEnds
    BY <1>2, <2>3 DEF OpenRestored, OpenRestoredFails, StartRestore, StartRestoreFails,
        LoopGoesOn, ReceiveContinues, ReceiveQuits, Boots, RestoreEnds
  <2>4. CASE Reenter
    BY <1>2, <2>4 DEF Reenter, NormalEnterRecoveryReturns
  <2>5. CASE LoopEnds
    BY <1>2, <2>5 DEF LoopEnds, IInv, Stage
  <2>6. ASSUME NEW m \in Monitors, MonitorStarts(m) PROVE goal
    BY <1>2, <2>6 DEF MonitorStarts
  <2>7. ASSUME NEW m \in Monitors, MonitorListens(m) PROVE goal
    BY <1>2, <2>7 DEF MonitorListens
  <2>t. ASSUME NEW m \in Monitors, Tear(m) \/ Flush(m) PROVE goal
    BY <1>2, <2>t DEF Tear, Flush, ListenAnew
  <2>8. ASSUME NEW m \in Monitors, Deliver(m) PROVE goal
    BY <1>2, <2>8 DEF Deliver, ReceiveEvent
  <2>9. ASSUME NEW d \in Devices, Plug(d) PROVE goal
    BY <1>2, <2>9 DEF Plug
  <2>10. CASE UNCHANGED vars
    BY <1>2, <2>10 DEF vars
  <2> QED
    BY <1>2, <2>t, <2>1, <2>2, <2>3, <2>4, <2>5, <2>6, <2>7, <2>8, <2>9, <2>10 DEF Next, MainStep, MonitorStep
<1> QED
  BY <1>1, <1>2, Invariance, PTL DEF Spec

\* However the two subscriptions of restore_open_with_timeout meet in the
\* static list of libusbmuxd.c, a device has at most one record per monitor, as
\* long as they have torn no packet of the connection they both read.
THEOREM RecordsBounded == Spec => []OneRecordPerMonitor
<1>1. ASSUME IInv PROVE OneRecordPerMonitor
  <2> DEFINE S == {m \in Monitors : mon[m] \in {"listen", "reading"}}
  <2> SUFFICES ASSUME tears = 0, NEW d \in Devices PROVE known[d] <= Cardinality(S)
    BY DEF OneRecordPerMonitor
  <2>1. RecordsOf(d) /\ known[d] \in Nat
    BY <1>1 DEF IInv, Whole, RecordsAreShares, TypeOK
  <2>2. Share(1, d) \in {0, 1} /\ Share(2, d) \in {0, 1}
    BY DEF Share
  <2>3. S \subseteq {1, 2}
    BY DEF Monitors
  <2>4. IsFiniteSet(S) /\ Cardinality(S) \in Nat
    <3>1. IsFiniteSet({1} \cup {2}) /\ S \in SUBSET ({1} \cup {2})
      BY <2>3, FS_Singleton, FS_AddElement
    <3> HIDE DEF S
    <3> QED
      BY <3>1, FS_Subset, FS_CardinalityType
  <2>5. CASE mon[1] # "reading"
    BY <2>1, <2>4, <2>5 DEF RecordsOf
  <2>6. CASE mon[1] = "reading" /\ mon[2] # "reading"
    <3>1. known[d] <= 1 /\ 1 \in S
      BY <2>1, <2>2, <2>6 DEF RecordsOf, Monitors
    <3>2. Cardinality(S) # 0
      BY <2>4, <3>1, FS_EmptySet
    <3> QED
      BY <2>1, <2>4, <3>1, <3>2
  <2>7. CASE mon[2] = "reading"
    <3>1. mon[1] = "reading"
      BY <1>1, <2>7 DEF IInv, Whole, Subscribed
    <3>2. known[d] <= 2 /\ S = {1} \cup {2}
      BY <2>1, <2>2, <2>7, <3>1 DEF RecordsOf, Monitors
    <3>3. Cardinality(S) = 2
      <4>1. IsFiniteSet({1}) /\ Cardinality({1}) = 1
        BY FS_Singleton, Zenon
      <4>2. Cardinality({1} \cup {2}) = 1 + 1
        <5>1. 2 \notin {1}
          OBVIOUS
        <5> QED
          BY <4>1, <5>1, FS_AddElement
      <4> QED
        BY <3>2, <4>2
    <3> QED
      BY <3>2, <3>3
  <2> QED
    BY <2>5, <2>6, <2>7
<1> QED
  BY <1>1, Invariance, PTL
=============================================================================
