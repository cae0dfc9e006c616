---------------------------- MODULE RestoreFlow ----------------------------
(***************************************************************************)
(* idevicerestore, from the mode check to "DONE": the main thread takes    *)
(* the device from the mode it is in through recovery to restore mode and  *)
(* serves restored, while device_monitor threads run its event callback,   *)
(* which alone can end the restore loop.  restore_open_with_timeout        *)
(* subscribes on every call, so up to two monitors run: they share         *)
(* listenfd and the collection, and read one connection, a packet of which *)
(* may go to them in parts (DeviceMonitor has one monitor in detail).      *)
(*                                                                         *)
(* The device, the user's cable and usbmuxd are outside src/.  Only the    *)
(* target is ever in recovery mode; usbmuxd stays up.                      *)
(***************************************************************************)
EXTENDS Integers, Sequences, FiniteSets

CONSTANTS
  Target,     \* the device to restore
  Others,     \* other devices that may be attached, in normal mode
  MaxPlugs,   \* bound: plugging and unplugging by the user, a torn packet
              \* counting for two
  MaxTears    \* bound: packets that go to two monitors in parts

ASSUME TargetIsNotOther == Target \notin Others
ASSUME OthersAreFinite == IsFiniteSet(Others)
ASSUME BoundsAreNaturals == MaxPlugs \in Nat /\ MaxTears \in Nat

Devices  == Others \cup {Target}
Monitors == {1, 2}
NoDevice == "none"
ASSUME NoDeviceIsNone == NoDevice \notin Devices

VARIABLES
  uuid,       \* was -u given
  pc,         \* the main thread
  site,       \* who called restore_open_with_timeout
  mode,       \* client->mode
  recovery,   \* client->recovery: "null", or its USB handle "open" or "stale"
  uploaded,   \* number of boot components sent
  peer,       \* client->restore->device
  started,    \* history: has StartRestore been sent
  status,     \* "running", or how the process ended
  quit,       \* FLAG_QUIT
  connected,  \* restore_device_connected
  mon,        \* the monitor thread of each subscription
  fd,         \* the connection each is reading, 0 for none
  tears,      \* counter of MaxTears
  listenfd,   \* static int listenfd: the newest connection, 0 before the first
  known,      \* static struct collection devices: records of each device
  chan,       \* usbmuxd's connections: events not yet read
  plugged,    \* devices on a cable
  tmode,      \* the mode the target is in, "off" while it reboots
  bootsInto,  \* the mode it comes up in
  applied,    \* components iBoot has been told to use
  plugs       \* counter of MaxPlugs

flow    == <<pc, site, mode, recovery, uploaded, peer, started, status>>
events  == <<quit, connected, mon, fd, tears, listenfd, known>>
device  == <<plugged, tmode, bootsInto, applied, plugs>>
vars == <<uuid, pc, site, mode, recovery, uploaded, peer, started,
          status, quit, connected, mon, fd, tears, listenfd, known, chan, plugged, tmode,
          bootsInto, applied, plugs>>

\* What usbmuxd lists, and the mode a device it lists is in.
Visible   == {d \in plugged : d = Target => tmode \in {"normal", "restore"}}
ModeOf(d) == IF d = Target THEN tmode ELSE "normal"

\* idevice_new finds the device of the -u option, or takes the first listed.
Candidates == IF uuid THEN Visible \cap {Target} ELSE Visible

InIBoot == Target \in plugged /\ tmode = "recovery"

Init ==
  /\ uuid \in BOOLEAN
  /\ pc = "check" /\ site = "none" /\ mode = "none" /\ recovery = "null" /\ uploaded = 0
  /\ peer = NoDevice /\ started = FALSE /\ status = "running"
  /\ quit = FALSE /\ connected = FALSE
  /\ mon = [m \in Monitors |-> "none"] /\ fd = [m \in Monitors |-> 0]
  /\ tears = 0 /\ listenfd = 0
  /\ known = [d \in Devices |-> 0]
  /\ chan = [m \in Monitors |-> <<>>]
  /\ plugged \in SUBSET Devices
  /\ tmode \in {"normal", "recovery", "restore"}
  /\ bootsInto = "normal" /\ applied = {} /\ plugs = 0

-----------------------------------------------------------------------------
(* usbmuxd: a change of what is visible goes out on every connection that  *)
(* is still read.                                                          *)

Event(type, d) == [type |-> type, dev |-> d]

Read(c) == listenfd = c \/ \E m \in Monitors : fd[m] = c

\* One device at most appears or disappears in a step.
Changes == {Event("remove", d) : d \in Visible \ Visible'}
           \cup {Event("add", d) : d \in Visible' \ Visible}

Broadcast ==
  \/ Changes = {} /\ UNCHANGED chan
  \/ \E e \in Changes :
       chan' = [c \in Monitors |-> IF Read(c) THEN Append(chan[c], e) ELSE chan[c]]

\* A USB handle does not survive the device's leaving the bus.
Unplugged == IF recovery = "open" THEN "stale" ELSE recovery

-----------------------------------------------------------------------------
(* The main thread.                                                        *)

Running(at) == status = "running" /\ pc = at
Goto(from, to) == Running(from) /\ pc' = to
Quiet == UNCHANGED <<uuid, events, chan>>

\* Every error return of a callee ends main with -1.
Fails ==
  /\ status' = "error"
  /\ UNCHANGED <<pc, site, mode, recovery, uploaded, peer, started, device>>
  /\ Quiet

\* check_mode: recovery, then normal, then restore; dfu_check_mode never
\* succeeds.  restored may answer lockdownd_query_type as lockdownd would.
CheckMode ==
  /\ Goto("check", "device")
  /\ \/ InIBoot /\ mode' = "recovery"
     \/ /\ ~InIBoot
        /\ \E d \in Candidates : mode' \in {"normal", ModeOf(d)}
  /\ UNCHANGED <<site, recovery, uploaded, peer, started, status, device>>
  /\ Quiet

CheckModeFails == Running("check") /\ ~InIBoot /\ Fails

\* check_device asks lockdownd, restored or iBoot; the last opens
\* client->recovery, with retries.
CheckDevice ==
  /\ Goto("device", IF mode = "restore" THEN "open" ELSE "prepare")
  /\ IF mode = "recovery" THEN InIBoot /\ recovery' = "open"
     ELSE /\ \E d \in Candidates : mode = ModeOf(d)
          /\ UNCHANGED recovery
  /\ site' = IF mode = "restore" THEN "reboot" ELSE site
  /\ UNCHANGED <<mode, uploaded, peer, started, status, device>>
  /\ Quiet

\* When the first irecv_open fails, recovery_client_free reads the handle of
\* a record malloc has just returned.
CheckDeviceFails ==
  /\ Running("device")
  /\ status' \in IF mode = "recovery" THEN {"error", "crashed"} ELSE {"error"}
  /\ UNCHANGED <<pc, site, mode, recovery, uploaded, peer, started, device>>
  /\ Quiet

\* restore_reboot: the device leaves restore mode, client->mode does not.
RebootRestored ==
  /\ Goto("sendreboot", "prepare")
  /\ peer \in Visible
  /\ IF peer = Target /\ tmode = "restore"
     THEN tmode' = "off" /\ bootsInto' \in {"normal", "recovery"}
     ELSE UNCHANGED <<tmode, bootsInto>>
  /\ UNCHANGED <<plugged, applied, plugs>>
  /\ Broadcast
  /\ UNCHANGED <<uuid, events, site, mode, recovery, uploaded, peer, started,
                 status>>

\* Manifest, TSS record, filesystem; then the dispatch on client->mode.
Prepare ==
  /\ Goto("prepare", CASE mode = "normal" -> "lockdown"
                       [] mode = "recovery" -> "boot"
                       [] mode = "restore" -> "open")
  /\ site' = IF mode = "restore" THEN "restore" ELSE site
  /\ UNCHANGED <<mode, recovery, uploaded, peer, started, status, device>>
  /\ Quiet

PrepareFails == pc \in {"sendreboot", "prepare"} /\ Running(pc) /\ Fails

\* normal_enter_recovery asks lockdownd to reboot the device into recovery.
EnterRecovery ==
  /\ Goto("lockdown", "reenter")
  /\ \E d \in Candidates :
       ModeOf(d) = "normal" /\
       IF d = Target
       THEN tmode' = "off" /\ bootsInto' = "recovery" /\ UNCHANGED plugged
       ELSE plugged' = plugged \ {d} /\ UNCHANGED <<tmode, bootsInto>>
  /\ UNCHANGED <<applied, plugs>>
  /\ Broadcast
  /\ UNCHANGED <<uuid, events, site, mode, recovery, uploaded, peer, started,
                 status>>

EnterRecoveryFails == Running("lockdown") /\ Fails

\* A slip: the failure of irecv_send_command is not passed on.
NormalEnterRecoverySucceeds == 0

\* Its own "recovery" is still NULL when it sends the auto-boot commands, so
\* irecv_send_command says IRECV_E_NO_DEVICE even if iBoot was reached.
NormalEnterRecoveryReturns == -1

\* What main makes of the return value: client->mode is still MODE_NORMAL, so
\* after a success no later branch would be taken.
Reenter ==
  /\ Goto("reenter", "exit")
  /\ InIBoot
  /\ recovery' = "open"
  /\ status' = IF NormalEnterRecoveryReturns < 0 THEN "error" ELSE "done"
  /\ UNCHANGED <<site, mode, uploaded, peer, started, device>>
  /\ Quiet

ReenterFails ==
  /\ Running("reenter") /\ ~InIBoot
  /\ status' \in {"error", "crashed"}
  /\ UNCHANGED <<pc, site, mode, recovery, uploaded, peer, started, device>>
  /\ Quiet

-----------------------------------------------------------------------------
(* recovery_enter_restore.                                                 *)

Components ==
  <<"iBEC", "AppleLogo", "RestoreDeviceTree", "RestoreRamDisk", "RestoreKernelCache">>

\* recovery_send_component needs a live handle.
SendComponent ==
  /\ Goto("boot", "command")
  /\ recovery = "open" /\ InIBoot
  /\ uploaded' = uploaded + 1
  /\ UNCHANGED <<site, mode, recovery, peer, started, status, device>>
  /\ Quiet

SendComponentFails == Running("boot") /\ Fails

\* go, setpicture, devicetree, ramdisk, bootx: irecv_send_command ignores
\* the result of the transfer, so a command to a dead handle is lost.  The
\* AppleLogo, after iBEC has started, opens a new handle; so does the kernel
\* cache, after the user was asked to replug the device.
SendCommand ==
  /\ Goto("command", CASE uploaded = 1 -> "reopen"
                       [] uploaded = 4 -> "prompt"
                       [] uploaded = 5 -> "open"
                       [] OTHER -> "boot")
  /\ site' = IF uploaded = 5 THEN "enter" ELSE site
  /\ IF recovery # "open" THEN UNCHANGED <<recovery, applied, tmode, bootsInto>>
     ELSE /\ applied' = applied \cup {Components[uploaded]}
          /\ recovery' = IF uploaded \in {1, 5} THEN "stale" ELSE recovery
          /\ IF uploaded = 5
             THEN /\ tmode' = "off"
                  /\ bootsInto' = IF {"RestoreDeviceTree", "RestoreRamDisk"} \subseteq applied
                                  THEN "restore" ELSE "normal"
             ELSE UNCHANGED <<tmode, bootsInto>>
  /\ UNCHANGED <<mode, uploaded, peer, started, status, plugged, plugs>>
  /\ Quiet

\* "Hit any key to continue...": getchar returns when the user has.
HitKey ==
  /\ Goto("prompt", "reopen")
  /\ UNCHANGED <<site, mode, recovery, uploaded, peer, started, status, device>>
  /\ Quiet

\* recovery_open_with_timeout: up to ten attempts, four seconds apart.
Reopen ==
  /\ Goto("reopen", "boot")
  /\ InIBoot
  /\ recovery' = "open"
  /\ UNCHANGED <<site, mode, uploaded, peer, started, status, device>>
  /\ Quiet

ReopenFails == Running("reopen") /\ ~InIBoot /\ Fails

-----------------------------------------------------------------------------
(* restore_open_with_timeout.                                              *)

Subscribe ==
  /\ Goto("open", "wait")
  /\ LET m == IF mon[1] = "none" THEN 1 ELSE 2
     IN  mon[m] = "none" /\ mon' = [mon EXCEPT ![m] = "init"]
  /\ UNCHANGED <<uuid, site, mode, recovery, uploaded, peer, started, status,
                 quit, connected, fd, tears, listenfd, known, chan, device>>

\* Ten looks at restore_device_connected, two seconds apart.
WaitConnected ==
  /\ Goto("wait", "dial")
  /\ connected
  /\ UNCHANGED <<site, mode, recovery, uploaded, peer, started, status, device>>
  /\ Quiet

\* A slip: the attempts are not counted.
WaitForever == FALSE

WaitGivesUp == Running("wait") /\ ~connected /\ Fails

\* restored_client_new and restored_query_type(restored, NULL, NULL): any
\* daemon on the port that answers with Success will do, lockdownd included.
Answers(d) == ModeOf(d) \in {"normal", "restore"}

AfterOpen == CASE site = "reboot" -> "sendreboot" [] site = "enter" -> "open"
               [] site = "restore" -> "start"

\* recovery_enter_restore frees the client again and sets MODE_RESTORE.
OpenRestored ==
  /\ Goto("dial", AfterOpen)
  /\ \E d \in Candidates :
       /\ Answers(d)
       /\ peer' = IF site = "enter" THEN NoDevice ELSE d
  /\ IF site = "enter" THEN mode' = "restore" /\ site' = "restore"
                       ELSE UNCHANGED <<mode, site>>
  /\ UNCHANGED <<recovery, uploaded, started, status, device>>
  /\ Quiet

OpenRestoredFails == Running("dial") /\ Fails

-----------------------------------------------------------------------------
(* restore_device.                                                         *)

StartRestore ==
  /\ Goto("start", "loop")
  /\ started' = TRUE
  /\ UNCHANGED <<site, mode, recovery, uploaded, peer, status, device>>
  /\ Quiet

StartRestoreFails == Running("start") /\ Fails

\* while ((client->flags & FLAG_QUIT) == 0)
LoopGoesOn ==
  /\ Goto("loop", "receive")
  /\ ~quit
  /\ UNCHANGED <<site, mode, recovery, uploaded, peer, started, status, device>>
  /\ Quiet

\* restore_device returns 0 however the loop ended, and main prints DONE.
LoopEnds ==
  /\ Goto("loop", "exit")
  /\ quit
  /\ peer' = NoDevice
  /\ status' = "done"
  /\ UNCHANGED <<site, mode, recovery, uploaded, started, device>>
  /\ Quiet

\* A receive that times out or fails, a message that is not understood, or
\* one whose handler succeeds.
ReceiveContinues ==
  /\ Goto("receive", "loop")
  /\ UNCHANGED <<site, mode, recovery, uploaded, peer, started, status, device>>
  /\ Quiet

\* A message whose handler returns -1, or a request for NORData under
\* FLAG_EXCLUDE.
ReceiveQuits ==
  /\ Goto("receive", "loop")
  /\ peer \in Visible
  /\ quit' = TRUE
  /\ UNCHANGED <<site, mode, recovery, uploaded, peer, started, status, device,
                 uuid, connected, mon, fd, tears, listenfd, known, chan>>

-----------------------------------------------------------------------------
(* The monitors: device_monitor, through usbmux_event_cb, runs             *)
(* restore_device_callback.                                                *)

\* collection_init makes the list anew, whoever is using it.
MonitorStarts(m) ==
  /\ status = "running"
  /\ mon[m] = "init" /\ mon' = [mon EXCEPT ![m] = "listen"]
  /\ known' = [d \in Devices |-> 0]
  /\ UNCHANGED <<uuid, flow, quit, connected, fd, tears, listenfd, chan, device>>

\* usbmuxd_listen opens a connection, and nobody closes the one before it;
\* usbmuxd then announces what is attached, in some order.
Other(m) == 3 - m
NewConnection(m) == IF fd[Other(m)] = m THEN Other(m) ELSE m
Orders(S) == {s \in [1 .. Cardinality(S) -> S] : \A i, j \in DOMAIN s : s[i] = s[j] => i = j}

MonitorListens(m) ==
  /\ status = "running"
  /\ mon[m] = "listen" /\ mon' = [mon EXCEPT ![m] = "reading"]
  /\ listenfd' = NewConnection(m)
  /\ fd' = [fd EXCEPT ![m] = listenfd']
  /\ \E s \in Orders(Visible) :
       chan' = [c \in Monitors |->
                 IF c = listenfd' THEN [i \in DOMAIN s |-> Event("add", s[i])]
                 ELSE IF fd[Other(m)] = c THEN chan[c] ELSE <<>>]
  /\ UNCHANGED <<uuid, flow, quit, connected, tears, known, device>>

\* A slip: the loss of the device does not set FLAG_QUIT.
CallbackKeepsGoing(type) == connected' = (type = "add") /\ UNCHANGED quit

\* The uuid of the event is not looked at.
Callback(type) ==
  IF type = "add" THEN connected' = TRUE /\ UNCHANGED quit
                  ELSE connected' = FALSE /\ quit' = TRUE

\* receive_packet; then listenfd is read again for the next call.
ReceiveEvent(m) ==
  /\ status = "running"
  /\ mon[m] = "reading" /\ chan[fd[m]] # <<>>
  /\ fd' = [fd EXCEPT ![m] = listenfd]
  /\ chan' = [c \in Monitors |->
                IF c # fd[m] THEN chan[c]
                ELSE IF \E n \in Monitors : fd'[n] = c THEN Tail(chan[c]) ELSE <<>>]
  /\ UNCHANGED <<uuid, flow, mon, tears, listenfd, device>>

\* Slips: devices_find is not asked before the record is removed; a removed
\* device keeps its record.
DeliverUnchecked(m) ==
  /\ ReceiveEvent(m)
  /\ LET e == Head(chan[fd[m]])
     IN  /\ known' = [known EXCEPT ![e.dev] = @ + (IF e.type = "add" THEN 1 ELSE -1)]
         /\ Callback(e.type)

DeliverKeepsRecord(m) ==
  /\ ReceiveEvent(m)
  /\ LET e == Head(chan[fd[m]])
     IN  /\ known' = [known EXCEPT ![e.dev] = @ + (IF e.type = "add" THEN 1 ELSE 0)]
         /\ Callback(e.type)

\* get_next_event.  A removal of a device the list does not hold is ignored.
Deliver(m) ==
  /\ ReceiveEvent(m)
  /\ LET e == Head(chan[fd[m]])
     IN  IF e.type = "remove" /\ known[e.dev] = 0
         THEN UNCHANGED <<known, connected, quit>>
         ELSE /\ known' = [known EXCEPT ![e.dev] = @ + (IF e.type = "add" THEN 1 ELSE -1)]
              /\ Callback(e.type)

\* receive_packet takes the header and the payload one after the other, and two
\* monitors that read one connection may get them between them: the one with
\* the header is short of payload, the other takes payload for a header.  A
\* payload shorter than a header passes for a message of no known type; and
\* who waits for payload may take the beginning of the next packet from the
\* other.  That what follows makes a torn packet look whole is left out.
Tear(m) ==
  /\ status = "running"
  /\ mon[m] \in {"reading", "broken"} /\ mon[Other(m)] = "reading"
  /\ fd[m] = fd[Other(m)] /\ chan[fd[m]] # <<>>
  /\ tears < MaxTears /\ plugs + 2 * tears + 2 <= MaxPlugs /\ tears' = tears + 1
  /\ chan' = [chan EXCEPT ![fd[m]] = Tail(@)]
  /\ \/ mon' = [n \in Monitors |-> "broken"] /\ UNCHANGED fd
     \/ /\ mon[m] = "reading" /\ mon' = [mon EXCEPT ![m] = "broken"]
        /\ fd' = [fd EXCEPT ![Other(m)] = listenfd]
  /\ UNCHANGED <<uuid, flow, quit, connected, listenfd, known, device>>

\* receive_packet has failed: get_next_event empties the list, and
\* device_monitor listens anew.
ListenAnew(m) ==
  /\ status = "running"
  /\ mon[m] = "broken" /\ mon' = [mon EXCEPT ![m] = "listen"]
  /\ fd' = [fd EXCEPT ![m] = 0]
  /\ known' = [d \in Devices |-> 0]
  /\ UNCHANGED <<uuid, flow, tears, listenfd, chan, device>>

\* A slip: the list is emptied and nobody is told.
FlushSilently(m) == ListenAnew(m) /\ UNCHANGED <<connected, quit>>

\* The callback is told of every device that it was in the list.
Flush(m) ==
  /\ ListenAnew(m)
  /\ IF known = known' THEN UNCHANGED <<connected, quit>> ELSE Callback("remove")

-----------------------------------------------------------------------------
(* The user and the device (external).                                     *)

Plug(d) ==
  /\ status = "running" /\ plugs + 2 * tears < MaxPlugs /\ plugs' = plugs + 1
  /\ plugged' = IF d \in plugged THEN plugged \ {d} ELSE plugged \cup {d}
  /\ recovery' = IF d = Target THEN Unplugged ELSE recovery
  /\ UNCHANGED <<tmode, bootsInto, applied>>
  /\ Broadcast
  /\ UNCHANGED <<uuid, events, pc, site, mode, uploaded, peer, started, status>>

\* The target comes up in the mode it was last sent to.
Boots ==
  /\ status = "running"
  /\ tmode = "off" /\ tmode' = bootsInto
  /\ applied' = {}
  /\ UNCHANGED <<plugged, bootsInto, plugs>>
  /\ Broadcast
  /\ UNCHANGED <<uuid, events, flow>>

\* restored is through, or gives up: the target reboots.
RestoreEnds ==
  /\ status = "running"
  /\ tmode = "restore" /\ tmode' = "off"
  /\ bootsInto' = "normal"
  /\ UNCHANGED <<plugged, applied, plugs>>
  /\ Broadcast
  /\ UNCHANGED <<uuid, events, flow>>

-----------------------------------------------------------------------------
MainStep ==
  \/ CheckMode \/ CheckModeFails \/ CheckDevice \/ CheckDeviceFails
  \/ RebootRestored \/ Prepare \/ PrepareFails
  \/ EnterRecovery \/ EnterRecoveryFails \/ Reenter \/ ReenterFails
  \/ SendComponent \/ SendComponentFails \/ SendCommand \/ HitKey \/ Reopen \/ ReopenFails
  \/ Subscribe \/ WaitConnected \/ WaitGivesUp \/ OpenRestored \/ OpenRestoredFails
  \/ StartRestore \/ StartRestoreFails \/ LoopGoesOn \/ LoopEnds
  \/ ReceiveContinues \/ ReceiveQuits

MonitorStep(m) == MonitorStarts(m) \/ MonitorListens(m) \/ Deliver(m) \/ Tear(m) \/ Flush(m)

Next ==
  \/ MainStep
  \/ \E m \in Monitors : MonitorStep(m)
  \/ \E d \in Devices : Plug(d)
  \/ Boots \/ RestoreEnds

Spec == Init /\ [][Next]_vars

\* Where the main thread waits for somebody without a timeout: for a device
\* silent inside TLS (LockdownClient), which is asked for its type or its ECID;
\* for the signing server; for the user at the prompt; and, in a handler that
\* sends it a file, for a device that does not read.
Waits ==
  \/ pc = "device" /\ mode = "normal"
  \/ pc \in {"prepare", "prompt"}
  \/ pc = "receive" /\ peer \in Visible

\* Both kinds of thread are scheduled; every other wait of the main thread has
\* a timeout.  Nothing obliges the user, the device or the signing server.
FairSpec ==
  /\ Spec
  /\ WF_vars(MainStep /\ ~Waits)
  /\ \A m \in Monitors : WF_vars(MonitorStep(m))

-----------------------------------------------------------------------------
Modes == {"normal", "recovery", "restore"}
PCs == {"check", "device", "sendreboot", "prepare", "lockdown", "reenter", "boot", "command",
        "prompt", "reopen", "open", "wait", "dial", "start", "loop", "receive", "exit"}
Events == {Event(type, d) : type \in {"add", "remove"}, d \in Devices}

\* Type invariant.
TypeOK ==
  /\ uuid \in BOOLEAN
  /\ pc \in PCs /\ site \in {"none", "reboot", "enter", "restore"}
  /\ mode \in Modes \cup {"none"}
  /\ recovery \in {"null", "open", "stale"} /\ uploaded \in 0 .. 5
  /\ peer \in Devices \cup {NoDevice}
  /\ started \in BOOLEAN /\ status \in {"running", "done", "error", "crashed"}
  /\ quit \in BOOLEAN /\ connected \in BOOLEAN
  /\ mon \in [Monitors -> {"none", "init", "listen", "reading", "broken"}]
  /\ fd \in [Monitors -> {0, 1, 2}] /\ tears \in 0 .. MaxTears /\ listenfd \in {0, 1, 2}
  /\ known \in [Devices -> Nat]
  /\ chan \in [Monitors -> Seq(Events)]
  /\ plugged \subseteq Devices /\ tmode \in Modes \cup {"off"}
  /\ bootsInto \in Modes /\ plugs \in Nat
  /\ applied \subseteq {Components[i] : i \in 1 .. 5}

\* "DONE" is only printed after the device was told to start the restore,
\* whatever mode it was found in.
DoneMeansStarted == status = "done" => started

\* The list the monitors share holds a device at most once per monitor: the
\* second subscription's collection_init and the change of listenfd under the
\* first monitor never make records pile up, as long as no removal is lost
\* with a torn packet.
OneRecordPerMonitor ==
  tears = 0 => \A d \in Devices : known[d] <= Cardinality({m \in Monitors : mon[m] \in {"listen", "reading"}})

\* The process ends or starts the restore, unless it is left waiting for ever
\* at one of the places that have no timeout: no device that goes away, comes
\* back in another mode or loses a command holds it up anywhere else.
StartupEnds == <>(status # "running" \/ started) \/ <>[]Waits

\* Once the newest monitor is listening, the loss of a device it can see
\* ends the process, whatever the older monitor does to the shared list,
\* unless a handler waits for ever for the device being restored, or the two
\* tear a packet: the loss may then fall between two connections.
WatchedLossEnds ==
  \A d \in Devices :
    [](mon[2] = "reading" /\ d \in Visible
       => []((d \notin Visible) => <>(status # "running" \/ tears > 0) \/ <>[]Waits))

\* While both monitors read, the loss of the target, if it is in the list, ends
\* the process even when packets are torn (and no handler waits for ever): who
\* forgets the list tells the callback of every device in it.
ListedLossEnds ==
  []((\A m \in Monitors : mon[m] = "reading") /\ known[Target] > 0 /\ Target \in Visible
     => []((Target \notin Visible) => <>(status # "running") \/ <>[]Waits))

\* The callback is called "when device add/remove events occur": the loss of
\* the device being restored ends the restore loop.
LossEndsRestore ==
  pc \in {"loop", "receive"} /\ peer \notin Visible ~> status # "running"
=============================================================================
