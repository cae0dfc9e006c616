-------------------------------- MODULE IBoot --------------------------------
(***************************************************************************)
(* libirecovery: the USB driver of idevicerestore for a device in recovery *)
(* or DFU mode, without its Windows half.  One caller opens, subscribes,   *)
(* sends commands, scripts and files, reads and reconnects, in any order   *)
(* that keeps to live clients; the cable is pulled and plugged at any time *)
(* and any transfer may fail.                                              *)
(*                                                                         *)
(* A buffer is a number of bytes and PacketSize stands for 0x800.  Which   *)
(* command is sent, and the tags of the serial string, are left out.       *)
(* libusb and the device are outside src/.                                 *)
(***************************************************************************)
EXTENDS Integers, FiniteSets

CONSTANTS
  PacketSize,      \* packet_size
  BufferLengths,   \* lengths that are sent and received
  OpenAttempts,    \* "attempts" of irecv_open_attempts: 10
  MaxIbCalls       \* bound: calls of the caller

ASSUME IBootBounds ==
  /\ PacketSize \in Nat \ {0} /\ BufferLengths \subseteq Nat
  /\ OpenAttempts \in Nat \ {0} /\ MaxIbCalls \in Nat

IbModes == {"recovery", "dfu"}
IbErrors == {"UNABLE_TO_CONNECT", "USB_CONFIGURATION", "USB_INTERFACE"}
IbEvents == {"received", "progress", "connected", "precommand", "postcommand", "disconnected"}

VARIABLES
  ibPc, ibCalls,
  context,       \* libirecovery_context: "none", "live", or "exited" and still kept
  ibClient,      \* the caller's client: "none" or "open"
  ibMode,        \* its mode
  handleGood,    \* its handle reaches the device it was opened for
  callbacks,     \* its callbacks that are set
  attemptsLeft,   \* of the open that is going on
  ibLength, ibCount, finish,    \* length, packets done and dfuNotifyFinished
  lines,         \* lines of the script that are left
  plugged,       \* the mode of the device on the cable, or "none"
  ibOp,          \* the call that goes on or ended last: "send", "receive" or "other"
  devGot,        \* external: bytes the device has since the last transfer was initiated
  hostGot,       \* bytes irecv_recv_buffer has put into its buffer
  ibResult

ibVars == <<ibPc, ibCalls, context, ibClient, ibMode, handleGood, callbacks, attemptsLeft,
            ibLength, ibCount, finish, lines, plugged, ibOp, devGot, hostGot,
            ibResult>>
clientVars == <<context, ibClient, ibMode, callbacks, attemptsLeft>>
transferVars == <<ibLength, ibCount, finish, devGot, hostGot>>

IBootInit ==
  /\ ibPc = "idle" /\ ibCalls = 0 /\ context = "none" /\ ibClient = "none" /\ ibMode = "dfu"
  /\ handleGood = FALSE /\ callbacks = {} /\ attemptsLeft = 0
  /\ ibLength = 0 /\ ibCount = 0 /\ finish = FALSE /\ lines = 0 /\ plugged \in IbModes
  /\ ibOp = "other" /\ devGot = 0 /\ hostGot = 0 /\ ibResult = "none"

\* A call begins, and ends.
IbCalls(op) == ibPc = "idle" /\ ibCalls < MaxIbCalls /\ ibCalls' = ibCalls + 1 /\ ibOp' = op
IbReturn(result) == ibPc' = "idle" /\ ibResult' = result
\* check_context.
CheckContext == ibClient = "open"
\* A transfer may fail, and does when the device is gone.
Transfers == {FALSE} \cup (IF handleGood THEN {TRUE} ELSE {})

-----------------------------------------------------------------------------
(* The library and the client.                                             *)

IrecvInit ==
  /\ IbCalls("other") /\ context = "none" /\ context' = "live" /\ IbReturn("SUCCESS")
  /\ UNCHANGED <<ibClient, ibMode, callbacks, attemptsLeft, handleGood, lines,
                 plugged, transferVars>>

IrecvExit ==
  /\ IbCalls("other") /\ ibClient = "none" /\ context' = "none" /\ IbReturn("SUCCESS")
  /\ UNCHANGED <<ibClient, ibMode, callbacks, attemptsLeft, handleGood, lines,
                 plugged, transferVars>>

\* irecv_open, or irecv_open_attempts.
IrecvOpen ==
  /\ IbCalls("other") /\ ibClient = "none" /\ context # "none" /\ ibPc' = "open"
  /\ attemptsLeft' \in {1, OpenAttempts}
  /\ UNCHANGED <<context, ibClient, ibMode, callbacks, handleGood, lines, plugged, transferVars,
                 ibResult>>

\* One attempt succeeds, or finds no device, cannot open it (libusb_exit, and the
\* exited context is kept and used by the next attempt, which may do anything), or
\* cannot set configuration or interface.
OpenAttempt ==
  /\ ibPc = "open" /\ attemptsLeft' = attemptsLeft - 1
  /\ \/ /\ plugged # "none" /\ ibClient' = "open" /\ ibMode' = plugged
        /\ handleGood' = TRUE /\ IbReturn("SUCCESS") /\ UNCHANGED <<context, callbacks>>
     \/ /\ context' \in {context} \cup (IF plugged # "none" THEN {"exited"} ELSE {})
        /\ IF attemptsLeft' = 0
           THEN (\E error \in IbErrors : IbReturn(error)) /\ callbacks' = {}
           ELSE UNCHANGED <<ibPc, ibResult, callbacks>>
        /\ UNCHANGED <<ibClient, ibMode, handleGood>>
  /\ UNCHANGED <<ibCalls, ibOp, lines, plugged, transferVars>>

\* The cases without a break: what one event's subscription sets, or clears.
FallsTo(event) ==
  CASE event = "progress" -> {"progress", "connected", "precommand"}
    [] event = "connected" -> {"connected", "precommand"}
    [] OTHER -> {event}

IrecvSubscribe ==
  /\ IbCalls("other") /\ CheckContext
  /\ \E event \in IbEvents :
       /\ callbacks' \in {callbacks \cup FallsTo(event), callbacks \ FallsTo(event)}
       /\ IbReturn(IF event = "disconnected" THEN "UNKNOWN_ERROR" ELSE "SUCCESS")
  /\ UNCHANGED <<context, ibClient, ibMode, attemptsLeft, handleGood, lines, plugged,
                 transferVars>>

IrecvClose ==
  /\ IbCalls("other") /\ CheckContext /\ ibClient' = "none" /\ handleGood' = FALSE /\ callbacks' = {}
  /\ IbReturn("SUCCESS")
  /\ UNCHANGED <<context, ibMode, attemptsLeft, lines, plugged, transferVars>>

\* irecv_reconnect: of the callbacks only the one for progress is kept.
IrecvReconnect ==
  /\ IbCalls("other") /\ CheckContext /\ ibClient' = "none" /\ handleGood' = FALSE
  /\ ibPc' = "open" /\ attemptsLeft' = OpenAttempts
  /\ callbacks' = callbacks \cap {"progress"}
  /\ UNCHANGED <<context, ibMode, lines, plugged, transferVars, ibResult>>

\* irecv_reset: the device may come back as another.
IrecvReset ==
  /\ IbCalls("other") /\ IbReturn(IF CheckContext THEN "SUCCESS" ELSE "NO_DEVICE")
  /\ handleGood' \in {handleGood, FALSE}
  /\ UNCHANGED <<clientVars, lines, plugged, transferVars>>

-----------------------------------------------------------------------------
(* Commands.                                                               *)

\* A call that leaves the client as it is, whatever its transfers do.
Answers(results) ==
  /\ IbCalls("other")
  /\ \/ ~CheckContext /\ IbReturn("NO_DEVICE")
     \/ CheckContext /\ \E result \in results : IbReturn(result)
  /\ UNCHANGED <<clientVars, handleGood, lines, plugged, transferVars>>

\* irecv_send_command looks at no transfer, and a precommand callback may keep the
\* command back; irecv_receive reads until a short or failing packet.  A variable
\* without a name is refused by irecv_getenv and irecv_setenv.
IrecvCommand == Answers({"SUCCESS"})
IrecvReceive == Answers({"SUCCESS"})
IrecvGetenv == Answers({"SUCCESS", "UNKNOWN_ERROR"})
IrecvSetenv == Answers({"SUCCESS", "UNKNOWN_ERROR"})

\* irecv_get_cpid to irecv_get_imei find a tag in the serial string or do not, and
\* irecv_get_device tells the boards that share a chip apart.
Boards == {<<"8900", 0, "iphone2g">>, <<"8900", 4, "iphone3g">>, <<"8900", 2, "ipod1g">>,
           <<"8930", 2, "ipad1g">>, <<"8930", 0, "iphone4">>, <<"8930", 8, "ipod4g">>,
           <<"8930", 10, "appletv2">>, <<"8930", 6, "iphone42">>}
Chips == {<<"8920", "iphone3gs">>, <<"8720", "ipod2g">>, <<"8922", "ipod3g">>}
DevicesOf(chip, board) ==
  LET known == {b[3] : b \in {x \in Boards : x[1] = chip /\ x[2] = board}}
               \cup {c[2] : c \in {x \in Chips : x[1] = chip}}
  IN IF known = {} THEN {"unknown"} ELSE known

\* irecv_execute_script: each line is sent and its output received.
IrecvScript ==
  /\ IbCalls("other")
  /\ \/ ~CheckContext /\ IbReturn("NO_DEVICE") /\ UNCHANGED lines
     \/ CheckContext /\ IbReturn("FILE_NOT_FOUND") /\ UNCHANGED lines
     \/ CheckContext /\ ibPc' = "script" /\ lines' \in 0 .. 2 /\ UNCHANGED ibResult
  /\ UNCHANGED <<clientVars, handleGood, plugged, transferVars>>

ScriptLine ==
  /\ ibPc = "script"
  /\ IF lines = 0 THEN IbReturn("SUCCESS") /\ UNCHANGED lines
                  ELSE lines' = lines - 1 /\ UNCHANGED <<ibPc, ibResult>>
  /\ UNCHANGED <<ibCalls, ibOp, clientVars, handleGood, plugged, transferVars>>

-----------------------------------------------------------------------------
(* Files and buffers.                                                      *)

\* The bytes of a control or bulk packet of this mode that is read.
ReceiveSize == IF ibMode = "dfu" THEN PacketSize ELSE 4 * PacketSize
\* A slip: the rest of a length that is no multiple is no packet.
SlipPackets(length, packet) == length \div packet
\* packets and last: the last packet is what the full ones leave, or a full one.
Packets(length, packet) == length \div packet + (IF length % packet # 0 THEN 1 ELSE 0)
Last(length, packet) == IF length % packet # 0 THEN length % packet ELSE packet
PacketBytes(i, length, packet) ==
  IF i + 1 < Packets(length, packet) THEN packet ELSE Last(length, packet)

\* irecv_get_status; the state of the device is buffer[4], and 5 when it waits
\* for more.
GetStatus(ok, state) == IF ok THEN [error |-> "SUCCESS", status |-> state]
                              ELSE [error |-> "USB_STATUS", status |-> 0]

\* irecv_send_buffer initiates the transfer, alone or for irecv_send_file, which
\* may not read its file.
IrecvSendBuffer ==
  /\ IbCalls("send")
  /\ ibLength' \in BufferLengths /\ finish' \in BOOLEAN /\ ibCount' = 0
  /\ \/ ~CheckContext /\ IbReturn("NO_DEVICE") /\ UNCHANGED devGot
     \/ /\ CheckContext /\ UNCHANGED devGot
        /\ \E error \in {"FILE_NOT_FOUND", "UNKNOWN_ERROR"} : IbReturn(error)
     \/ /\ CheckContext
        /\ \E ok \in Transfers :
             IF ok THEN ibPc' = "send" /\ devGot' = 0 /\ UNCHANGED ibResult
                   ELSE IbReturn("USB_ERROR") /\ UNCHANGED devGot
  /\ UNCHANGED <<clientVars, handleGood, lines, plugged, hostGot>>

\* A packet that fails may have arrived all the same.  In DFU mode the status of
\* the device is asked for after each.
SendPacket ==
  /\ ibPc = "send" /\ ibCount < Packets(ibLength, PacketSize)
  /\ \E ok \in Transfers, answered \in Transfers, state \in {2, 5} :
       LET size == PacketBytes(ibCount, ibLength, PacketSize)
           dfu == ibMode = "dfu"
           got == GetStatus(answered, state)
       IN /\ devGot' \in (IF ok THEN {devGot + size} ELSE devGot .. devGot + size)
          /\ CASE ~ok -> IbReturn("USB_UPLOAD") /\ UNCHANGED ibCount
               [] ok /\ dfu /\ got.error # "SUCCESS" -> IbReturn(got.error) /\ UNCHANGED ibCount
               [] ok /\ dfu /\ got.error = "SUCCESS" /\ got.status # 5 ->
                    IbReturn("USB_UPLOAD") /\ UNCHANGED ibCount
               [] OTHER -> ibCount' = ibCount + 1 /\ UNCHANGED <<ibPc, ibResult>>
  /\ UNCHANGED <<ibCalls, ibOp, clientVars, handleGood, lines, plugged, ibLength, finish, hostGot>>

\* The end of it in DFU mode: an empty packet, three states and a reset.
SendEnds ==
  /\ ibPc = "send" /\ ibCount = Packets(ibLength, PacketSize)
  /\ \/ (~finish \/ ibMode # "dfu") /\ IbReturn("SUCCESS") /\ UNCHANGED handleGood
     \/ /\ finish /\ ibMode = "dfu"
        /\ \E ok \in Transfers :
             IF ok THEN IbReturn("SUCCESS") /\ handleGood' \in {handleGood, FALSE}
                   ELSE IbReturn("USB_STATUS") /\ UNCHANGED handleGood
  /\ UNCHANGED <<ibCalls, ibOp, clientVars, lines, plugged, transferVars>>

\* irecv_recv_buffer.
IrecvReceiveBuffer ==
  /\ IbCalls("receive")
  /\ IF CheckContext
     THEN ibPc' = "receive" /\ ibLength' \in BufferLengths /\ ibCount' = 0 /\ hostGot' = 0
          /\ UNCHANGED ibResult
     ELSE IbReturn("NO_DEVICE") /\ UNCHANGED <<ibLength, ibCount, hostGot>>
  /\ UNCHANGED <<clientVars, handleGood, lines, plugged, finish, devGot>>

ReceivePacket ==
  /\ ibPc = "receive" /\ ibCount < Packets(ibLength, ReceiveSize)
  /\ \E ok \in Transfers :
       LET size == PacketBytes(ibCount, ibLength, ReceiveSize)
       IN IF ok THEN /\ hostGot' = hostGot + size /\ ibCount' = ibCount + 1
                     /\ UNCHANGED <<ibPc, ibResult>>
                ELSE IbReturn("USB_UPLOAD") /\ UNCHANGED <<hostGot, ibCount>>
  /\ UNCHANGED <<ibCalls, ibOp, clientVars, handleGood, lines, plugged, ibLength, finish, devGot>>

ReceiveBufferEnds ==
  /\ ibPc = "receive" /\ ibCount = Packets(ibLength, ReceiveSize) /\ IbReturn("SUCCESS")
  /\ UNCHANGED <<ibCalls, ibOp, clientVars, handleGood, lines, plugged, transferVars>>

\* irecv_get_cpid and its like, and irecv_get_device.
IrecvIdentify ==
  Answers({"SUCCESS", "UNKNOWN_ERROR"}
          \cup UNION {DevicesOf(chip, board) : chip \in {"8900", "8920", "8950"}, board \in {0, 3}})

\* irecv_finish_transfer, irecv_reset_counters and irecv_send_exploit look at no result.
FinishTransfer ==
  /\ IbCalls("other") /\ IbReturn(IF CheckContext THEN "SUCCESS" ELSE "NO_DEVICE")
  /\ handleGood' \in {handleGood, FALSE}
  /\ UNCHANGED <<clientVars, lines, plugged, transferVars>>

-----------------------------------------------------------------------------
Unplug ==
  /\ plugged # "none" /\ plugged' = "none" /\ handleGood' = FALSE
  /\ UNCHANGED <<ibPc, ibCalls, ibOp, clientVars, lines, transferVars, ibResult>>

Plug ==
  /\ plugged = "none" /\ plugged' \in IbModes
  /\ UNCHANGED <<ibPc, ibCalls, ibOp, clientVars, handleGood, lines, transferVars, ibResult>>

IBootNext ==
  \/ IrecvInit \/ IrecvExit \/ IrecvOpen \/ OpenAttempt \/ IrecvSubscribe \/ IrecvClose
  \/ IrecvReconnect \/ IrecvReset \/ IrecvCommand \/ IrecvReceive \/ IrecvGetenv \/ IrecvSetenv
  \/ IrecvScript \/ ScriptLine
  \/ IrecvSendBuffer \/ SendPacket \/ SendEnds \/ IrecvReceiveBuffer \/ ReceivePacket
  \/ ReceiveBufferEnds \/ IrecvIdentify \/ FinishTransfer \/ Unplug \/ Plug

IBootSpec == IBootInit /\ [][IBootNext]_ibVars

-----------------------------------------------------------------------------
IBootTypeOK ==
  /\ ibPc \in {"idle", "open", "script", "send", "receive"} /\ ibCalls \in 0 .. MaxIbCalls
  /\ context \in {"none", "live", "exited"} /\ ibClient \in {"none", "open"}
  /\ ibMode \in IbModes /\ handleGood \in BOOLEAN /\ callbacks \subseteq IbEvents
  /\ attemptsLeft \in 0 .. OpenAttempts /\ ibLength \in BufferLengths \cup {0}
  /\ ibCount \in 0 .. Packets(ibLength, PacketSize) /\ finish \in BOOLEAN /\ lines \in 0 .. 2
  /\ plugged \in IbModes \cup {"none"} /\ ibOp \in {"send", "receive", "other"}
  /\ devGot \in Nat /\ hostGot \in Nat
  /\ (ibClient = "none" /\ ibPc = "idle" => callbacks = {})

\* What irecv_send_buffer and irecv_recv_buffer report as a success has moved the
\* whole buffer, and nothing twice, whatever transfer failed, came short or was
\* left over from an earlier call.
UploadHonest ==
  ibPc = "idle" /\ ibResult = "SUCCESS" =>
    /\ (ibOp = "send" => devGot = ibLength)
    /\ (ibOp = "receive" => hostGot = ibLength)
=============================================================================
