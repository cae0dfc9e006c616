------------------------------ MODULE AfcClient ------------------------------
(***************************************************************************)
(* libimobiledevice's client of the device's file system (AFC).  Threads   *)
(* share one connection under a mutex; a call is one exchange of a         *)
(* numbered packet and its answer, a read or a write as many as its length *)
(* needs.  Nothing is sent again and nothing is skipped: when an answer is *)
(* late, or a packet goes out in part, what arrives next belongs to        *)
(* somebody else, and only the packet number tells.                        *)
(*                                                                         *)
(* The data of an answer is not looked at.  Bytes of a body that are read  *)
(* as a header are taken not to hold the expected number.  The device is   *)
(* outside src/.                                                           *)
(***************************************************************************)
EXTENDS Integers, Sequences

CONSTANTS
  AfcCallers,   \* threads of the application
  MaxAfcCalls,  \* bound: their calls
  MaxSegments   \* bound: exchanges of one read or write

ASSUME AfcBoundsAreNaturals == MaxAfcCalls \in Nat /\ MaxSegments \in Nat \ {0}

\* Every packet that is ever sent has a number of its own.
PacketNums == 1 .. MaxAfcCalls * MaxSegments
VARIABLES
  afcMutex,    \* the mutex is held
  afcPc, afcCall,
  handle,      \* the file each has opened, 0 for none
  segmentsLeft,  \* exchanges a read or a write still needs
  packetNum,   \* client->afc_packet->packet_num
  toDevice,    \* packets on their way
  cutShort,    \* the packet that went out in part, 0 if none did
  fromDevice,  \* headers and bodies of answers
  performed,   \* history: packets the device has carried out
  believed,    \* history: packets a call took for carried out
  afcCalls     \* counter of MaxAfcCalls

afcVars == <<afcMutex, afcPc, afcCall, handle, segmentsLeft, packetNum, toDevice, cutShort, fromDevice,
             performed, believed, afcCalls>>

\* afc_client_new_from_connection.
AfcInit ==
  /\ afcMutex = FALSE
  /\ afcPc = [c \in AfcCallers |-> "idle"] /\ afcCall = [c \in AfcCallers |-> "none"]
  /\ handle = [c \in AfcCallers |-> 0] /\ segmentsLeft = [c \in AfcCallers |-> 0]
  /\ packetNum = 0 /\ toDevice = <<>> /\ cutShort = 0 /\ fromDevice = <<>>
  /\ performed = {} /\ believed = {} /\ afcCalls = 0

-----------------------------------------------------------------------------
AfcGoto(c, from, to) == afcPc[c] = from /\ afcPc' = [afcPc EXCEPT ![c] = to]
AfcReturn(c, from) ==
  /\ AfcGoto(c, from, "idle") /\ afcMutex' = FALSE
  /\ afcCall' = [afcCall EXCEPT ![c] = "none"]

\* A call takes the mutex; opening a file has forgotten the caller's handle.
AfcBegin(c, call, segments) ==
  /\ ~afcMutex /\ afcMutex' = TRUE
  /\ afcCalls < MaxAfcCalls /\ afcCalls' = afcCalls + 1
  /\ AfcGoto(c, "idle", "dispatch")
  /\ afcCall' = [afcCall EXCEPT ![c] = call]
  /\ segmentsLeft' = [segmentsLeft EXCEPT ![c] = segments]
  /\ handle' = IF call = "open" THEN [handle EXCEPT ![c] = 0] ELSE handle
  /\ UNCHANGED <<packetNum, toDevice, cutShort, fromDevice, performed, believed>>

\* One exchange about the device or a path: afc_read_directory and
\* afc_get_device_info; removing, renaming, making and asking; truncating,
\* linking and setting a time.
InfoCall(c) == AfcBegin(c, "info", 1)
PathCall(c) == AfcBegin(c, "path", 1)
NameCall(c) == AfcBegin(c, "name", 1)
OpenCall(c) == AfcBegin(c, "open", 1)
\* One exchange about an open file: close, lock and seek; tell and truncate.
\* Closing leaves the handle to the application.
HandleCall(c) == handle[c] # 0 /\ AfcBegin(c, "handle", 1)
SizeCall(c) == handle[c] # 0 /\ AfcBegin(c, "size", 1)
\* As many as the length needs; a read may need more.
ReadCall(c, segments) == handle[c] # 0 /\ AfcBegin(c, "read", segments)
WriteCall(c, segments) == handle[c] # 0 /\ AfcBegin(c, "write", segments)

\* afc_dispatch_packet: whatever was sent, in one part or in two, the result
\* is AFC_E_SUCCESS.  After a packet that was cut short the device takes
\* every later one for its rest.
Dispatch(c) ==
  /\ AfcGoto(c, "dispatch", "receive")
  /\ packetNum' = packetNum + 1
  /\ \/ cutShort # 0 /\ UNCHANGED <<toDevice, cutShort>>
     \/ cutShort = 0 /\ toDevice' = Append(toDevice, packetNum') /\ UNCHANGED cutShort
     \/ cutShort = 0 /\ cutShort' = packetNum' /\ UNCHANGED toDevice
     \/ cutShort = 0 /\ UNCHANGED <<toDevice, cutShort>>
  /\ UNCHANGED <<afcMutex, afcCall, handle, segmentsLeft, fromDevice, performed, believed, afcCalls>>

-----------------------------------------------------------------------------
(* afc_receive_data.                                                       *)

\* A slip: the number is not compared.
SlipExpected(unit) == unit.part = "header"

\* The number is the one that was sent last.
Expected(unit) == unit.part = "header" /\ unit.num = packetNum

\* Nothing in time; an unexpected header; a header without its body.
ReceiveError ==
  \/ UNCHANGED fromDevice
  \/ fromDevice # <<>> /\ ~Expected(Head(fromDevice)) /\ fromDevice' = Tail(fromDevice)
  \/ /\ fromDevice # <<>> /\ Expected(Head(fromDevice))
     /\ Head(fromDevice).answer # "empty" /\ fromDevice' = Tail(fromDevice)

\* The answer and, unless it is empty, its body.
ReceiveAnswer(answer) ==
  /\ fromDevice # <<>> /\ Expected(Head(fromDevice)) /\ Head(fromDevice).answer = answer
  /\ fromDevice' = IF answer = "empty" THEN Tail(fromDevice) ELSE Tail(Tail(fromDevice))

\* An error of the connection, or a status that is none of success: the call
\* returns it, however many segments went before.
ReceiveFails(c) ==
  /\ ReceiveError \/ ReceiveAnswer("refused")
  /\ AfcReturn(c, "receive")
  /\ UNCHANGED <<handle, segmentsLeft, packetNum, toDevice, cutShort, performed, believed, afcCalls>>

\* A read ends early when there is no more data; otherwise segment follows
\* segment.
ReceiveSucceeds(c) ==
  /\ \E answer \in {"done", "empty"} :
       /\ ReceiveAnswer(answer)
       /\ IF segmentsLeft[c] = 1 \/ (afcCall[c] = "read" /\ answer = "empty")
          THEN AfcReturn(c, "receive")
          ELSE AfcGoto(c, "receive", "dispatch") /\ UNCHANGED <<afcMutex, afcCall>>
       /\ handle' = IF afcCall[c] = "open" /\ answer = "done" THEN [handle EXCEPT ![c] = packetNum]
                    ELSE handle
  /\ believed' = believed \cup {packetNum}
  /\ segmentsLeft' = [segmentsLeft EXCEPT ![c] = @ - 1]
  /\ UNCHANGED <<packetNum, toDevice, cutShort, performed, afcCalls>>

-----------------------------------------------------------------------------
(* The device.                                                             *)

Answer(num, answer) ==
  fromDevice \o <<[part |-> "header", num |-> num, answer |-> answer]>> \o
  (IF answer = "empty" THEN <<>> ELSE <<[part |-> "body", num |-> num, answer |-> answer]>>)

AfcDeviceAnswers ==
  /\ toDevice # <<>>
  /\ \E answer \in {"done", "empty", "refused"} :
       /\ fromDevice' = Answer(Head(toDevice), answer)
       /\ performed' = IF answer = "refused" THEN performed ELSE performed \cup {Head(toDevice)}
  /\ toDevice' = Tail(toDevice)
  /\ UNCHANGED <<afcMutex, afcPc, afcCall, handle, segmentsLeft, packetNum, cutShort, believed, afcCalls>>

\* Later packets complete the one that was cut short.
AfcDeviceMistakes ==
  /\ cutShort \in PacketNums /\ packetNum > cutShort
  /\ fromDevice' = Answer(cutShort, "done") /\ cutShort' = -1
  /\ UNCHANGED <<afcMutex, afcPc, afcCall, handle, segmentsLeft, packetNum, toDevice, performed,
                 believed, afcCalls>>

AfcNext ==
  \/ \E c \in AfcCallers :
       \/ InfoCall(c) \/ PathCall(c) \/ NameCall(c) \/ OpenCall(c) \/ HandleCall(c) \/ SizeCall(c)
       \/ \E n \in 1 .. MaxSegments : ReadCall(c, n) \/ WriteCall(c, n)
       \/ Dispatch(c) \/ ReceiveFails(c) \/ ReceiveSucceeds(c)
  \/ AfcDeviceAnswers \/ AfcDeviceMistakes

AfcSpec == AfcInit /\ [][AfcNext]_afcVars

-----------------------------------------------------------------------------
\* The types of struct afc_client_private and of the packets.
AfcTypeOK ==
  /\ afcMutex \in BOOLEAN /\ packetNum \in 0 .. MaxAfcCalls * MaxSegments
  /\ handle \in [AfcCallers -> {0} \cup PacketNums]
  /\ afcPc \in [AfcCallers -> {"idle", "dispatch", "receive"}]
  /\ segmentsLeft \in [AfcCallers -> 0 .. MaxSegments]
  /\ performed \subseteq PacketNums /\ believed \subseteq PacketNums

\* What a call takes for done, the device has done: an answer that comes after
\* its call has given up, and one for a packet the device has put together
\* from two, are nobody's; and so for the files it has opened (afc_receive_data, "Unexpected packet number").
BelievedIsPerformed ==
  /\ believed \subseteq performed
  /\ \A c \in AfcCallers : handle[c] # 0 => handle[c] \in performed
=============================================================================
