----------------------------- MODULE MobileSync -----------------------------
(***************************************************************************)
(* libimobiledevice's mobilesync client: sessions that synchronise a data  *)
(* class, first from the device to the computer, then, once the device has *)
(* said it is ready, the other way.  One thread makes the calls, in any    *)
(* order; a call that waits for an answer takes whatever message comes     *)
(* next, and a receive may fail although the answer is on its way, or      *)
(* after it has read a part of it.                                         *)
(*                                                                         *)
(* Records, anchors and actions are not modelled.  The device is outside   *)
(* src/: it keeps to the protocol, may refuse or cancel, and ignores what  *)
(* does not fit the state it is in.                                        *)
(***************************************************************************)
EXTENDS DeviceLink, Sequences

CONSTANTS
  MaxSyncCalls,   \* bound: calls of the application
  SyncVersion,    \* MSYNC_VERSION_INT1 and MSYNC_VERSION_INT2
  SyncMinors      \* minor versions a device may have

ASSUME SyncCallsAreCounted == MaxSyncCalls \in Nat

VARIABLES
  syncPc,      \* "new", "idle", "failed", "freed", or the call that waits for its answer
  dataClass,   \* client->data_class is set
  direction,   \* client->direction
  sessions,    \* sessions started on this client
  cancelled,   \* history: a call has returned MOBILESYNC_E_CANCELLED
  syncCalls,   \* counter of MaxSyncCalls
  requests, answers,  \* the two streams
  syncDevice,  \* the device: "idle", "sending" or "receiving"
  lost,        \* history: a receive that failed has taken a message from the stream
  readied      \* history: the device has become ready for changes

syncVars == <<syncPc, dataClass, direction, sessions, cancelled, syncCalls, requests, answers,
              syncDevice, lost, readied>>

SyncInit ==
  /\ syncPc = "new" /\ dataClass = FALSE /\ direction = "from_device"
  /\ sessions = 0 /\ cancelled = FALSE /\ syncCalls = 0
  /\ requests = <<>> /\ answers = <<>> /\ syncDevice = "idle"
  /\ lost = FALSE /\ readied = FALSE

-----------------------------------------------------------------------------
\* mobilesync_client_new: the handshake.
SyncClientNew ==
  /\ syncPc = "new"
  /\ \E err \in DlOutcomes(SyncVersion, SyncMinors) :
       syncPc' = IF err = "SUCCESS" THEN "idle" ELSE "failed"
  /\ UNCHANGED <<dataClass, direction, sessions, cancelled, syncCalls, requests, answers,
                 syncDevice, lost, readied>>

\* mobilesync_client_free: a disconnect, and the end of the connection.
SyncClientFree ==
  /\ syncPc = "idle" /\ syncPc' = "freed"
  /\ requests' = <<>> /\ answers' = <<>> /\ syncDevice' = "idle"
  /\ UNCHANGED <<dataClass, direction, sessions, cancelled, syncCalls, lost, readied>>

\* A call begins and may send a request; the send may fail.
SyncCall ==
  /\ syncPc = "idle" /\ syncCalls < MaxSyncCalls /\ syncCalls' = syncCalls + 1
Send(request) == requests' = Append(requests, request)
EndSession == dataClass' = FALSE /\ direction' = "from_device"

\* mobilesync_start and its failures: the data class is set in any case.
Start ==
  /\ SyncCall /\ ~dataClass
  /\ \/ syncPc' = "start" /\ Send("start") /\ UNCHANGED <<dataClass, direction>>
     \/ /\ syncPc' = "idle" /\ UNCHANGED requests
        /\ dataClass' = TRUE /\ direction' = "from_device"
  /\ sessions' = sessions + 1
  /\ UNCHANGED <<cancelled, answers, syncDevice, lost, readied>>

\* mobilesync_finish and mobilesync_clear_all_records_on_device.
FinishSession ==
  /\ SyncCall /\ dataClass
  /\ \/ syncPc' = "finish" /\ Send("finish") /\ UNCHANGED <<dataClass, direction>>
     \/ syncPc' = "idle" /\ UNCHANGED requests /\ EndSession
  /\ UNCHANGED <<sessions, cancelled, answers, syncDevice, lost, readied>>
ClearAllRecords ==
  /\ SyncCall /\ dataClass
  /\ \/ syncPc' = "clear" /\ Send("clear")
     \/ syncPc' = "idle" /\ UNCHANGED requests
  /\ UNCHANGED <<dataClass, direction, sessions, cancelled, answers, syncDevice, lost, readied>>

\* Requests that wait for nothing: mobilesync_get_records,
\* mobilesync_acknowledge_changes_from_device, mobilesync_send_changes, which
\* needs the other direction, and mobilesync_cancel, which ends the session.
GetRecords ==
  /\ SyncCall /\ dataClass /\ (Send("get") \/ UNCHANGED requests)
  /\ UNCHANGED <<syncPc, dataClass, direction, sessions, cancelled, answers, syncDevice, lost,
                 readied>>
AcknowledgeChanges ==
  /\ SyncCall /\ dataClass /\ (Send("acknowledge") \/ UNCHANGED requests)
  /\ UNCHANGED <<syncPc, dataClass, direction, sessions, cancelled, answers, syncDevice, lost,
                 readied>>
MaySendChanges == dataClass /\ direction = "to_device"
SendChanges ==
  /\ SyncCall /\ MaySendChanges
  /\ Send("last_changes") \/ Send("changes") \/ UNCHANGED requests
  /\ UNCHANGED <<syncPc, dataClass, direction, sessions, cancelled, answers, syncDevice, lost,
                 readied>>
CancelSession ==
  /\ SyncCall /\ dataClass /\ (Send("cancel") \/ UNCHANGED requests)
  /\ EndSession
  /\ UNCHANGED <<syncPc, sessions, cancelled, answers, syncDevice, lost, readied>>

\* Calls that only wait: mobilesync_receive_changes,
\* mobilesync_ready_to_send_changes_from_computer, mobilesync_remap_identifiers.
ReceiveChanges ==
  /\ SyncCall /\ dataClass /\ syncPc' = "changes"
  /\ UNCHANGED <<dataClass, direction, sessions, cancelled, requests, answers, syncDevice, lost,
                 readied>>
ReadyToSendChanges ==
  /\ SyncCall /\ dataClass /\ direction = "from_device" /\ syncPc' = "ready"
  /\ UNCHANGED <<dataClass, direction, sessions, cancelled, requests, answers, syncDevice, lost,
                 readied>>
RemapIdentifiers ==
  /\ SyncCall /\ dataClass /\ direction = "to_device" /\ syncPc' = "remap"
  /\ UNCHANGED <<dataClass, direction, sessions, cancelled, requests, answers, syncDevice, lost,
                 readied>>

-----------------------------------------------------------------------------
(* The answer.                                                             *)

\* A receive that fails for want of time leaves the stream alone.  One that
\* fails after the length, inside the plist or in parsing it has eaten the
\* message; what it leaves of it makes the next ones fail, or eat another.
SyncReceives(m) ==
  \/ m = "failure" /\ UNCHANGED <<answers, lost>>
  \/ m = "failure" /\ answers # <<>> /\ answers' = Tail(answers) /\ lost' = TRUE
  \/ answers # <<>> /\ m = Head(answers) /\ answers' = Tail(answers) /\ UNCHANGED lost
SyncMessages == {"failure", "sync", "refuse", "cancel", "changes", "ready", "remap", "will_clear",
                 "finished"}

\* mobilesync_start sets the data class whatever came ...
Started ==
  /\ syncPc = "start" /\ \E m \in SyncMessages : SyncReceives(m)
  /\ syncPc' = "idle" /\ dataClass' = TRUE /\ direction' = "from_device"
  /\ UNCHANGED <<sessions, cancelled, syncCalls, requests, syncDevice, readied>>

\* ... mobilesync_finish clears it whatever came ...
Finished ==
  /\ syncPc = "finish" /\ \E m \in SyncMessages : SyncReceives(m)
  /\ syncPc' = "idle" /\ EndSession
  /\ UNCHANGED <<sessions, cancelled, syncCalls, requests, syncDevice, readied>>

\* ... and three others change nothing, not even when the device cancelled.
Answered ==
  /\ syncPc \in {"clear", "changes", "remap"} /\ syncPc' = "idle"
  /\ \E m \in SyncMessages : SyncReceives(m) /\ cancelled' = (cancelled \/ m = "cancel")
  /\ UNCHANGED <<dataClass, direction, sessions, syncCalls, requests, syncDevice, readied>>

\* A slip: the direction changes with whatever the device said.
SlipBecomesReady ==
  /\ syncPc = "ready" /\ syncPc' = "idle"
  /\ \E m \in SyncMessages \ {"failure"} :
       /\ SyncReceives(m) /\ cancelled' = (cancelled \/ m = "cancel")
       /\ direction' = "to_device" /\ Send("ping")
  /\ UNCHANGED <<dataClass, sessions, syncCalls, syncDevice, readied>>

\* The device is ready: a ping, and the direction changes.
BecomesReady ==
  /\ syncPc = "ready" /\ syncPc' = "idle"
  /\ \E m \in SyncMessages :
       /\ SyncReceives(m) /\ cancelled' = (cancelled \/ m = "cancel")
       /\ \/ m = "ready" /\ direction' = "to_device" /\ Send("ping")
          \/ UNCHANGED <<direction, requests>>  \* another message, or the ping fails
  /\ UNCHANGED <<dataClass, sessions, syncCalls, syncDevice, readied>>

-----------------------------------------------------------------------------
(* The device.                                                             *)

SyncReply(m) == answers' = Append(answers, m)
SyncDeviceHandles ==
  /\ requests # <<>> /\ requests' = Tail(requests)
  /\ LET r == Head(requests) IN
       CASE r = "start" ->
              \/ syncDevice' = "sending" /\ SyncReply("sync")
              \/ syncDevice' = "idle" /\ \E m \in {"refuse", "cancel"} : SyncReply(m)
         [] r = "get" /\ syncDevice = "sending" -> SyncReply("changes") /\ UNCHANGED syncDevice
         [] r = "acknowledge" /\ syncDevice = "sending" ->
              \/ SyncReply("changes") /\ UNCHANGED syncDevice
              \/ SyncReply("ready") /\ syncDevice' = "receiving"
         [] r = "last_changes" /\ syncDevice = "receiving" -> SyncReply("remap") /\ UNCHANGED syncDevice
         [] r = "clear" /\ syncDevice # "idle" -> SyncReply("will_clear") /\ UNCHANGED syncDevice
         [] r = "finish" -> syncDevice' = "idle" /\ SyncReply("finished")
         [] r = "cancel" -> syncDevice' = "idle" /\ UNCHANGED answers
         [] OTHER -> UNCHANGED <<answers, syncDevice>>
  /\ readied' = (readied \/ syncDevice' = "receiving")
  /\ UNCHANGED <<syncPc, dataClass, direction, sessions, cancelled, syncCalls, lost>>

SyncDeviceCancels ==
  /\ syncDevice # "idle" /\ syncDevice' = "idle" /\ SyncReply("cancel")
  /\ UNCHANGED <<syncPc, dataClass, direction, sessions, cancelled, syncCalls, requests, lost,
                 readied>>

SyncNext ==
  \/ SyncClientNew \/ SyncClientFree
  \/ Start \/ FinishSession \/ ClearAllRecords \/ GetRecords \/ AcknowledgeChanges \/ SendChanges
  \/ CancelSession \/ ReceiveChanges \/ ReadyToSendChanges \/ RemapIdentifiers
  \/ Started \/ Finished \/ Answered \/ BecomesReady
  \/ SyncDeviceHandles \/ SyncDeviceCancels

SyncSpec == SyncInit /\ [][SyncNext]_syncVars

-----------------------------------------------------------------------------
\* The types of struct mobilesync_client_private and of its streams.
SyncTypeOK ==
  /\ syncPc \in {"new", "idle", "failed", "freed", "start", "finish", "clear", "changes", "ready",
                 "remap"}
  /\ dataClass \in BOOLEAN /\ direction \in {"from_device", "to_device"}
  /\ sessions \in 0 .. MaxSyncCalls /\ syncDevice \in {"idle", "sending", "receiving"}

\* The client changes direction only inside a session, and only on a
\* connection on which the device has become ready, whatever is lost.  In the
\* first session the two stay together: while no call has returned
\* MOBILESYNC_E_CANCELLED and no message was lost to a failed receive, the
\* device is receiving or its cancellation is still to be read.  A later
\* session may read an old message, since mobilesync_cancel leaves the answers
\* of its session unread (MOBILESYNC_E_WRONG_DIRECTION, mobilesync.c).
DirectionFollowsDevice ==
  direction = "to_device" =>
    /\ dataClass /\ readied
    /\ sessions = 1 /\ ~cancelled /\ ~lost =>
                       \/ syncDevice = "receiving"
                       \/ \E i \in DOMAIN answers : answers[i] = "cancel"
                       \/ syncPc = "finish" \/ syncPc = "freed"
=============================================================================
