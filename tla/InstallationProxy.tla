-------------------------- MODULE InstallationProxy --------------------------
(***************************************************************************)
(* libimobiledevice's installation proxy client.  An operation with a      *)
(* callback starts a status updater, a thread that receives the progress   *)
(* of the operation; one without performs it in the caller.  The field     *)
(* status_updater tells whether an operation is in progress: it is tested  *)
(* and written without the mutex by the caller, and cleared under it by    *)
(* the updater.  instproxy_client_free takes no mutex at all.              *)
(*                                                                         *)
(* One thread of the application makes the calls, as ideviceinstaller      *)
(* does.  A connection used after it was freed crashes the program or      *)
(* fails the call.  The device is outside src/.                            *)
(***************************************************************************)
EXTENDS Integers, Sequences, FiniteSets

CONSTANTS
  MaxCommands,  \* bound: calls on the client
  MaxStatuses   \* bound: messages of the device

ASSUME CommandsAreCounted == MaxCommands \in Nat /\ MaxStatuses \in Nat

\* The updaters in the order of their creation; 0 is the caller itself.
Updaters == 1 .. MaxCommands
Performers == 0 .. MaxCommands
\* install, upgrade, uninstall, archive, restore and remove_archive.
Operations == {"async", "sync"}
Queries == {"browse", "lookup"}

VARIABLES
  ipMutex,        \* its holder, or "free"
  ipParent,       \* client->parent: "live", "dangling" or "null"
  statusUpdater,  \* client->status_updater, 0 for NULL
  ipPc, ipCall,   \* the caller
  performer,      \* where each is in instproxy_perform_operation
  message,        \* its "dict"
  ipBorn,         \* updaters so far
  commands,       \* the device's queue of commands
  statuses,       \* what it has sent and nobody has received
  ipSent,         \* counter of MaxStatuses
  ipCalls,        \* counter of MaxCommands
  ipFreed,        \* client and mutex are freed
  ipCrashed

ipThreads == <<performer, message, ipBorn>>
ipWire == <<commands, statuses, ipSent>>
ipVars == <<ipMutex, ipParent, statusUpdater, ipPc, ipCall, performer, message, ipBorn,
            commands, statuses, ipSent, ipCalls, ipFreed, ipCrashed>>

\* instproxy_client_new has succeeded.
IpInit ==
  /\ ipMutex = "free" /\ ipParent = "live" /\ statusUpdater = 0
  /\ ipPc = "idle" /\ ipCall = "none"
  /\ performer = [k \in Performers |-> "unborn"] /\ message = [k \in Performers |-> "none"]
  /\ ipBorn = 0 /\ commands = <<>> /\ statuses = <<>>
  /\ ipSent = 0 /\ ipCalls = 0 /\ ipFreed = FALSE /\ ipCrashed = FALSE

-----------------------------------------------------------------------------
(* Receiving: the next message, or a failure after 30 seconds.             *)

IpArrives(m) ==
  \/ m = "failure" /\ UNCHANGED statuses
  \/ statuses # <<>> /\ m = Head(statuses) /\ statuses' = Tail(statuses)

Ends(m) == m \in {"complete", "error"}

-----------------------------------------------------------------------------
(* The caller.                                                             *)

IpGoto(from, to) == ~ipCrashed /\ ipPc = from /\ ipPc' = to
IpReturn(from) == IpGoto(from, "idle") /\ ipCall' = "none"

\* A slip: an operation does not ask whether another is in progress.
SlipIpBegin(c) ==
  /\ ipCalls < MaxCommands /\ ipCalls' = ipCalls + 1
  /\ IpGoto("idle", IF c = "free" THEN "free" ELSE "lock") /\ ipCall' = c
  /\ UNCHANGED <<ipMutex, ipParent, statusUpdater, ipThreads, ipWire, ipFreed, ipCrashed>>

\* A call; an operation returns INSTPROXY_E_OP_IN_PROGRESS when the field is
\* set, and instproxy_client_free ends the client.
IpBegin(c) ==
  /\ ipCalls < MaxCommands /\ ipCalls' = ipCalls + 1
  /\ IpGoto("idle", CASE c = "free" -> "free"
                      [] c \in Operations /\ statusUpdater # 0 -> "idle"
                      [] OTHER -> "lock")
  /\ ipCall' = IF ipPc' = "idle" THEN "none" ELSE c
  /\ UNCHANGED <<ipMutex, ipParent, statusUpdater, ipThreads, ipWire, ipFreed, ipCrashed>>

IpLock ==
  /\ ipMutex = "free" /\ ipMutex' = "caller"
  /\ IpGoto("lock", "send")
  /\ UNCHANGED <<ipParent, statusUpdater, ipCall, ipThreads, ipWire, ipCalls, ipFreed, ipCrashed>>

\* instproxy_send_command; the queries keep the mutex for their answer.
IpSendCommand ==
  /\ commands' = Append(commands, ipCall)
  /\ IpGoto("send", IF ipCall \in Queries THEN "await"
                    ELSE IF ipCall = "async" THEN "create" ELSE "perform")
  /\ ipMutex' = IF ipCall \in Queries THEN ipMutex ELSE "free"
  /\ performer' = IF ipCall = "sync" THEN [performer EXCEPT ![0] = "lock"] ELSE performer
  /\ UNCHANGED <<ipParent, statusUpdater, ipCall, message, ipBorn, statuses, ipSent, ipCalls,
                 ipFreed, ipCrashed>>

IpSendFails ==
  /\ IpReturn("send") /\ ipMutex' = "free"
  /\ UNCHANGED <<ipParent, statusUpdater, ipThreads, ipWire, ipCalls, ipFreed, ipCrashed>>

\* instproxy_browse goes on while the status is BrowsingApplications;
\* instproxy_lookup_archives takes one message.
IpAnswer ==
  /\ \E m \in {"failure", "status", "complete", "error"} :
       /\ IpArrives(m)
       /\ IF ipCall = "browse" /\ m = "status"
          THEN IpGoto("await", "await") /\ UNCHANGED <<ipCall, ipMutex>>
          ELSE IpReturn("await") /\ ipMutex' = "free"
  /\ UNCHANGED <<ipParent, statusUpdater, ipThreads, commands, ipSent, ipCalls, ipFreed,
                 ipCrashed>>

\* instproxy_create_status_updater: the thread runs before the caller has
\* stored its handle ...
CreateUpdater ==
  /\ IpGoto("create", "assign")
  /\ ipBorn' = ipBorn + 1
  /\ performer' = [performer EXCEPT ![ipBorn + 1] = "lock"]
  /\ UNCHANGED <<ipMutex, ipParent, statusUpdater, ipCall, message, ipWire, ipCalls, ipFreed,
                 ipCrashed>>

\* ... and g_thread_create may fail.
CreateFails ==
  /\ IpReturn("create") /\ statusUpdater' = 0
  /\ UNCHANGED <<ipMutex, ipParent, ipThreads, ipWire, ipCalls, ipFreed, ipCrashed>>

AssignUpdater ==
  /\ IpReturn("assign") /\ statusUpdater' = ipBorn
  /\ UNCHANGED <<ipMutex, ipParent, ipThreads, ipWire, ipCalls, ipFreed, ipCrashed>>

-----------------------------------------------------------------------------
(* instproxy_perform_operation, by an updater or, synchronously, by the    *)
(* caller.                                                                 *)

Performs(k, from, to) ==
  /\ ~ipCrashed /\ performer[k] = from
  /\ performer' = [performer EXCEPT ![k] = to]
\* Memory of a freed client, or a freed connection, was used.
MayCrash(danger) == ipCrashed' \in (IF danger THEN BOOLEAN ELSE {FALSE})
Left(k) == IF k = 0 THEN "unborn" ELSE "cleanup"

PerformLock(k) ==
  /\ ipMutex = "free" /\ ipMutex' = "updater"
  /\ Performs(k, "lock", "receive")
  /\ message' = [message EXCEPT ![k] = ipParent]
  /\ UNCHANGED <<ipParent, statusUpdater, ipPc, ipCall, ipBorn, ipWire, ipCalls, ipFreed,
                 ipCrashed>>

\* "message" holds the connection the call was given.
PerformReceive(k) ==
  /\ IF message[k] = "live" /\ ipParent = "live"
     THEN ipCrashed' = FALSE /\ \E m \in {"failure", "status", "complete", "error"} :
            /\ IpArrives(m)
            /\ message' = [message EXCEPT ![k] = m]
            /\ Performs(k, "receive", IF m = "failure" THEN Left(k) ELSE "callback")
     ELSE /\ MayCrash(message[k] # "null") /\ UNCHANGED statuses
          /\ message' = [message EXCEPT ![k] = "failure"]
          /\ Performs(k, "receive", Left(k))
  /\ ipMutex' = "free"
  /\ IF k = 0 /\ performer'[0] = "unborn" THEN IpReturn("perform")
     ELSE UNCHANGED <<ipPc, ipCall>>
  /\ UNCHANGED <<ipParent, statusUpdater, ipBorn, commands, ipSent, ipCalls, ipFreed>>

\* The callback, and the test of "while (ok && client->parent)".
PerformCallback(k) ==
  /\ Performs(k, "callback", IF Ends(message[k]) \/ ipParent = "null" THEN Left(k) ELSE "lock")
  /\ message' = [message EXCEPT ![k] = "none"]
  /\ IF k = 0 /\ performer'[0] = "unborn" THEN IpReturn("perform")
     ELSE UNCHANGED <<ipPc, ipCall>>
  /\ UNCHANGED <<ipMutex, ipParent, statusUpdater, ipBorn, ipWire, ipCalls, ipFreed, ipCrashed>>

\* instproxy_status_updater clears the field and ends.
UpdaterCleanup(k) ==
  /\ ipMutex = "free" /\ ipMutex' = "updater"
  /\ Performs(k, "cleanup", "unlock") /\ statusUpdater' = 0
  /\ MayCrash(ipFreed)
  /\ UNCHANGED <<ipParent, ipPc, ipCall, message, ipBorn, ipWire, ipCalls, ipFreed>>

UpdaterUnlock(k) ==
  /\ Performs(k, "unlock", "done") /\ ipMutex' = "free"
  /\ MayCrash(ipFreed)
  /\ UNCHANGED <<ipParent, statusUpdater, ipPc, ipCall, message, ipBorn, ipWire, ipCalls, ipFreed>>

-----------------------------------------------------------------------------
(* instproxy_client_free.                                                  *)

FreeParent ==
  /\ IpGoto("free", "null") /\ ipParent' = "dangling"
  /\ commands' = <<>> /\ statuses' = <<>>
  /\ UNCHANGED <<ipMutex, statusUpdater, ipCall, ipThreads, ipSent, ipCalls, ipFreed, ipCrashed>>

NullParent ==
  /\ IpGoto("null", "test") /\ ipParent' = "null"
  /\ UNCHANGED <<ipMutex, statusUpdater, ipCall, ipThreads, ipWire, ipCalls, ipFreed, ipCrashed>>

TestUpdater ==
  /\ IpGoto("test", IF statusUpdater = 0 THEN "destroy" ELSE "join")
  /\ UNCHANGED <<ipMutex, ipParent, statusUpdater, ipCall, ipThreads, ipWire, ipCalls, ipFreed,
                 ipCrashed>>

\* g_thread_join reads the field again, and returns at once for NULL.
JoinUpdater ==
  /\ statusUpdater # 0 => performer[statusUpdater] = "done"
  /\ IpGoto("join", "destroy")
  /\ UNCHANGED <<ipMutex, ipParent, statusUpdater, ipCall, ipThreads, ipWire, ipCalls, ipFreed,
                 ipCrashed>>

DestroyClient ==
  /\ IpGoto("destroy", "freed") /\ ipFreed' = TRUE
  /\ MayCrash(ipMutex # "free")
  /\ UNCHANGED <<ipMutex, ipParent, statusUpdater, ipCall, ipThreads, ipWire, ipCalls>>

-----------------------------------------------------------------------------
(* The device answers its commands in turn.                                *)

DeviceReports(m) ==
  /\ commands # <<>> /\ ipSent < MaxStatuses /\ ipSent' = ipSent + 1
  /\ statuses' = Append(statuses, m)
  /\ commands' = IF Ends(m) THEN Tail(commands) ELSE commands
  /\ UNCHANGED <<ipMutex, ipParent, statusUpdater, ipPc, ipCall, ipThreads, ipCalls, ipFreed,
                 ipCrashed>>

PerformStep(k) == PerformLock(k) \/ PerformReceive(k) \/ PerformCallback(k)
FreeStep == FreeParent \/ NullParent \/ TestUpdater \/ JoinUpdater \/ DestroyClient

IpNext ==
  \/ \E c \in Operations \cup Queries \cup {"free"} : IpBegin(c)
  \/ IpLock \/ IpSendCommand \/ IpSendFails \/ IpAnswer
  \/ CreateUpdater \/ CreateFails \/ AssignUpdater
  \/ \E k \in Performers : PerformStep(k)
  \/ \E k \in Updaters : UpdaterCleanup(k) \/ UpdaterUnlock(k)
  \/ FreeStep
  \/ \E m \in {"status", "complete", "error"} : DeviceReports(m)

IpSpec == IpInit /\ [][IpNext]_ipVars

-----------------------------------------------------------------------------
\* The types of the client and its threads (struct instproxy_client_private).
IpTypeOK ==
  /\ ipMutex \in {"free", "caller", "updater"} /\ ipParent \in {"live", "dangling", "null"}
  /\ statusUpdater \in Performers /\ ipBorn \in Performers
  /\ performer \in [Performers -> {"unborn", "lock", "receive", "callback", "cleanup",
                                   "unlock", "done"}]
  /\ Len(statuses) <= MaxStatuses /\ ipCrashed \in BOOLEAN

Performing == {k \in Performers : performer[k] \in {"lock", "receive", "callback"}}

\* An updater is somebody's as long as it may call back: the field is tested
\* and written without the mutex, and an updater that is faster than its
\* creator leaves it set for good, but two updaters never share the connection,
\* one that is still receiving is the one that instproxy_client_free will join,
\* and none is when that has returned (INSTPROXY_E_OP_IN_PROGRESS and
\* instproxy_client_free, installation_proxy.c).
UpdaterOwned ==
  /\ Cardinality(Performing) <= 1
  /\ \A k \in Performing \ {0} : statusUpdater = k \/ ipPc = "assign"
  /\ ipFreed => Performing = {}
=============================================================================
