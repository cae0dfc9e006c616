----------------------------- MODULE DeviceLink -----------------------------
(***************************************************************************)
(* libimobiledevice's device link service: the layer below mobilesync,     *)
(* both backup clients and the screenshot client.  A message is an array   *)
(* whose first item names it; the operators tell what each receiving       *)
(* function makes of one, and DlExchange plays the version exchange.       *)
(***************************************************************************)
EXTENDS Integers

\* A message: its name, how many items follow it, and what the first is.  A
\* receive that fails, or a property list of another kind, has a name of its
\* own.
DlNames == {"VersionExchange", "DeviceReady", "ProcessMessage", "Disconnect", "failure", "other"}

\* device_link_service_get_message.
GetMessage(msg) == IF msg.name \in {"failure", "other"} THEN "none" ELSE msg.name

\* device_link_service_receive_message.
ReceiveMessage(msg) ==
  CASE msg.name = "failure" -> "MUX_ERROR"
    [] GetMessage(msg) = "none" -> "PLIST_ERROR"
    [] OTHER -> "SUCCESS"

\* device_link_service_receive_process_message: exactly one item.
ReceiveProcessMessage(msg) ==
  CASE msg.name = "failure" -> "MUX_ERROR"
    [] GetMessage(msg) = "ProcessMessage" /\ msg.items = 1 -> "SUCCESS"
    [] OTHER -> "PLIST_ERROR"

\* The device's version is not above ours.
VersionOk(device, ours) ==
  device[1] < ours[1] \/ (device[1] = ours[1] /\ device[2] <= ours[2])

\* device_link_service_version_exchange: the first message, its version, our
\* reply, and the second message.
DlExchange(greeting, version, ours, replySent, ready) ==
  CASE greeting.name = "failure" -> "MUX_ERROR"
    [] GetMessage(greeting) # "VersionExchange" \/ greeting.items < 2 -> "PLIST_ERROR"
    [] ~VersionOk(version, ours) -> "BAD_VERSION"
    [] ~replySent \/ ready.name = "failure" -> "MUX_ERROR"
    [] GetMessage(ready) # "DeviceReady" -> "PLIST_ERROR"
    [] OTHER -> "SUCCESS"

\* Every way the exchange may go, for versions around ours.
DlMessages == [name : DlNames, items : 0 .. 2]
DlOutcomes(ours, minors) ==
  {DlExchange(g, v, ours, s, r) : g \in DlMessages,
     v \in {ours[1] - 1, ours[1], ours[1] + 1} \X minors, s \in BOOLEAN, r \in DlMessages}
=============================================================================
