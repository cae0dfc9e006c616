--------------------------------- MODULE Asr ---------------------------------
(***************************************************************************)
(* asr.c of idevicerestore and restore_send_filesystem, which drives it:   *)
(* the image is announced, the device validates it by asking for pieces    *)
(* ("out of band" data), and is then sent the whole of it.                 *)
(*                                                                         *)
(* A message of the device is one plist.  asr_receive takes what one       *)
(* receive returns for a message, so one that comes in two pieces is lost, *)
(* and a receive that times out is a message that holds nothing.           *)
(* Lengths are small, and WordSize stands for 2^32.  The ASR service of    *)
(* the device is outside src/.                                             *)
(***************************************************************************)
EXTENDS Integers

CONSTANTS
  ConnectAttempts,   \* "attempts" of asr_open_with_timeout: 10
  PacketTries,       \* empty packets that are forgiven in a row: 5
  ChunkSize,         \* bytes of one send of the payload: 1450
  WordSize,          \* the values of an int and of an uint32_t
  FileLengths,       \* lengths of images
  MaxAsked           \* bound: requests of the device for out of band data

ASSUME AsrBounds ==
  /\ ConnectAttempts \in Nat \ {0} /\ PacketTries \in Nat /\ ChunkSize \in 1 .. WordSize
  /\ WordSize \in Nat \ {0} /\ FileLengths \subseteq Nat /\ MaxAsked \in Nat

VARIABLES
  asrPc, asrResult,
  tries,        \* connection attempts, then "attempts" of asr_perform_validation
  fileLength,   \* length of the image
  remaining,    \* i of asr_send_payload
  sentBytes,    \* bytes of the payload the device was sent
  asrWire,      \* external: the device's message: "none", "whole", "split", "rest"
  asrAsked,     \* external: what that message is
  deviceAwaits, \* external: what the device waits for before it sends again
  askedCount    \* external: requests so far

asrVars == <<asrPc, asrResult, tries, fileLength, remaining, sentBytes, asrWire, asrAsked,
             deviceAwaits, askedCount>>
asrDevice == <<asrWire, asrAsked, deviceAwaits, askedCount>>

AsrInit ==
  /\ asrPc = "connect" /\ asrResult = "none" /\ tries = 1 /\ fileLength \in FileLengths
  /\ remaining = 0 /\ sentBytes = 0
  /\ asrWire = "none" /\ asrAsked = "none" /\ deviceAwaits = "connection" /\ askedCount = 0

\* restore_send_filesystem closes the connection and returns.
AsrReturn(result) == asrPc' = "done" /\ asrResult' = result
AsrGoto(pc) == asrPc' = pc /\ UNCHANGED asrResult

\* asr_open_with_timeout.
AsrConnect ==
  /\ asrPc = "connect"
  /\ \/ AsrGoto("initiate") /\ deviceAwaits' = "nothing" /\ tries' = 0
     \/ /\ UNCHANGED deviceAwaits
        /\ IF tries >= ConnectAttempts THEN AsrReturn("error") /\ UNCHANGED tries
                                       ELSE tries' = tries + 1 /\ UNCHANGED <<asrPc, asrResult>>
  /\ UNCHANGED <<fileLength, remaining, sentBytes, asrWire, asrAsked, askedCount>>

-----------------------------------------------------------------------------
(* asr_receive.                                                            *)

\* What one receive makes of the message on the wire: the packet, no packet for
\* a piece of one or when nothing came in time, or an error; and what it leaves.
AsrReceived(next, packet) ==
  \/ asrWire = "none" /\ next = "none" /\ packet = "none"
  \/ asrWire = "whole" /\ next = "none" /\ packet = asrAsked
  \/ asrWire = "split" /\ next = "rest" /\ packet = "none"
  \/ asrWire = "rest" /\ next = "none" /\ packet = "none"
  \/ next = asrWire /\ packet = "error"

\* The Initiate message, of which nothing is looked at: not even that it came.
ReceiveInitiate ==
  /\ asrPc = "initiate"
  /\ \E next \in {"none", "rest", asrWire}, packet \in {asrAsked, "none", "error"} :
       /\ AsrReceived(next, packet) /\ asrWire' = next
       /\ IF packet = "error" THEN AsrReturn("error") ELSE AsrGoto("announce")
  /\ UNCHANGED <<tries, fileLength, remaining, sentBytes, asrAsked, deviceAwaits, askedCount>>

\* asr_perform_validation opens the image and sends its size.
AnnounceImage ==
  /\ asrPc = "announce"
  /\ \/ AsrReturn("error") /\ UNCHANGED deviceAwaits
     \/ AsrGoto("validate") /\ deviceAwaits' = "nothing"
  /\ UNCHANGED <<tries, fileLength, remaining, sentBytes, asrWire, asrAsked, askedCount>>

\* asr_handle_oob_data_request: the data goes out, or does not for want of a
\* length or an offset, or because the file is too short or the send fails, which
\* also frees the packet.
OutOfBand == {[sent |-> TRUE, freed |-> FALSE], [sent |-> FALSE, freed |-> FALSE],
              [sent |-> FALSE, freed |-> TRUE]}
\* Its result is not looked at, and the packet is freed again: there the program
\* may end.
ValidationPacket ==
  /\ asrPc = "validate"
  /\ \E next \in {"none", "rest", asrWire}, packet \in {asrAsked, "none", "error"} :
       /\ AsrReceived(next, packet) /\ asrWire' = next
       /\ \/ packet = "error" /\ AsrReturn("error") /\ UNCHANGED <<tries, deviceAwaits>>
          \/ /\ packet = "none" /\ UNCHANGED deviceAwaits
             /\ IF tries < PacketTries THEN tries' = tries + 1 /\ UNCHANGED <<asrPc, asrResult>>
                                       ELSE AsrReturn("error") /\ tries' = 0
          \/ /\ packet = "oob" /\ tries' = 0
             /\ \E way \in OutOfBand :
                  /\ deviceAwaits' = IF way.sent THEN "nothing" ELSE deviceAwaits
                  /\ \/ UNCHANGED <<asrPc, asrResult>>
                     \/ way.freed /\ AsrReturn("crashed")
          \/ packet = "payload" /\ tries' = 0 /\ AsrGoto("open") /\ UNCHANGED deviceAwaits
          \/ packet \in {"initiate", "other"} /\ tries' = 0 /\ AsrReturn("error") /\ UNCHANGED deviceAwaits
  /\ UNCHANGED <<fileLength, remaining, sentBytes, asrAsked, askedCount>>

-----------------------------------------------------------------------------
(* asr_send_payload.                                                       *)

\* A length as uint32_t, and as int.
Word(n) == n % WordSize
AsInt(n) == IF n >= WordSize \div 2 THEN n - WordSize ELSE n

OpenPayload ==
  /\ asrPc = "open"
  /\ \/ AsrReturn("error") /\ UNCHANGED remaining
     \/ AsrGoto("payload") /\ remaining' = AsInt(Word(fileLength))
  /\ UNCHANGED <<tries, fileLength, sentBytes, asrDevice>>

\* The size of the next chunk.
ChunkOf(left) == IF left < ChunkSize THEN left ELSE ChunkSize
\* A slip: what is less than a chunk is not sent.
SlipMorePayload(left) == left >= ChunkSize
MorePayload(left) == left > 0

PayloadChunk ==
  /\ asrPc = "payload" /\ MorePayload(remaining)
  /\ \/ AsrReturn("error") /\ UNCHANGED <<remaining, sentBytes>>
     \/ /\ sentBytes' = sentBytes + ChunkOf(remaining) /\ remaining' = remaining - ChunkSize
        /\ UNCHANGED <<asrPc, asrResult>>
  /\ UNCHANGED <<tries, fileLength, asrDevice>>

PayloadEnds ==
  /\ asrPc = "payload" /\ ~MorePayload(remaining) /\ AsrReturn("success")
  /\ UNCHANGED <<tries, fileLength, remaining, sentBytes, asrDevice>>

-----------------------------------------------------------------------------
\* The device sends its next message, whole or in two pieces; behind a piece that
\* is not read yet it is read with that piece, and lost.
DeviceMessage(kind, awaits) ==
  /\ deviceAwaits = "nothing" /\ asrWire \in {"none", "rest"} /\ asrAsked' = kind /\ deviceAwaits' = awaits
  /\ asrWire' \in IF asrWire = "none" THEN {"whole", "split"} ELSE {"rest"}
  /\ UNCHANGED <<asrPc, asrResult, tries, fileLength, remaining, sentBytes>>

\* The size of the image may have been sent before the device was ready for it.
AsrInitiates ==
  /\ asrAsked = "none" /\ UNCHANGED askedCount
  /\ DeviceMessage("initiate", IF asrPc \in {"initiate", "announce", "done"} THEN "info" ELSE "nothing")
AsrAsks ==
  /\ asrAsked # "none"
  /\ \/ askedCount < MaxAsked /\ DeviceMessage("oob", "data") /\ askedCount' = askedCount + 1
     \/ \E kind \in {"payload", "other"} : DeviceMessage(kind, "payload") /\ UNCHANGED askedCount

AsrNext ==
  \/ AsrConnect \/ ReceiveInitiate \/ AnnounceImage \/ ValidationPacket \/ OpenPayload
  \/ PayloadChunk \/ PayloadEnds \/ AsrInitiates \/ AsrAsks

AsrSpec == AsrInit /\ [][AsrNext]_asrVars

-----------------------------------------------------------------------------
AsrTypeOK ==
  /\ asrPc \in {"connect", "initiate", "announce", "validate", "open", "payload", "done"}
  /\ asrResult \in {"none", "error", "crashed", "success"} /\ tries \in 0 .. ConnectAttempts + PacketTries
  /\ fileLength \in FileLengths /\ remaining \in -WordSize .. WordSize /\ sentBytes \in Nat
  /\ asrWire \in {"none", "whole", "split", "rest"}
  /\ asrAsked \in {"none", "initiate", "oob", "payload", "other"}
  /\ deviceAwaits \in {"connection", "nothing", "info", "data", "payload"}
  /\ askedCount \in 0 .. MaxAsked

\* An image that an int can count is sent whole when restore_send_filesystem
\* reports success, and only after the device, which was given all it asked for,
\* has asked for it.
ImageSentWhole ==
  asrResult = "success" /\ fileLength < WordSize \div 2 =>
    sentBytes = fileLength /\ deviceAwaits = "payload"
=============================================================================
