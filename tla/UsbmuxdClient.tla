--------------------------- MODULE UsbmuxdClient ---------------------------
(***************************************************************************)
(* The request half of libusbmuxd: usbmuxd_connect, usbmuxd_get_device_list *)
(* and the listen handshake of the device monitor, run by several threads  *)
(* of one process that share the globals use_tag and proto_version without *)
(* a lock.  Every call dials a socket of its own, numbers its request with *)
(* use_tag, waits for the daemon's RESULT and, when the daemon does not    *)
(* speak the binary protocol, switches proto_version and starts over.      *)
(*                                                                         *)
(* A thread is a program counter; each step makes at most one access to a  *)
(* global (the build is unoptimised, "use_tag++" is a load and a store), so *)
(* the test of proto_version and the store after it are two steps.  The    *)
(* usbmuxd daemon is outside src/: it is modelled from what the client     *)
(* does with its answers.                                                  *)
(***************************************************************************)
EXTENDS Integers

CONSTANTS
  Callers,      \* application threads: usbmuxd_connect, usbmuxd_get_device_list
  Monitors,     \* device_monitor threads: usbmuxd_listen
  Speaks,       \* the protocol versions the daemon understands
  Refusals,     \* the results with which it may refuse any request
  MaxDevices,   \* bound: records one device list can carry
  MaxTag,       \* bound: a call only begins while use_tag < MaxTag
  MaxCrashes    \* bound: how often the daemon dies

ASSUME ThreadsDisjoint == Callers \cap Monitors = {}
ASSUME SpeaksSomething == Speaks \subseteq {0, 1} /\ Speaks # {}
ASSUME BoundsAreNaturals == MaxDevices \in Nat /\ MaxTag \in Nat /\ MaxCrashes \in Nat

Threads == Callers \cup Monitors

\* enum usbmuxd_result, and what "uint32_t res = -1" reads as an int.
RESULT_OK          == 0
RESULT_BADCOMMAND  == 1
RESULT_BADDEV      == 2
RESULT_CONNREFUSED == 3
RESULT_BADVERSION  == 6
Unset              == -1
Results == {RESULT_OK, RESULT_BADCOMMAND, RESULT_BADDEV, RESULT_CONNREFUSED,
            RESULT_BADVERSION}
ASSUME RefusalsAreResults == Refusals \subseteq Results \ {RESULT_OK, RESULT_BADVERSION}

VARIABLES
  use_tag,        \* static int use_tag
  proto_version,  \* static int proto_version
  pc,             \* where each thread is
  call,           \* the operation each thread is in
  reg,            \* the register of "use_tag++"
  msg,            \* the request under construction: tag and body format
  want,           \* the tag argument usbmuxd_get_result was called with
  attempts,       \* dials of the current call
  sock,           \* each thread's connection, as both ends see it
  answered,       \* history: the result code this attempt read off the socket
  retval,         \* the return value of the call (1 stands for a descriptor)
  overlapped,     \* history: has a call begun while another was in progress
  daemonUp,       \* is the daemon accepting connections
  crashes         \* how often it has died

shared == <<use_tag, proto_version>>
steady == <<overlapped, daemonUp, crashes>>
vars == <<use_tag, proto_version, pc, call, reg, msg, want, attempts, sock,
          answered, retval, overlapped, daemonUp, crashes>>

Calls(t) == IF t \in Monitors THEN {"listen"} ELSE {"connect", "list"}

NoMessage == [tag |-> 0, format |-> 0]
NoRequest == [tag |-> Unset, format |-> Unset, version |-> Unset]
NoReply   == [tag |-> Unset, result |-> Unset]
Closed    == [state |-> "closed", request |-> NoRequest, reply |-> NoReply,
              verdict |-> Unset]
Dialled   == [Closed EXCEPT !.state = "open"]

Init ==
  /\ use_tag = 0
  /\ proto_version = 0
  /\ pc = [t \in Threads |-> "idle"]
  /\ call = [t \in Threads |-> "none"]
  /\ reg = [t \in Threads |-> 0]
  /\ msg = [t \in Threads |-> NoMessage]
  /\ want = [t \in Threads |-> 0]
  /\ attempts = [t \in Threads |-> 0]
  /\ sock = [t \in Threads |-> Closed]
  /\ answered = [t \in Threads |-> Unset]
  /\ retval = [t \in Threads |-> Unset]
  /\ overlapped = FALSE
  /\ daemonUp = TRUE
  /\ crashes = 0

Goto(t, from, to) == pc[t] = from /\ pc' = [pc EXCEPT ![t] = to]

-----------------------------------------------------------------------------
(* The calls, one step per access to the shared globals or to the socket.  *)

Begin(t) ==
  /\ use_tag < MaxTag
  /\ Goto(t, "idle", "dial")
  /\ \E c \in Calls(t) : call' = [call EXCEPT ![t] = c]
  /\ overlapped' = (overlapped \/ \E s \in Threads : pc[s] # "idle")
  /\ UNCHANGED <<shared, daemonUp, crashes, reg, msg, want, attempts, sock, answered, retval>>

\* connect_usbmuxd_socket finds the daemon.
Dial(t) ==
  /\ daemonUp
  /\ Goto(t, "dial", "load")
  /\ sock' = [sock EXCEPT ![t] = Dialled]
  /\ attempts' = [attempts EXCEPT ![t] = @ + 1]
  /\ answered' = [answered EXCEPT ![t] = Unset]
  /\ UNCHANGED <<shared, steady, call, reg, msg, want, retval>>

\* A slip: every caller polls for the daemon as the monitor does.
DialRefusedPolls(t) == pc[t] = "dial" /\ FALSE

\* It does not: connect and list give up at once, the monitor's
\* usbmuxd_listen_poll sleeps and tries again (it waits for Dial).
DialRefused(t) ==
  /\ ~daemonUp
  /\ call[t] \in {"connect", "list"}
  /\ Goto(t, "dial", "returned")
  /\ retval' = [retval EXCEPT ![t] = -1]
  /\ UNCHANGED <<shared, steady, call, reg, msg, want, attempts, sock, answered>>

LoadTag(t) ==
  /\ Goto(t, "load", "store")
  /\ reg' = [reg EXCEPT ![t] = use_tag]
  /\ UNCHANGED <<shared, steady, call, msg, want, attempts, sock, answered, retval>>

StoreTag(t) ==
  /\ Goto(t, "store", "argument")
  /\ use_tag' = reg[t] + 1
  /\ reg' = [reg EXCEPT ![t] = 0]
  /\ UNCHANGED <<proto_version, steady, call, msg, want, attempts, sock,
                 answered, retval>>

\* A slip: the request carries the tag from before the increment.
PassTagEarly(t) ==
  /\ Goto(t, "argument", "format")
  /\ msg' = [msg EXCEPT ![t] = [@ EXCEPT !.tag = use_tag - 1]]
  /\ UNCHANGED <<shared, steady, call, reg, want, attempts, sock, answered, retval>>

\* send_listen_packet(sfd, use_tag) / send_connect_packet(sfd, use_tag, ...):
\* the tag argument is read ...
PassTag(t) ==
  /\ Goto(t, "argument", "format")
  /\ msg' = [msg EXCEPT ![t] = [@ EXCEPT !.tag = use_tag]]
  /\ UNCHANGED <<shared, steady, call, reg, want, attempts, sock, answered, retval>>

\* ... and proto_version picks a plist or a binary body.
FormatRequest(t) ==
  /\ Goto(t, "format", "send")
  /\ msg' = [msg EXCEPT ![t] = [@ EXCEPT !.format = proto_version]]
  /\ UNCHANGED <<shared, steady, call, reg, want, attempts, sock, answered, retval>>

\* send_packet reads proto_version once more, for the header.
SendRequest(t) ==
  /\ sock[t].state = "open"
  /\ Goto(t, "send", "await")
  /\ LET request == [tag |-> msg[t].tag, format |-> msg[t].format,
                     version |-> proto_version]
     IN  sock' = [sock EXCEPT ![t] = [@ EXCEPT !.request = request]]
  /\ msg' = [msg EXCEPT ![t] = NoMessage]
  /\ UNCHANGED <<shared, steady, call, reg, want, attempts, answered, retval>>

\* The daemon has gone: the send may still be accepted by the local stack ...
SendIntoVoid(t) ==
  /\ sock[t].state = "eof"
  /\ Goto(t, "send", "await")
  /\ msg' = [msg EXCEPT ![t] = NoMessage]
  /\ UNCHANGED <<shared, steady, call, reg, want, attempts, sock, answered, retval>>

\* ... or fail.  connect and listen close the socket; get_device_list
\* returns without closing it.
SendFails(t) ==
  /\ sock[t].state = "eof"
  /\ Goto(t, "send", "returned")
  /\ retval' = [retval EXCEPT ![t] = -1]
  /\ sock' = IF call[t] = "list" THEN sock ELSE [sock EXCEPT ![t] = [@ EXCEPT !.state = "closed"]]
  /\ msg' = [msg EXCEPT ![t] = NoMessage]
  /\ UNCHANGED <<shared, steady, call, reg, want, attempts, answered>>

\* The call of usbmuxd_get_result reads use_tag again for its tag argument.
AwaitResult(t) ==
  /\ Goto(t, "await", "receive")
  /\ want' = [want EXCEPT ![t] = use_tag]
  /\ UNCHANGED <<shared, steady, call, reg, msg, attempts, sock, answered, retval>>

(* usbmuxd_get_result: the return value and *result.  A RESULT with another *)
(* tag gives 0.  No packet within 5 s gives -EPROTO; the end of the stream *)
(* gives -errno, and recv returning 0 leaves errno as it was, so -0 too.   *)
GetResult(t) ==
  IF sock[t].reply # NoReply
  THEN IF sock[t].reply.tag = want[t]
       THEN {[ret |-> 1, res |-> sock[t].reply.result]}
       ELSE {[ret |-> 0, res |-> Unset]}
  ELSE {[ret |-> r, res |-> Unset] :
          r \in IF sock[t].state = "eof" THEN {-1, 0} ELSE {-1}}

\* A slip: usbmuxd_connect tests the answer the way usbmuxd_listen does.
AcceptsUnlessRefused(c, o) == ~(o.ret # 0 /\ o.res # RESULT_OK)

\* When each caller takes the handshake for done.
Accepts(c, o) ==
  IF c = "listen" THEN ~(o.ret # 0 /\ o.res # RESULT_OK)
                  ELSE o.ret # 0 /\ o.res = RESULT_OK

\* "(res == RESULT_BADVERSION) && (proto_version != 1)", a test of its own.
Retries(o) == o.res = RESULT_BADVERSION /\ proto_version # 1

\* What the caller gets when it neither accepts nor retries.
FailureValue(c, o) == IF c = "list" THEN o.res ELSE -1

Consume(t, state) ==
  /\ sock' = [sock EXCEPT ![t] = [@ EXCEPT !.state = state, !.reply = NoReply]]
  /\ answered' = [answered EXCEPT ![t] = sock[t].reply.result]
  /\ want' = [want EXCEPT ![t] = 0]

\* connect and listen hand out the descriptor; get_device_list reads records
\* until none comes for a second, closes and returns how many there were.
ReceiveAccepted(t) ==
  /\ Goto(t, "receive", "returned")
  /\ \E o \in GetResult(t) : Accepts(call[t], o)
  /\ IF call[t] = "list"
     THEN /\ \E n \in 0..MaxDevices : retval' = [retval EXCEPT ![t] = n]
          /\ Consume(t, "closed")
     ELSE /\ retval' = [retval EXCEPT ![t] = 1]
          /\ Consume(t, sock[t].state)
  /\ UNCHANGED <<shared, steady, call, reg, msg, attempts>>

\* BADVERSION while proto_version still is 0, as any number of threads may
\* find it; connect closes its socket only after the store.
ReceiveBadVersion(t) ==
  /\ Goto(t, "receive", "switch")
  /\ \E o \in GetResult(t) : ~Accepts(call[t], o) /\ Retries(o)
  /\ Consume(t, IF call[t] = "connect" THEN sock[t].state ELSE "closed")
  /\ UNCHANGED <<shared, steady, call, reg, msg, attempts, retval>>

\* Slips: the version is not switched, or toggled, or the result is stored.
SwitchVersionNot(t) ==
  /\ Goto(t, "switch", "dial")
  /\ sock' = [sock EXCEPT ![t] = [@ EXCEPT !.state = "closed"]]
  /\ UNCHANGED <<shared, steady, call, reg, msg, want, attempts, answered, retval>>

SwitchVersionToggles(t) ==
  /\ Goto(t, "switch", "dial")
  /\ proto_version' = 1 - proto_version
  /\ sock' = [sock EXCEPT ![t] = [@ EXCEPT !.state = "closed"]]
  /\ UNCHANGED <<use_tag, steady, call, reg, msg, want, attempts, answered, retval>>

SwitchVersionStoresResult(t) ==
  /\ Goto(t, "switch", "dial")
  /\ proto_version' = answered[t]
  /\ sock' = [sock EXCEPT ![t] = [@ EXCEPT !.state = "closed"]]
  /\ UNCHANGED <<use_tag, steady, call, reg, msg, want, attempts, answered, retval>>

\* "proto_version = 1; goto retry", whoever has stored it in between.
SwitchVersion(t) ==
  /\ Goto(t, "switch", "dial")
  /\ proto_version' = 1
  /\ sock' = [sock EXCEPT ![t] = [@ EXCEPT !.state = "closed"]]
  /\ UNCHANGED <<use_tag, steady, call, reg, msg, want, attempts, answered, retval>>

ReceiveRefused(t) ==
  /\ Goto(t, "receive", "returned")
  /\ \E o \in GetResult(t) :
       /\ ~Accepts(call[t], o) /\ ~Retries(o)
       /\ retval' = [retval EXCEPT ![t] = FailureValue(call[t], o)]
  /\ Consume(t, "closed")
  /\ UNCHANGED <<shared, steady, call, reg, msg, attempts>>

\* The application is done with the result: usbmuxd_disconnect, or the
\* monitor has lost the connection and listens again.
Finish(t) ==
  /\ Goto(t, "returned", "idle")
  /\ call' = [call EXCEPT ![t] = "none"]
  /\ sock' = [sock EXCEPT ![t] = Closed]
  /\ answered' = [answered EXCEPT ![t] = Unset]
  /\ retval' = [retval EXCEPT ![t] = Unset]
  /\ attempts' = [attempts EXCEPT ![t] = 0]
  /\ UNCHANGED <<shared, steady, reg, msg, want>>

-----------------------------------------------------------------------------
(* The daemon (external).                                                  *)

\* A version it does not speak is BADVERSION; a body that does not fit the
\* header may be refused, a connect can fail on the device's side, and any
\* request may be refused for reasons of its own.
Verdicts(c, request) ==
  IF request.version \notin Speaks THEN {RESULT_BADVERSION}
  ELSE {RESULT_OK} \cup Refusals
       \cup (IF request.format # request.version THEN {RESULT_BADCOMMAND} ELSE {})
       \cup (IF c = "connect" THEN {RESULT_BADDEV, RESULT_CONNREFUSED} ELSE {})

DaemonAnswers(t) ==
  /\ daemonUp
  /\ sock[t].state = "open"
  /\ sock[t].request # NoRequest
  /\ \E r \in Verdicts(call[t], sock[t].request) :
       LET reply == [tag |-> sock[t].request.tag, result |-> r]
       IN  sock' = [sock EXCEPT ![t] = [@ EXCEPT !.request = NoRequest, !.verdict = r,
                                                 !.reply = reply]]
  /\ UNCHANGED <<shared, steady, pc, call, reg, msg, want, attempts, answered, retval>>

\* Its death ends every stream; replies in flight may or may not be lost.
DaemonDies ==
  /\ daemonUp
  /\ crashes < MaxCrashes
  /\ daemonUp' = FALSE
  /\ crashes' = crashes + 1
  /\ \E lost \in SUBSET Threads :
       sock' = [t \in Threads |->
         IF sock[t].state # "open" THEN sock[t]
         ELSE [sock[t] EXCEPT !.state = "eof", !.request = NoRequest,
                              !.reply = IF t \in lost THEN NoReply ELSE @]]
  /\ UNCHANGED <<shared, overlapped, pc, call, reg, msg, want, attempts, answered, retval>>

DaemonStarts ==
  /\ ~daemonUp
  /\ daemonUp' = TRUE
  /\ UNCHANGED <<shared, overlapped, crashes, pc, call, reg, msg, want, attempts, sock,
                 answered, retval>>

ThreadStep(t) ==
  \/ Dial(t) \/ DialRefused(t) \/ LoadTag(t) \/ StoreTag(t)
  \/ PassTag(t) \/ FormatRequest(t) \/ SendRequest(t) \/ SendIntoVoid(t) \/ SendFails(t)
  \/ AwaitResult(t)
  \/ ReceiveAccepted(t) \/ ReceiveBadVersion(t) \/ SwitchVersion(t) \/ ReceiveRefused(t)
  \/ Finish(t)

Next ==
  \/ \E t \in Threads : Begin(t) \/ ThreadStep(t) \/ DaemonAnswers(t)
  \/ DaemonDies
  \/ DaemonStarts

Spec == Init /\ [][Next]_vars

\* A started thread keeps running: the receive has a 5 s timeout and the dial
\* fails at once, so no step of a caller waits for the daemon.
FairSpec == Spec /\ \A t \in Threads : WF_vars(ThreadStep(t))

-----------------------------------------------------------------------------
PCs == {"idle", "dial", "load", "store", "argument", "format", "send", "await", "receive",
        "switch", "returned"}

Requests == [tag : Nat \cup {Unset}, format : {0, 1, Unset}, version : {0, 1, Unset}]
Replies  == [tag : Nat \cup {Unset}, result : Results \cup {Unset}]
Sockets  == [state : {"closed", "open", "eof"}, request : Requests, reply : Replies,
             verdict : Results \cup {Unset}]

\* Type invariant: every variable keeps the range of its C declaration.
TypeOK ==
  /\ use_tag \in Nat
  /\ proto_version \in {0, 1}
  /\ pc \in [Threads -> PCs]
  /\ call \in [Threads -> {"none", "connect", "list", "listen"}]
  /\ reg \in [Threads -> Nat]
  /\ msg \in [Threads -> [tag : Nat, format : {0, 1}]]
  /\ want \in [Threads -> Nat]
  /\ attempts \in [Threads -> Nat]
  /\ sock \in [Threads -> Sockets]
  /\ answered \in [Threads -> Results \cup {Unset}]
  /\ retval \in [Threads -> Int]
  /\ overlapped \in BOOLEAN
  /\ daemonUp \in BOOLEAN
  /\ crashes \in Nat

Returned(t, c) == pc[t] = "returned" /\ call[t] = c

\* usbmuxd_connect hands out a descriptor only for a connection the daemon
\* has accepted, whatever the other threads do to use_tag and proto_version,
\* and a connect or listen that fails leaves no socket of its own behind.
ConnectIsAcceptedOrClosed ==
  \A t \in Threads :
    /\ Returned(t, "connect") /\ retval[t] > 0 => sock[t].verdict = RESULT_OK
    /\ pc[t] = "returned" /\ call[t] \in {"connect", "listen"} /\ retval[t] < 0
       => sock[t].state = "closed"

\* No call starts over more than once, even when several threads pass the
\* test of proto_version together and each stores the new version: a store
\* never takes another thread back to the old one.
AtMostOneRetry == \A t \in Threads : attempts[t] <= 2

\* A request the daemon accepted, and whose acceptance was read, is reported
\* so: a connect as a descriptor, a list as a count and not as -1.
AcceptedIsReported ==
  \A t \in Threads :
    answered[t] = RESULT_OK => /\ Returned(t, "connect") => retval[t] > 0
                               /\ Returned(t, "list") => retval[t] >= 0

\* usbmuxd_get_device_list returns a number of devices, and not a negative
\* value, only when the daemon did list them (usbmuxd.h).
ListCountIsACount ==
  \A t \in Threads :
    Returned(t, "list") /\ retval[t] >= 0 => sock[t].verdict = RESULT_OK

\* A number that is no count is one of the daemon's own refusals: the client
\* has not brought it about with a version it could have switched, or with a
\* body that does not fit its header.
MiscountIsARefusal ==
  \A t \in Threads :
    Returned(t, "list") /\ retval[t] >= 0 => sock[t].verdict \in {RESULT_OK} \cup Refusals

\* usbmuxd_listen succeeds on an answer only if that answer is RESULT_OK.
ListenIsAccepted ==
  \A t \in Threads :
    Returned(t, "listen") /\ retval[t] > 0 /\ answered[t] # Unset
    => answered[t] = RESULT_OK

\* As long as no two calls of the process have overlapped, the daemon's
\* acceptance is reported, a listen is not taken for accepted on a refusal, and
\* a list returns no number but a count or the code of a refusal that was not
\* the client's doing.
SerialCallsAreHonest ==
  ~overlapped => AcceptedIsReported /\ ListenIsAccepted /\ MiscountIsARefusal

\* Every connect and every device list returns, however often the daemon
\* dies and in whatever order the threads switch the protocol.
CallsReturn ==
  \A t \in Callers : pc[t] # "idle" ~> pc[t] = "idle"

=============================================================================
