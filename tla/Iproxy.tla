-------------------------------- MODULE Iproxy --------------------------------
(***************************************************************************)
(* iproxy: main accepts one connection after the other into one struct     *)
(* client_data, a thread connects it to the device, a second (ctos)        *)
(* forwards what the client sends, a third (stoc) what the device sends.   *)
(* Both close the client's descriptor and tell the other to stop.          *)
(*                                                                         *)
(* A descriptor of a client is the number of its connection: one that      *)
(* comes later may have the same value in the program, which is what the   *)
(* property is about.  What is forwarded is left out; the client, the      *)
(* device and the sockets' peers are outside src/.                         *)
(***************************************************************************)
EXTENDS Integers

CONSTANT MaxConnections   \* bound: connections that are accepted

ASSUME IproxyBound == MaxConnections \in Nat

Forwarders == {"ctos", "stoc"}
OtherOne == [ctos |-> "stoc", stoc |-> "ctos"]

VARIABLES
  proxyMain, acceptor,
  forwarder,     \* where ctos and stoc are
  serving,       \* history: the connection each was started for
  connection,    \* connections accepted so far
  cfd, csfd,     \* fd and sfd of client_data: a connection, or -1
  stopping,      \* stop_ctos and stop_stoc
  clientOpen,    \* descriptors of clients that are open
  deviceOpen,    \* the descriptor of the device is open
  refused        \* history: connections nothing was found to connect to

proxyVars == <<proxyMain, acceptor, forwarder, serving, connection, cfd, csfd, stopping,
               clientOpen, deviceOpen, refused>>

IproxyInit ==
  /\ proxyMain = "accept" /\ acceptor = "none"
  /\ forwarder = [t \in Forwarders |-> "none"] /\ serving = [t \in Forwarders |-> 0]
  /\ connection = 0 /\ cfd = -1 /\ csfd = -1 /\ stopping = [t \in Forwarders |-> FALSE]
  /\ clientOpen = {} /\ deviceOpen = FALSE /\ refused = {}

-----------------------------------------------------------------------------
(* main and acceptor_thread.                                               *)

\* accept, whose failure is a descriptor too.
ProxyAccept ==
  /\ proxyMain = "accept" /\ connection < MaxConnections /\ proxyMain' = "joining"
  /\ connection' = connection + 1 /\ acceptor' = "list"
  /\ \/ cfd' = connection' /\ clientOpen' = clientOpen \cup {connection'}
     \/ cfd' = -1 /\ UNCHANGED clientOpen
  /\ UNCHANGED <<forwarder, serving, csfd, stopping, deviceOpen, refused>>

ProxyJoins ==
  /\ proxyMain = "joining" /\ acceptor = "ended" /\ proxyMain' = "accept" /\ acceptor' = "none"
  /\ UNCHANGED <<forwarder, serving, connection, cfd, csfd, stopping, clientOpen, deviceOpen, refused>>

\* Without a list, or with an empty one, it is "terminating": the client's
\* descriptor stays open.
ListDevices ==
  /\ acceptor = "list"
  /\ \/ acceptor' = "ended" /\ refused' = refused \cup {connection}
     \/ acceptor' = "connect" /\ UNCHANGED refused
  /\ UNCHANGED <<proxyMain, forwarder, serving, connection, cfd, csfd, stopping, clientOpen, deviceOpen>>

ConnectDevice ==
  /\ acceptor = "connect"
  /\ \/ /\ csfd' = -1 /\ acceptor' = "close" /\ UNCHANGED <<forwarder, serving, stopping, deviceOpen>>
     \/ /\ csfd' = connection /\ deviceOpen' = TRUE /\ acceptor' = "join"
        /\ stopping' = [stopping EXCEPT !["ctos"] = FALSE]
        /\ forwarder' = [forwarder EXCEPT !["ctos"] = "start"]
        /\ serving' = [serving EXCEPT !["ctos"] = connection]
  /\ UNCHANGED <<proxyMain, connection, cfd, clientOpen, refused>>

AcceptorJoins ==
  /\ acceptor = "join" /\ forwarder["ctos"] = "ended" /\ acceptor' = "close"
  /\ forwarder' = [forwarder EXCEPT !["ctos"] = "none"]
  /\ UNCHANGED <<proxyMain, serving, connection, cfd, csfd, stopping, clientOpen, deviceOpen, refused>>

AcceptorCloses ==
  /\ acceptor = "close" /\ acceptor' = "ended"
  /\ clientOpen' = clientOpen \ {cfd} /\ deviceOpen' = FALSE
  /\ UNCHANGED <<proxyMain, forwarder, serving, connection, cfd, csfd, stopping, refused>>

-----------------------------------------------------------------------------
(* run_ctos_loop and run_stoc_loop.                                        *)

ForwarderGoto(t, from, to) == forwarder[t] = from /\ forwarder' = [forwarder EXCEPT ![t] = to]
unforwarded == <<proxyMain, acceptor, connection, csfd, deviceOpen, refused>>

\* ctos starts stoc.
StartStoc ==
  /\ forwarder["ctos"] = "start" /\ forwarder' = [ctos |-> "test", stoc |-> "test"]
  /\ serving' = [serving EXCEPT !["stoc"] = serving["ctos"]]
  /\ stopping' = [stopping EXCEPT !["stoc"] = FALSE]
  /\ UNCHANGED <<unforwarded, cfd, clientOpen>>

\* The loop's condition.
ForwardTests(t) ==
  /\ ForwarderGoto(t, "test", IF ~stopping[t] /\ cfd > 0 /\ csfd > 0 THEN "receive" ELSE "close")
  /\ UNCHANGED <<unforwarded, serving, cfd, stopping, clientOpen>>

\* recv_buf_timeout, five seconds long: data, nothing, or an error, which the
\* peer's end of the stream is too.  A descriptor the other has closed gives none.
ForwardReceives(t) ==
  /\ \/ (t = "ctos" => cfd \in clientOpen) /\ ForwarderGoto(t, "receive", "send")
     \/ ForwarderGoto(t, "receive", "test") \/ ForwarderGoto(t, "receive", "close")
  /\ UNCHANGED <<unforwarded, serving, cfd, stopping, clientOpen>>

\* send_buf: what is sent in part is not sent again.
ForwardSends(t) ==
  /\ \/ (t = "stoc" => cfd \in clientOpen) /\ ForwarderGoto(t, "send", "test")
     \/ ForwarderGoto(t, "send", "close")
  /\ UNCHANGED <<unforwarded, serving, cfd, stopping, clientOpen>>

\* close(cdata->fd), whatever it is by now.
ForwardCloses(t) ==
  /\ ForwarderGoto(t, "close", "mark") /\ clientOpen' = clientOpen \ {cfd}
  /\ UNCHANGED <<unforwarded, serving, cfd, stopping>>

ForwardMarks(t) ==
  /\ ForwarderGoto(t, "mark", "stop") /\ cfd' = -1
  /\ UNCHANGED <<unforwarded, serving, stopping, clientOpen>>

ForwardStops(t) ==
  /\ ForwarderGoto(t, "stop", IF t = "ctos" THEN "join" ELSE "ended")
  /\ stopping' = [stopping EXCEPT ![OtherOne[t]] = TRUE]
  /\ UNCHANGED <<unforwarded, serving, cfd, clientOpen>>

\* A slip: the thread of ctos ends without a pthread_join.
SlipJoinsStoc(stoc) == TRUE
\* ctos waits for stoc.
JoinsStoc(stoc) == stoc = "ended"
CtosJoins ==
  /\ forwarder["ctos"] = "join" /\ JoinsStoc(forwarder["stoc"])
  /\ forwarder' = [forwarder EXCEPT !["ctos"] = "ended"]
  /\ UNCHANGED <<unforwarded, serving, cfd, stopping, clientOpen>>

IproxyNext ==
  \/ ProxyAccept \/ ProxyJoins \/ ListDevices \/ ConnectDevice \/ AcceptorJoins \/ AcceptorCloses
  \/ StartStoc \/ CtosJoins
  \/ \E t \in Forwarders :
       \/ ForwardTests(t) \/ ForwardReceives(t) \/ ForwardSends(t) \/ ForwardCloses(t)
       \/ ForwardMarks(t) \/ ForwardStops(t)

IproxySpec == IproxyInit /\ [][IproxyNext]_proxyVars

-----------------------------------------------------------------------------
IproxyTypeOK ==
  /\ proxyMain \in {"accept", "joining"}
  /\ acceptor \in {"none", "list", "connect", "join", "close", "ended"}
  /\ forwarder \in [Forwarders -> {"none", "start", "test", "receive", "send", "close", "mark",
                                   "stop", "join", "ended"}]
  /\ connection \in 0 .. MaxConnections /\ serving \in [Forwarders -> 0 .. connection]
  /\ cfd \in {-1} \cup 1 .. connection /\ csfd \in {-1} \cup 1 .. connection
  /\ stopping \in [Forwarders -> BOOLEAN] /\ clientOpen \subseteq 1 .. connection
  /\ deviceOpen \in BOOLEAN /\ refused \subseteq 1 .. connection

\* The forwarders of a connection are gone before its descriptors may mean
\* another: neither closes, reads or stops one it was not started for, and before
\* the next is accepted nothing is open but clients that were refused.
ForwardersOutlived ==
  /\ \A t \in Forwarders : forwarder[t] \notin {"none", "ended"} =>
       serving[t] = connection /\ acceptor = "join"
  /\ proxyMain = "accept" => clientOpen \subseteq refused /\ ~deviceOpen
=============================================================================
