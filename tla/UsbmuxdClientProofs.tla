------------------------ MODULE UsbmuxdClientProofs ------------------------
(***************************************************************************)
(* Theorems about UsbmuxdClient for any number of threads.                 *)
(***************************************************************************)
EXTENDS UsbmuxdClient, TLAPS

USE DEF shared, steady

(***************************************************************************)
(* Facts about the records.                                                *)
(***************************************************************************)
LEMMA Constants ==
  /\ NoReply \in Replies /\ NoRequest \in Requests
  /\ NoMessage \in [tag : Nat, format : {0, 1}]
  /\ Unset \in Results \cup {Unset}
BY DEF Replies, Requests, NoReply, NoRequest, NoMessage, Results, Unset, RESULT_OK,
       RESULT_BADCOMMAND, RESULT_BADDEV, RESULT_CONNREFUSED, RESULT_BADVERSION

LEMMA ResultsAreInts == \A r \in Results \cup {Unset} : r \in Int
BY DEF Results, Unset, RESULT_OK, RESULT_BADCOMMAND, RESULT_BADDEV, RESULT_CONNREFUSED,
       RESULT_BADVERSION

LEMMA FreshSockets == Closed \in Sockets /\ Dialled \in Sockets
BY Constants DEF Closed, Dialled, Sockets

LEMMA SocketFields ==
  ASSUME NEW s \in Sockets
  PROVE  /\ s.state \in {"closed", "open", "eof"}
         /\ s.request \in Requests /\ s.reply \in Replies
         /\ s.reply.result \in Results \cup {Unset}
         /\ s.request.tag \in Nat \cup {Unset}
BY DEF Sockets, Requests, Replies

LEMMA SocketUpdates ==
  ASSUME NEW s \in Sockets, NEW st \in {"closed", "open", "eof"}, NEW rq \in Requests,
         NEW rp \in Replies, NEW v \in Results \cup {Unset}
  PROVE  /\ [s EXCEPT !.state = st] \in Sockets
         /\ [s EXCEPT !.request = rq] \in Sockets
         /\ [s EXCEPT !.state = st, !.reply = rp] \in Sockets
         /\ [s EXCEPT !.state = st, !.request = rq, !.reply = rp] \in Sockets
         /\ [s EXCEPT !.request = rq, !.verdict = v, !.reply = rp] \in Sockets
BY DEF Sockets

LEMMA VerdictsAreResults ==
  ASSUME NEW c, NEW r PROVE Verdicts(c, r) \subseteq Results
BY RefusalsAreResults DEF Verdicts, Results

LEMMA GetResultType ==
  ASSUME TypeOK, NEW t \in Threads, NEW o \in GetResult(t)
  PROVE  o \in [ret : {-1, 0, 1}, res : Results \cup {Unset}]
BY SocketFields DEF TypeOK, GetResult

LEMMA SocketsUpdate ==
  ASSUME TypeOK, NEW t \in Threads, NEW s \in Sockets, sock' = [sock EXCEPT ![t] = s]
  PROVE  sock' \in [Threads -> Sockets]
BY DEF TypeOK

LEMMA GotoType ==
  ASSUME TypeOK, NEW t \in Threads, NEW p \in PCs, NEW q \in PCs, Goto(t, p, q)
  PROVE  pc' \in [Threads -> PCs]
BY DEF TypeOK, Goto

\* The type invariant is inductive: every handler keeps every variable in range.
LEMMA TypeStep == TypeOK /\ [Next]_vars => TypeOK'
<1> SUFFICES ASSUME TypeOK, [Next]_vars PROVE TypeOK'
    OBVIOUS
<1>1. ASSUME NEW t \in Threads, Begin(t) PROVE TypeOK'
  <2>1. Calls(t) \subseteq {"none", "connect", "list", "listen"}
    BY DEF Calls
  <2> QED BY <1>1, <2>1, GotoType DEF TypeOK, PCs, Begin
<1>2. ASSUME NEW t \in Threads, Dial(t) PROVE TypeOK'
  BY <1>2, FreshSockets, Constants DEF TypeOK, PCs, Dial, Goto
<1>3. ASSUME NEW t \in Threads, DialRefused(t) PROVE TypeOK'
  BY <1>3 DEF TypeOK, PCs, DialRefused, Goto
<1>4. ASSUME NEW t \in Threads, LoadTag(t) PROVE TypeOK'
  BY <1>4 DEF TypeOK, PCs, LoadTag, Goto
<1>5. ASSUME NEW t \in Threads, StoreTag(t) PROVE TypeOK'
  BY <1>5 DEF TypeOK, PCs, StoreTag, Goto
<1>6. ASSUME NEW t \in Threads, PassTag(t) \/ FormatRequest(t) PROVE TypeOK'
  <2>1. /\ [msg[t] EXCEPT !.tag = use_tag] \in [tag : Nat, format : {0, 1}]
        /\ [msg[t] EXCEPT !.format = proto_version] \in [tag : Nat, format : {0, 1}]
    BY DEF TypeOK
  <2>2. CASE PassTag(t)
    BY <2>1, <2>2 DEF TypeOK, PCs, PassTag, Goto
  <2>3. CASE FormatRequest(t)
    BY <2>1, <2>3 DEF TypeOK, PCs, FormatRequest, Goto
  <2> QED BY <1>6, <2>2, <2>3
<1>7. ASSUME NEW t \in Threads, SendRequest(t) PROVE TypeOK'
  <2> DEFINE rq == [tag |-> msg[t].tag, format |-> msg[t].format, version |-> proto_version]
  <2>1. rq \in Requests
    BY DEF TypeOK, Requests
  <2>2. [sock[t] EXCEPT !.request = rq] \in Sockets
    <3>1. sock[t] \in Sockets
      BY DEF TypeOK
    <3> HIDE DEF rq
    <3> QED
      BY <2>1, <3>1 DEF Sockets
  <2>3. sock' \in [Threads -> Sockets]
    BY <1>7, <2>2, SocketsUpdate DEF SendRequest, TypeOK
  <2> QED BY <1>7, <2>3, Constants DEF TypeOK, PCs, SendRequest, Goto
<1>8. ASSUME NEW t \in Threads, SendIntoVoid(t) PROVE TypeOK'
  BY <1>8, Constants DEF TypeOK, PCs, SendIntoVoid, Goto
<1>9. ASSUME NEW t \in Threads, SendFails(t) PROVE TypeOK'
  <2>1. [sock[t] EXCEPT !.state = "closed"] \in Sockets
    <3>1. sock[t] \in Sockets
      BY DEF TypeOK
    <3> QED
      BY <3>1 DEF Sockets
  <2>2. sock' \in [Threads -> Sockets]
    BY <1>9, <2>1 DEF SendFails, TypeOK
  <2> QED BY <1>9, <2>2, Constants DEF TypeOK, PCs, SendFails, Goto
<1>10. ASSUME NEW t \in Threads, AwaitResult(t) PROVE TypeOK'
  BY <1>10 DEF TypeOK, PCs, AwaitResult, Goto
<1>11. ASSUME NEW t \in Threads, NEW st \in {"closed", "open", "eof"}, Consume(t, st)
       PROVE  /\ sock' \in [Threads -> Sockets]
              /\ answered' \in [Threads -> Results \cup {Unset}]
              /\ want' \in [Threads -> Nat]
  <2>1. [sock[t] EXCEPT !.state = st, !.reply = NoReply] \in Sockets
    BY Constants, SocketUpdates DEF TypeOK
  <2>2. sock[t].reply.result \in Results \cup {Unset}
    BY SocketFields DEF TypeOK
  <2> QED BY <1>11, <2>1, <2>2 DEF Consume, TypeOK
<1>12. ASSUME NEW t \in Threads, ReceiveAccepted(t) PROVE TypeOK'
  <2>1. retval' \in [Threads -> Int]
    <3>1. ASSUME NEW n \in 0..MaxDevices PROVE n \in Int
      OBVIOUS
    <3> QED BY <1>12, <3>1 DEF ReceiveAccepted, TypeOK
  <2>2. PICK st \in {"closed", "open", "eof"} : Consume(t, st)
    BY <1>12, SocketFields DEF ReceiveAccepted, TypeOK
  <2> QED BY <1>12, <1>11, <2>1, <2>2 DEF TypeOK, PCs, ReceiveAccepted, Goto
<1>13. ASSUME NEW t \in Threads, ReceiveBadVersion(t) \/ SwitchVersion(t) PROVE TypeOK'
  <2>1. CASE ReceiveBadVersion(t)
    <3>1. PICK st \in {"closed", "open", "eof"} : Consume(t, st)
      BY <2>1, SocketFields DEF ReceiveBadVersion, TypeOK
    <3> QED BY <1>11, <2>1, <3>1 DEF TypeOK, PCs, ReceiveBadVersion, Goto
  <2>2. CASE SwitchVersion(t)
    <3>1. [sock[t] EXCEPT !.state = "closed"] \in Sockets
      BY Constants, SocketUpdates DEF TypeOK
    <3>2. sock' \in [Threads -> Sockets]
      BY <2>2, <3>1 DEF SwitchVersion, TypeOK
    <3> QED BY <2>2, <3>2 DEF TypeOK, PCs, SwitchVersion, Goto
  <2> QED BY <1>13, <2>1, <2>2
<1>14. ASSUME NEW t \in Threads, ReceiveRefused(t) PROVE TypeOK'
  <2>1. Consume(t, "closed")
    BY <1>14 DEF ReceiveRefused
  <2>2. PICK o \in GetResult(t) : retval' = [retval EXCEPT ![t] = FailureValue(call[t], o)]
    BY <1>14 DEF ReceiveRefused
  <2>3. FailureValue(call[t], o) \in Int
    <3>1. o.res \in Results \cup {Unset}
      BY GetResultType
    <3>2. o.res \in Int
      BY <3>1, ResultsAreInts
    <3> QED BY <3>2 DEF FailureValue
  <2>4. retval' \in [Threads -> Int]
    BY <2>2, <2>3 DEF TypeOK
  <2> QED BY <1>14, <1>11, <2>1, <2>4 DEF TypeOK, PCs, ReceiveRefused, Goto
<1>15. ASSUME NEW t \in Threads, Finish(t) PROVE TypeOK'
  BY <1>15, FreshSockets, Constants, ResultsAreInts DEF TypeOK, PCs, Finish, Goto
<1>16. ASSUME NEW t \in Threads, DaemonAnswers(t) PROVE TypeOK'
  <2>1. PICK r \in Verdicts(call[t], sock[t].request) :
          sock' = [sock EXCEPT ![t] = [@ EXCEPT !.request = NoRequest, !.verdict = r,
                     !.reply = [tag |-> sock[t].request.tag, result |-> r]]]
    BY <1>16 DEF DaemonAnswers
  <2> DEFINE rp == [tag |-> sock[t].request.tag, result |-> r]
  <2>2. r \in Results
    BY VerdictsAreResults
  <2>3. rp \in Replies
    BY <2>2, SocketFields DEF Replies, TypeOK
  <2>4. [sock[t] EXCEPT !.request = NoRequest, !.verdict = r, !.reply = rp] \in Sockets
    <3> HIDE DEF rp
    <3>1. sock[t] \in Sockets /\ r \in Results \cup {Unset}
      BY <2>2 DEF TypeOK
    <3> QED BY <2>3, <3>1, Constants, SocketUpdates
  <2>5. sock' \in [Threads -> Sockets]
    BY <2>1, <2>4 DEF TypeOK
  <2> QED BY <1>16, <2>5 DEF TypeOK, DaemonAnswers
<1>17. CASE DaemonDies
  <2>1. PICK lost \in SUBSET Threads :
          sock' = [t \in Threads |->
            IF sock[t].state # "open" THEN sock[t]
            ELSE [sock[t] EXCEPT !.state = "eof", !.request = NoRequest,
                                 !.reply = IF t \in lost THEN NoReply ELSE @]]
    BY <1>17 DEF DaemonDies
  <2>2. ASSUME NEW t \in Threads
        PROVE  [sock[t] EXCEPT !.state = "eof", !.request = NoRequest,
                               !.reply = IF t \in lost THEN NoReply ELSE @] \in Sockets
    <3> DEFINE rp == IF t \in lost THEN NoReply ELSE sock[t].reply
    <3>1. sock[t] \in Sockets
      BY DEF TypeOK
    <3>2. rp \in Replies
      BY <3>1, SocketFields, Constants
    <3> HIDE DEF rp
    <3>3. [sock[t] EXCEPT !.state = "eof", !.request = NoRequest, !.reply = rp] \in Sockets
      BY <3>1, <3>2, Constants, SocketUpdates
    <3> QED BY <3>3 DEF rp
  <2>3. sock' \in [Threads -> Sockets]
    BY <2>1, <2>2 DEF TypeOK
  <2>4. /\ daemonUp' = FALSE /\ crashes' = crashes + 1
        /\ UNCHANGED <<shared, overlapped, pc, call, reg, msg, want, attempts, answered,
                       retval>>
    BY <1>17 DEF DaemonDies
  <2>5. daemonUp' \in BOOLEAN
    BY <2>4
  <2>6. crashes' \in Nat
    BY <2>4 DEF TypeOK
  <2> QED BY <2>3, <2>4, <2>5, <2>6 DEF TypeOK
<1>18. CASE DaemonStarts
  BY <1>18 DEF TypeOK, DaemonStarts
<1>19. CASE UNCHANGED vars
  BY <1>19 DEF TypeOK, vars
<1> QED
  BY <1>1, <1>2, <1>3, <1>4, <1>5, <1>6, <1>7, <1>8, <1>9, <1>10, <1>12, <1>13,
     <1>14, <1>15, <1>16, <1>17, <1>18, <1>19 DEF Next, ThreadStep

\* The globals, the sockets and the threads' locals keep their C ranges in
\* every reachable state, for any number of threads.
THEOREM TypeCorrect == Spec => []TypeOK
<1>1. Init => TypeOK
  <2>1. Init => overlapped \in BOOLEAN /\ daemonUp \in BOOLEAN
    BY DEF Init
  <2> QED BY <2>1, Constants, ResultsAreInts, FreshSockets DEF Init, TypeOK, PCs
<1> QED BY <1>1, TypeStep, PTL DEF Spec

-----------------------------------------------------------------------------
(***************************************************************************)
(* The sockets.  A connection carries at most one request and one answer,  *)
(* and the answer in flight is the daemon's verdict on this connection:    *)
(* that is what makes the result of one thread independent of the others.  *)
(***************************************************************************)
Quiet(t) == sock[t].request = NoRequest /\ sock[t].reply = NoReply

SocketOK(t) ==
  /\ pc[t] \in {"idle", "dial"} => sock[t].state = "closed"
  /\ pc[t] \in {"load", "store", "argument", "format", "send"} => Quiet(t)
  /\ sock[t].reply # NoReply => /\ sock[t].request = NoRequest
                               /\ sock[t].reply.result = sock[t].verdict
  /\ Returned(t, "connect") /\ retval[t] > 0 => /\ sock[t].request = NoRequest
                                                /\ sock[t].verdict = RESULT_OK
  /\ pc[t] = "returned" /\ call[t] \in {"connect", "listen"} /\ retval[t] < 0
     => sock[t].state = "closed"

SocketInv == \A t \in Threads : SocketOK(t)

LEMMA SocketFrame ==
  ASSUME NEW u \in Threads, SocketOK(u), pc'[u] = pc[u], call'[u] = call[u],
         sock'[u] = sock[u], retval'[u] = retval[u]
  PROVE  SocketOK(u)'
BY DEF SocketOK, Quiet, Returned

LEMMA SocketStep == TypeOK /\ SocketInv /\ [Next]_vars => SocketInv'
<1> SUFFICES ASSUME TypeOK, SocketInv, [Next]_vars, NEW u \in Threads PROVE SocketOK(u)'
    BY DEF SocketInv
<1> USE DEF Goto
<1>0. SocketOK(u) /\ sock[u] \in Sockets
  BY DEF SocketInv, TypeOK
<1>1. ASSUME NEW t \in Threads, Begin(t) \/ ThreadStep(t) \/ DaemonAnswers(t), t # u
      PROVE  SocketOK(u)'
  <2>1. pc'[u] = pc[u] /\ call'[u] = call[u] /\ sock'[u] = sock[u] /\ retval'[u] = retval[u]
    <3>1. CASE Begin(t) \/ DaemonAnswers(t)
      BY <1>1, <3>1 DEF Begin, DaemonAnswers, TypeOK
    <3>2. CASE Dial(t) \/ DialRefused(t) \/ LoadTag(t) \/ StoreTag(t) \/ PassTag(t)
               \/ FormatRequest(t)
      BY <1>1, <3>2 DEF Dial, DialRefused, LoadTag, StoreTag, PassTag, FormatRequest, TypeOK
    <3>3. CASE SendRequest(t) \/ SendIntoVoid(t) \/ SendFails(t) \/ AwaitResult(t)
      BY <1>1, <3>3 DEF SendRequest, SendIntoVoid, SendFails, AwaitResult, TypeOK
    <3>4. CASE ReceiveAccepted(t) \/ ReceiveBadVersion(t) \/ SwitchVersion(t)
      BY <1>1, <3>4 DEF ReceiveAccepted, ReceiveBadVersion, SwitchVersion, Consume, TypeOK
    <3>5. CASE ReceiveRefused(t) \/ Finish(t)
      BY <1>1, <3>5 DEF ReceiveRefused, Finish, Consume, TypeOK
    <3> QED BY <1>1, <3>1, <3>2, <3>3, <3>4, <3>5 DEF ThreadStep
  <2> QED BY <1>0, <2>1, SocketFrame
<1>2. CASE Begin(u)
  BY <1>0, <1>2 DEF Begin, SocketOK, Returned, Quiet, TypeOK
<1>3. CASE Dial(u)
  BY <1>0, <1>3 DEF Dial, SocketOK, Returned, Quiet, TypeOK, Dialled, Closed
<1>4. CASE DialRefused(u)
  BY <1>0, <1>4 DEF DialRefused, SocketOK, Returned, Quiet, TypeOK
<1>5. CASE LoadTag(u) \/ StoreTag(u) \/ PassTag(u) \/ FormatRequest(u)
  BY <1>0, <1>5
     DEF LoadTag, StoreTag, PassTag, FormatRequest, SocketOK, Returned, Quiet, TypeOK
<1>6. CASE SendRequest(u)
  <2>1. PICK r : sock'[u] = [sock[u] EXCEPT !.request = r]
    BY <1>6 DEF SendRequest, TypeOK
  <2>2. sock'[u].reply = NoReply /\ pc'[u] = "await"
    BY <1>0, <1>6, <2>1 DEF SocketOK, Quiet, Sockets, SendRequest, TypeOK
  <2> QED BY <2>2 DEF SocketOK, Returned, Quiet
<1>7. CASE SendIntoVoid(u) \/ AwaitResult(u)
  BY <1>0, <1>7 DEF SendIntoVoid, AwaitResult, SocketOK, Returned, Quiet, TypeOK
<1>8. CASE SendFails(u)
  BY <1>0, <1>8 DEF SendFails, SocketOK, Returned, Quiet, TypeOK, Sockets
<1>9. CASE ReceiveAccepted(u)
  <2>1. CASE call[u] = "list"
    <3>1. Consume(u, "closed") /\ call'[u] = "list" /\ pc'[u] = "returned"
      BY <1>9, <2>1 DEF ReceiveAccepted, TypeOK
    <3>2. sock'[u].reply = NoReply
      BY <1>0, <3>1 DEF Consume, TypeOK, Sockets
    <3> QED BY <3>1, <3>2 DEF SocketOK, Returned
  <2>2. CASE call[u] # "list"
    <3>1. PICK o \in GetResult(u) : Accepts(call[u], o)
      BY <1>9 DEF ReceiveAccepted
    <3>2. /\ pc'[u] = "returned" /\ retval'[u] = 1 /\ call'[u] = call[u]
          /\ sock'[u] = [sock[u] EXCEPT !.state = sock[u].state, !.reply = NoReply]
      BY <1>9, <2>2 DEF ReceiveAccepted, Consume, TypeOK
    <3>3. ASSUME call[u] = "connect" PROVE o.ret # 0 /\ o.res = RESULT_OK
      BY <3>1, <3>3 DEF Accepts
    <3>4. ASSUME call[u] = "connect" PROVE sock[u].reply # NoReply
                                         /\ sock[u].reply.result = RESULT_OK
      BY <3>3, <3>4 DEF GetResult, Unset, RESULT_OK
    <3>5. ASSUME call[u] = "connect" PROVE sock'[u].request = NoRequest
                                         /\ sock'[u].verdict = RESULT_OK
      BY <1>0, <3>2, <3>4, <3>5 DEF SocketOK, Sockets
    <3>6. sock'[u].reply = NoReply
      BY <1>0, <3>2 DEF Sockets
    <3> QED BY <3>2, <3>5, <3>6 DEF SocketOK, Returned, Quiet
  <2> QED BY <2>1, <2>2
<1>10. CASE ReceiveRefused(u)
  <2>1. Consume(u, "closed") /\ call'[u] = call[u] /\ pc'[u] = "returned"
    BY <1>10 DEF ReceiveRefused, TypeOK
  <2>2. sock'[u].state = "closed" /\ sock'[u].reply = NoReply
    BY <1>0, <2>1 DEF Consume, TypeOK, Sockets
  <2>3. call[u] # "list" => retval'[u] = -1
    BY <1>10 DEF ReceiveRefused, FailureValue, TypeOK
  <2> QED BY <2>1, <2>2, <2>3 DEF SocketOK, Returned, Quiet
<1>15. CASE ReceiveBadVersion(u)
  <2>1. PICK st : Consume(u, st)
    BY <1>15 DEF ReceiveBadVersion
  <2>2. sock'[u].reply = NoReply /\ pc'[u] = "switch"
    BY <1>0, <1>15, <2>1 DEF ReceiveBadVersion, Consume, TypeOK, Sockets
  <2> QED BY <2>2 DEF SocketOK, Returned, Quiet
<1>16. CASE SwitchVersion(u)
  <2>1. sock'[u] = [sock[u] EXCEPT !.state = "closed"] /\ pc'[u] = "dial"
    BY <1>16 DEF SwitchVersion, TypeOK
  <2>2. /\ sock'[u].state = "closed" /\ sock'[u].reply = sock[u].reply
        /\ sock'[u].request = sock[u].request /\ sock'[u].verdict = sock[u].verdict
    BY <1>0, <2>1 DEF Sockets
  <2> QED BY <1>0, <2>1, <2>2 DEF SocketOK, Returned, Quiet
<1>11. CASE Finish(u)
  BY <1>0, <1>11 DEF Finish, SocketOK, Returned, Quiet, TypeOK, Closed
<1>12. CASE DaemonAnswers(u)
  <2>1. PICK r \in Results :
          sock'[u] = [sock[u] EXCEPT !.request = NoRequest, !.verdict = r,
                     !.reply = [tag |-> sock[u].request.tag, result |-> r]]
    BY <1>12, VerdictsAreResults DEF DaemonAnswers, TypeOK
  <2>2. /\ sock[u].state = "open" /\ sock[u].request # NoRequest
        /\ pc'[u] = pc[u] /\ call'[u] = call[u] /\ retval'[u] = retval[u]
    BY <1>12 DEF DaemonAnswers
  <2>3. /\ sock'[u].state = "open" /\ sock'[u].request = NoRequest
        /\ sock'[u].verdict = r /\ sock'[u].reply.result = r
    BY <1>0, <2>1, <2>2 DEF Sockets
  <2> QED BY <1>0, <2>2, <2>3 DEF SocketOK, Returned, Quiet
<1>13. CASE DaemonDies
  <2>1. PICK lost \in SUBSET Threads :
          sock' = [t \in Threads |->
            IF sock[t].state # "open" THEN sock[t]
            ELSE [sock[t] EXCEPT !.state = "eof", !.request = NoRequest,
                                 !.reply = IF t \in lost THEN NoReply ELSE @]]
    BY <1>13 DEF DaemonDies
  <2>2. pc'[u] = pc[u] /\ call'[u] = call[u] /\ retval'[u] = retval[u]
    BY <1>13 DEF DaemonDies
  <2>3. CASE sock[u].state # "open"
    BY <1>0, <2>1, <2>2, <2>3, SocketFrame
  <2>4. CASE sock[u].state = "open"
    <3> DEFINE rp == IF u \in lost THEN NoReply ELSE sock[u].reply
    <3>1. sock'[u] = [sock[u] EXCEPT !.state = "eof", !.request = NoRequest, !.reply = rp]
      BY <2>1, <2>4
    <3>2. rp \in {NoReply, sock[u].reply}
      OBVIOUS
    <3> HIDE DEF rp
    <3>3. /\ sock'[u].state = "eof" /\ sock'[u].request = NoRequest
          /\ sock'[u].reply = rp /\ sock'[u].verdict = sock[u].verdict
      BY <1>0, <3>1 DEF Sockets
    <3> QED BY <1>0, <2>2, <2>4, <3>2, <3>3 DEF SocketOK, Returned, Quiet
  <2> QED BY <2>3, <2>4
<1>14. CASE DaemonStarts \/ UNCHANGED vars
  <2>1. pc' = pc /\ call' = call /\ sock' = sock /\ retval' = retval
    BY <1>14 DEF DaemonStarts, vars
  <2> QED BY <1>0, <2>1, SocketFrame
<1> QED
  BY <1>1, <1>2, <1>3, <1>4, <1>5, <1>6, <1>7, <1>8, <1>9, <1>10, <1>11, <1>12,
     <1>13, <1>14, <1>15, <1>16 DEF Next, ThreadStep

LEMMA SocketInvariant == Spec => []SocketInv
<1>1. Init => SocketInv
  BY DEF Init, SocketInv, SocketOK, Quiet, Returned, Closed
<1> QED BY <1>1, SocketStep, TypeCorrect, PTL DEF Spec

\* usbmuxd_connect returns a descriptor only for an accepted connection,
\* however many threads share use_tag and proto_version, and a failed connect or
\* listen has closed the socket it dialled.
THEOREM ConnectSound == Spec => []ConnectIsAcceptedOrClosed
<1>1. SocketInv => ConnectIsAcceptedOrClosed
  BY DEF SocketInv, SocketOK, ConnectIsAcceptedOrClosed
<1> QED BY <1>1, SocketInvariant, PTL

(***************************************************************************)
(* The version switch.  Any number of threads may find proto_version at 0  *)
(* together; each of them is then in its first attempt, whoever stores 1   *)
(* before it does, and after a store no thread ever finds a 0 again.       *)
(***************************************************************************)
RetryInv ==
  \A t \in Threads :
    /\ pc[t] = "idle" => attempts[t] = 0
    /\ proto_version = 0 => attempts[t] <= 1 /\ (pc[t] = "dial" => attempts[t] = 0)
    /\ attempts[t] <= 2 /\ (pc[t] \in {"dial", "switch"} => attempts[t] <= 1)

LEMMA RetryStep == TypeOK /\ RetryInv /\ [Next]_vars => RetryInv'
<1> SUFFICES ASSUME TypeOK, RetryInv, [Next]_vars PROVE RetryInv'
    OBVIOUS
<1> USE DEF Goto
<1>1. ASSUME NEW t \in Threads, Begin(t) PROVE RetryInv'
  BY <1>1 DEF Begin, RetryInv, TypeOK
<1>2. ASSUME NEW t \in Threads, Dial(t) PROVE RetryInv'
  BY <1>2 DEF Dial, RetryInv, TypeOK
<1>3. ASSUME NEW t \in Threads,
             DialRefused(t) \/ LoadTag(t) \/ StoreTag(t) \/ PassTag(t) \/ FormatRequest(t)
      PROVE  RetryInv'
  BY <1>3 DEF DialRefused, LoadTag, StoreTag, PassTag, FormatRequest, RetryInv, TypeOK
<1>4. ASSUME NEW t \in Threads,
             SendRequest(t) \/ SendIntoVoid(t) \/ SendFails(t) \/ AwaitResult(t)
      PROVE  RetryInv'
  BY <1>4 DEF SendRequest, SendIntoVoid, SendFails, AwaitResult, RetryInv, TypeOK
<1>5. ASSUME NEW t \in Threads, ReceiveAccepted(t) \/ ReceiveRefused(t) PROVE RetryInv'
  BY <1>5 DEF ReceiveAccepted, ReceiveRefused, RetryInv, TypeOK
<1>6. ASSUME NEW t \in Threads, ReceiveBadVersion(t) PROVE RetryInv'
  <2>1. proto_version = 0 /\ proto_version' = 0
    BY <1>6 DEF ReceiveBadVersion, Retries, TypeOK
  <2> QED BY <1>6, <2>1 DEF ReceiveBadVersion, RetryInv, TypeOK
<1>10. ASSUME NEW t \in Threads, SwitchVersion(t) PROVE RetryInv'
  BY <1>10 DEF SwitchVersion, RetryInv, TypeOK
<1>7. ASSUME NEW t \in Threads, Finish(t) PROVE RetryInv'
  BY <1>7 DEF Finish, RetryInv, TypeOK
<1>8. ASSUME NEW t \in Threads, DaemonAnswers(t) PROVE RetryInv'
  BY <1>8 DEF DaemonAnswers, RetryInv
<1>9. CASE DaemonDies \/ DaemonStarts \/ UNCHANGED vars
  BY <1>9 DEF DaemonDies, DaemonStarts, vars, RetryInv
<1> QED
  BY <1>1, <1>2, <1>3, <1>4, <1>5, <1>6, <1>7, <1>8, <1>9, <1>10 DEF Next, ThreadStep

\* No call starts over more than once, however many threads pass the test of
\* proto_version before the first of them stores the new version.
THEOREM RetryBound == Spec => []AtMostOneRetry
<1>1. Init => RetryInv
  BY DEF Init, RetryInv
<1>2. RetryInv => AtMostOneRetry
  BY DEF RetryInv, AtMostOneRetry
<1> QED BY <1>1, <1>2, RetryStep, TypeCorrect, PTL DEF Spec

(***************************************************************************)
(* No overlap: at most one thread is in a call, the tag it waits for is    *)
(* the tag it sent, the version it checks is the version it sent.          *)
(***************************************************************************)
OneCall == \A s, t \in Threads : pc[s] # "idle" /\ pc[t] # "idle" => s = t

SoloOK(t) ==
  /\ proto_version = 1 => 0 \notin Speaks
  /\ pc[t] = "format" => msg[t].tag = use_tag
  /\ pc[t] = "send" => msg[t] = [tag |-> use_tag, format |-> proto_version]
  /\ pc[t] = "receive" => want[t] = use_tag
  /\ pc[t] \in {"load", "store", "argument", "format", "send", "await", "receive"}
     => answered[t] = Unset
  /\ pc[t] \in {"idle", "dial", "switch"} => answered[t] # RESULT_OK
  /\ pc[t] = "switch" => 0 \notin Speaks
  /\ pc[t] \in {"await", "receive"} /\ sock[t].request # NoRequest
     => sock[t].request = [tag |-> use_tag, format |-> proto_version,
                           version |-> proto_version]
  /\ pc[t] \in {"await", "receive"} /\ sock[t].reply # NoReply
     => /\ sock[t].reply.tag = use_tag
        /\ sock[t].reply.result = RESULT_BADVERSION => proto_version = 0 /\ 0 \notin Speaks
        /\ call[t] # "connect"
           => sock[t].reply.result \in {RESULT_OK, RESULT_BADVERSION} \cup Refusals
  /\ Returned(t, "list") => sock[t].state # "open"
  /\ Returned(t, "connect") /\ answered[t] = RESULT_OK => retval[t] > 0
  /\ Returned(t, "list") /\ answered[t] = RESULT_OK => retval[t] >= 0
  /\ Returned(t, "list") /\ retval[t] >= 0 => sock[t].verdict \in {RESULT_OK} \cup Refusals
  /\ Returned(t, "listen") /\ retval[t] > 0 /\ answered[t] # Unset => answered[t] = RESULT_OK

SerialInv == ~overlapped => OneCall /\ \A t \in Threads : SoloOK(t)

LEMMA SoloFrame ==
  ASSUME NEW u \in Threads, SoloOK(u), use_tag' = use_tag, proto_version' = proto_version,
         pc'[u] = pc[u], call'[u] = call[u], msg'[u] = msg[u], want'[u] = want[u],
         answered'[u] = answered[u], retval'[u] = retval[u], sock'[u] = sock[u]
  PROVE  SoloOK(u)'
BY DEF SoloOK, Returned

LEMMA IdleFrame ==
  ASSUME NEW u \in Threads, SoloOK(u), pc[u] = "idle", pc'[u] = "idle",
         answered'[u] = answered[u], proto_version' = 1 => 0 \notin Speaks
  PROVE  SoloOK(u)'
BY DEF SoloOK, Returned

\* What a thread alone reads is the answer to what it sent.
LEMMA SoloResult ==
  ASSUME TypeOK, NEW u \in Threads, SocketOK(u), SoloOK(u), pc[u] = "receive",
         NEW o \in GetResult(u)
  PROVE  \/ /\ o.ret = 1 /\ o.res = sock[u].reply.result /\ o.res = sock[u].verdict
            /\ sock[u].reply # NoReply
         \/ /\ o.ret \in {-1, 0} /\ o.res = Unset /\ sock[u].reply = NoReply
BY DEF GetResult, SoloOK, SocketOK

LEMMA BadVersionMeans ==
  ASSUME TypeOK, NEW t \in Threads, SocketOK(t), SoloOK(t), ReceiveBadVersion(t)
  PROVE  /\ 0 \notin Speaks
         /\ sock[t].reply # NoReply /\ sock[t].reply.result = RESULT_BADVERSION
<1>1. PICK o \in GetResult(t) : ~Accepts(call[t], o) /\ Retries(o)
  BY DEF ReceiveBadVersion
<1>2. pc[t] = "receive" /\ o.res = RESULT_BADVERSION
  BY <1>1 DEF ReceiveBadVersion, Goto, Retries
<1>3. sock[t].reply # NoReply /\ sock[t].reply.result = RESULT_BADVERSION
  BY <1>2, SoloResult DEF Unset, RESULT_BADVERSION
<1> QED BY <1>2, <1>3 DEF SoloOK

LEMMA OneCallStep ==
  ASSUME TypeOK, SerialInv, [Next]_vars, ~overlapped'
  PROVE  ~overlapped /\ OneCall'
<1> USE DEF Goto
<1>1. ASSUME NEW t \in Threads, Begin(t) PROVE ~overlapped /\ OneCall'
  <2>1. ~overlapped /\ \A s \in Threads : pc[s] = "idle"
    BY <1>1 DEF Begin, TypeOK
  <2>2. \A s \in Threads : s # t => pc'[s] = "idle"
    BY <1>1, <2>1 DEF Begin, TypeOK
  <2> QED BY <2>1, <2>2 DEF OneCall
<1>2. ASSUME NEW t \in Threads, ThreadStep(t) PROVE ~overlapped /\ OneCall'
  <2>1. /\ pc[t] # "idle" /\ UNCHANGED overlapped
        /\ \A s \in Threads : s # t => pc'[s] = pc[s]
    BY <1>2 DEF ThreadStep, Dial, DialRefused, LoadTag, StoreTag, PassTag, FormatRequest,
       SendRequest, SendIntoVoid, SendFails, AwaitResult, ReceiveAccepted, ReceiveBadVersion,
       SwitchVersion, ReceiveRefused, Finish, TypeOK
  <2> QED BY <2>1 DEF OneCall, SerialInv
<1>3. ASSUME UNCHANGED <<overlapped, pc>> PROVE ~overlapped /\ OneCall'
  BY <1>3 DEF OneCall, SerialInv
<1>4. CASE (\E t \in Threads : DaemonAnswers(t)) \/ DaemonDies \/ DaemonStarts
           \/ UNCHANGED vars
  BY <1>3, <1>4 DEF DaemonAnswers, DaemonDies, DaemonStarts, vars
<1> QED BY <1>1, <1>2, <1>4 DEF Next

LEMMA SerialStep ==
  ASSUME TypeOK, SocketInv, SerialInv, [Next]_vars
  PROVE  SerialInv'
<1> SUFFICES ASSUME ~overlapped', NEW u \in Threads PROVE SoloOK(u)'
    BY OneCallStep DEF SerialInv
<1> USE DEF Goto
<1>0. SoloOK(u) /\ SocketOK(u) /\ sock[u] \in Sockets
  BY OneCallStep DEF SerialInv, SocketInv, TypeOK
<1>2. CASE Begin(u)
  <2>1. pc'[u] = "dial" /\ answered' = answered /\ proto_version' = proto_version
    BY <1>2 DEF Begin, TypeOK
  <2>2. answered[u] # RESULT_OK
    BY <1>0, <1>2 DEF Begin, SoloOK
  <2> QED BY <1>0, <2>1, <2>2 DEF SoloOK, Returned
<1>3. CASE Dial(u)
  <2>1. pc'[u] = "load" /\ answered'[u] = Unset /\ proto_version' = proto_version
    BY <1>3 DEF Dial, TypeOK
  <2> QED BY <1>0, <2>1 DEF SoloOK, Returned
<1>4. CASE DialRefused(u)
  <2>1. /\ pc'[u] = "returned" /\ answered'[u] # RESULT_OK /\ proto_version' = proto_version
        /\ retval'[u] = -1 /\ sock'[u].state = "closed" /\ call'[u] # "listen"
    BY <1>0, <1>4 DEF DialRefused, TypeOK, SoloOK, SocketOK
  <2> QED BY <1>0, <2>1 DEF SoloOK, Returned
<1>5. CASE LoadTag(u) \/ StoreTag(u)
  <2>1. /\ pc'[u] \in {"store", "argument"} /\ answered'[u] = Unset
        /\ proto_version' = proto_version
    BY <1>0, <1>5 DEF LoadTag, StoreTag, SoloOK, TypeOK
  <2> QED BY <1>0, <2>1 DEF SoloOK, Returned
<1>21. CASE PassTag(u)
  <2>1. /\ pc'[u] = "format" /\ answered'[u] = Unset
        /\ proto_version' = proto_version /\ use_tag' = use_tag
        /\ msg'[u] = [msg[u] EXCEPT !.tag = use_tag]
    BY <1>0, <1>21 DEF PassTag, SoloOK, TypeOK
  <2>2. msg'[u].tag = use_tag
    BY <2>1 DEF TypeOK
  <2> QED BY <1>0, <2>1, <2>2 DEF SoloOK, Returned
<1>6. CASE FormatRequest(u)
  <2>1. /\ pc'[u] = "send" /\ answered'[u] = Unset /\ msg[u].tag = use_tag
        /\ proto_version' = proto_version /\ use_tag' = use_tag
        /\ msg'[u] = [msg[u] EXCEPT !.format = proto_version]
    BY <1>0, <1>6 DEF FormatRequest, SoloOK, TypeOK
  <2>2. msg'[u] = [tag |-> use_tag, format |-> proto_version]
    BY <2>1 DEF TypeOK
  <2> QED BY <1>0, <2>1, <2>2 DEF SoloOK, Returned
<1>7. CASE SendRequest(u)
  <2>1. /\ pc'[u] = "await" /\ answered'[u] = Unset
        /\ proto_version' = proto_version /\ use_tag' = use_tag
        /\ msg[u] = [tag |-> use_tag, format |-> proto_version]
    BY <1>0, <1>7 DEF SendRequest, SoloOK, TypeOK
  <2>2. sock'[u] = [sock[u] EXCEPT !.request = [tag |-> msg[u].tag, format |-> msg[u].format,
                                                version |-> proto_version]]
    BY <1>7 DEF SendRequest, TypeOK
  <2>3. /\ sock'[u].request = [tag |-> use_tag, format |-> proto_version,
                               version |-> proto_version]
        /\ sock'[u].reply = NoReply
    BY <1>0, <1>7, <2>1, <2>2 DEF SendRequest, SocketOK, Quiet, Sockets
  <2> QED BY <1>0, <2>1, <2>3 DEF SoloOK, Returned
<1>8. CASE SendIntoVoid(u)
  <2>1. /\ pc'[u] = "await" /\ answered'[u] = Unset /\ Quiet(u)
        /\ proto_version' = proto_version /\ sock'[u] = sock[u]
    BY <1>0, <1>8 DEF SendIntoVoid, SoloOK, SocketOK, TypeOK
  <2> QED BY <1>0, <2>1 DEF SoloOK, Returned, Quiet
<1>9. CASE SendFails(u)
  <2>1. /\ pc'[u] = "returned" /\ answered'[u] = Unset /\ proto_version' = proto_version
        /\ retval'[u] = -1 /\ sock'[u].state # "open"
    BY <1>0, <1>9 DEF SendFails, SoloOK, TypeOK, Sockets
  <2> QED BY <1>0, <2>1 DEF SoloOK, Returned, Unset, RESULT_OK
<1>10. CASE AwaitResult(u)
  <2>1. /\ pc'[u] = "receive" /\ answered'[u] = Unset /\ want'[u] = use_tag /\ sock' = sock
        /\ proto_version' = proto_version /\ use_tag' = use_tag /\ call' = call
    BY <1>0, <1>10 DEF AwaitResult, SoloOK, TypeOK
  <2> QED BY <1>0, <1>10, <2>1 DEF AwaitResult, SoloOK, Returned
<1>11. ASSUME NEW st \in {sock[u].state, "closed"}, Consume(u, st)
       PROVE  /\ answered'[u] = sock[u].reply.result
              /\ sock'[u].state = st /\ sock'[u].verdict = sock[u].verdict
  BY <1>0, <1>11 DEF Consume, TypeOK, Sockets
<1>12. CASE ReceiveAccepted(u)
  <2>1. PICK o \in GetResult(u) : Accepts(call[u], o)
    BY <1>12 DEF ReceiveAccepted
  <2>2. /\ pc[u] = "receive" /\ pc'[u] = "returned" /\ proto_version' = proto_version
        /\ call'[u] = call[u]
    BY <1>12 DEF ReceiveAccepted, TypeOK
  <2>3. CASE call[u] = "list"
    <3>1. Consume(u, "closed")
      BY <1>12, <2>3 DEF ReceiveAccepted
    <3>2. o.ret # 0 /\ o.res = RESULT_OK
      BY <2>1, <2>3 DEF Accepts
    <3>3. sock[u].verdict = RESULT_OK
      BY <1>0, <2>2, <3>2, SoloResult DEF RESULT_OK, Unset
    <3>4. retval'[u] >= 0
      BY <1>12, <2>3 DEF ReceiveAccepted, TypeOK
    <3> QED BY <1>0, <1>11, <2>2, <2>3, <3>1, <3>3, <3>4 DEF SoloOK, Returned
  <2>4. CASE call[u] # "list"
    <3>1. Consume(u, sock[u].state) /\ retval'[u] = 1
      BY <1>12, <2>4 DEF ReceiveAccepted, TypeOK
    <3>2. ASSUME call[u] = "listen", sock[u].reply.result # Unset
          PROVE  sock[u].reply.result = RESULT_OK
      <4>1. sock[u].reply # NoReply
        BY <3>2 DEF NoReply
      <4>2. o.ret = 1 /\ o.res = sock[u].reply.result
        BY <1>0, <2>2, <4>1, SoloResult
      <4> QED BY <2>1, <3>2, <4>2 DEF Accepts
    <3> QED BY <1>0, <1>11, <2>2, <2>4, <3>1, <3>2 DEF SoloOK, Returned
  <2> QED BY <2>3, <2>4
<1>13. CASE ReceiveBadVersion(u)
  <2>1. /\ pc[u] = "receive" /\ pc'[u] = "switch" /\ proto_version' = proto_version
    BY <1>13 DEF ReceiveBadVersion, TypeOK
  <2>2. PICK st \in {sock[u].state, "closed"} : Consume(u, st)
    BY <1>13 DEF ReceiveBadVersion
  <2>3. sock[u].reply.result = RESULT_BADVERSION /\ 0 \notin Speaks
    BY <1>0, <1>13, BadVersionMeans
  <2>4. answered'[u] # RESULT_OK
    BY <1>11, <2>2, <2>3 DEF RESULT_OK, RESULT_BADVERSION
  <2> QED BY <2>1, <2>3, <2>4 DEF SoloOK, Returned
<1>22. CASE SwitchVersion(u)
  <2>1. /\ pc'[u] = "dial" /\ proto_version' = 1 /\ answered'[u] # RESULT_OK
        /\ 0 \notin Speaks
    BY <1>0, <1>22 DEF SwitchVersion, SoloOK, TypeOK
  <2> QED BY <2>1 DEF SoloOK, Returned
<1>14. CASE ReceiveRefused(u)
  <2>1. PICK o \in GetResult(u) :
          /\ ~Accepts(call[u], o) /\ ~Retries(o)
          /\ retval' = [retval EXCEPT ![u] = FailureValue(call[u], o)]
    BY <1>14 DEF ReceiveRefused
  <2>2. /\ pc[u] = "receive" /\ pc'[u] = "returned" /\ proto_version' = proto_version
        /\ call'[u] = call[u] /\ Consume(u, "closed")
    BY <1>14 DEF ReceiveRefused, TypeOK
  <2>3. retval'[u] = FailureValue(call[u], o)
    BY <2>1 DEF TypeOK
  <2>4. sock'[u].state = "closed" /\ answered'[u] = sock[u].reply.result
    BY <1>11, <2>2
  <2>5. CASE sock[u].reply = NoReply
    <3>1. o.res = Unset
      BY <1>0, <2>2, <2>5, SoloResult
    <3>2. retval'[u] = -1 /\ answered'[u] = Unset
      BY <2>3, <2>4, <2>5, <3>1 DEF FailureValue, NoReply, Unset
    <3> QED BY <1>0, <2>2, <2>4, <3>2 DEF SoloOK, Returned, Unset, RESULT_OK
  <2>6. CASE sock[u].reply # NoReply
    <3>1. o.ret = 1 /\ o.res = sock[u].reply.result
      BY <1>0, <2>2, <2>6, SoloResult
    <3>2. o.res # RESULT_OK
      BY <2>1, <3>1 DEF Accepts
    <3>3. o.res # RESULT_BADVERSION
      BY <1>0, <2>1, <2>2, <2>6, <3>1 DEF SoloOK, Retries
    <3>4. call[u] # "connect" => o.res \in Refusals
      BY <1>0, <2>2, <2>6, <3>1, <3>2, <3>3 DEF SoloOK
    <3>5. sock'[u].verdict \in Refusals \/ call[u] = "connect"
      BY <1>0, <1>11, <2>2, <2>6, <3>1, <3>4, SoloResult DEF SocketOK
    <3>6. answered'[u] # RESULT_OK
      BY <2>4, <3>1, <3>2
    <3>7. call[u] = "listen" => retval'[u] = -1
      BY <2>3 DEF FailureValue
    <3> QED BY <1>0, <2>2, <2>4, <3>5, <3>6, <3>7 DEF SoloOK, Returned
  <2> QED BY <2>5, <2>6
<1>15. CASE Finish(u)
  <2>1. pc'[u] = "idle" /\ proto_version' = proto_version /\ answered'[u] # RESULT_OK
    BY <1>15 DEF Finish, TypeOK, Unset, RESULT_OK
  <2> QED BY <1>0, <2>1 DEF SoloOK, Returned
<1>16. CASE DaemonAnswers(u)
  <2>1. PICK r \in Verdicts(call[u], sock[u].request) :
          sock'[u] = [sock[u] EXCEPT !.request = NoRequest, !.verdict = r,
                     !.reply = [tag |-> sock[u].request.tag, result |-> r]]
    BY <1>16 DEF DaemonAnswers, TypeOK
  <2>2. /\ sock[u].state = "open" /\ sock[u].request # NoRequest
        /\ pc' = pc /\ call' = call /\ retval' = retval /\ msg' = msg /\ want' = want
        /\ answered' = answered /\ use_tag' = use_tag /\ proto_version' = proto_version
    BY <1>16 DEF DaemonAnswers
  <2>3. /\ sock'[u].state = "open" /\ sock'[u].request = NoRequest
        /\ sock'[u].verdict = r /\ sock'[u].reply.result = r
        /\ sock'[u].reply.tag = sock[u].request.tag
    BY <1>0, <2>1, <2>2 DEF Sockets
  <2>4. ASSUME pc[u] \in {"await", "receive"}
        PROVE  /\ sock[u].request.tag = use_tag
               /\ r = RESULT_BADVERSION => proto_version = 0 /\ 0 \notin Speaks
               /\ call[u] # "connect" => r \in {RESULT_OK, RESULT_BADVERSION} \cup Refusals
    <3>1. sock[u].request = [tag |-> use_tag, format |-> proto_version,
                             version |-> proto_version]
      BY <1>0, <2>2, <2>4 DEF SoloOK
    <3>2. \/ r = RESULT_BADVERSION /\ proto_version \notin Speaks
          \/ r \in {RESULT_OK} \cup Refusals
          \/ call[u] = "connect" /\ r \in {RESULT_BADDEV, RESULT_CONNREFUSED}
      BY <3>1 DEF Verdicts
    <3>3. r = RESULT_BADVERSION => proto_version \notin Speaks
      BY <3>2, RefusalsAreResults
         DEF RESULT_OK, RESULT_BADVERSION, RESULT_BADDEV, RESULT_CONNREFUSED
    <3>4. proto_version \notin Speaks => proto_version = 0
      BY <1>0, SpeaksSomething DEF SoloOK, TypeOK
    <3> QED BY <3>1, <3>2, <3>3, <3>4
  <2>5. ~Returned(u, "list")
    BY <1>0, <2>2 DEF SoloOK
  <2> QED BY <1>0, <2>2, <2>3, <2>4, <2>5 DEF SoloOK, Returned
<1>17. CASE DaemonDies
  <2>1. PICK lost \in SUBSET Threads :
          sock' = [t \in Threads |->
            IF sock[t].state # "open" THEN sock[t]
            ELSE [sock[t] EXCEPT !.state = "eof", !.request = NoRequest,
                                 !.reply = IF t \in lost THEN NoReply ELSE @]]
    BY <1>17 DEF DaemonDies
  <2>2. /\ pc' = pc /\ call' = call /\ retval' = retval /\ msg' = msg /\ want' = want
        /\ answered' = answered /\ use_tag' = use_tag /\ proto_version' = proto_version
    BY <1>17 DEF DaemonDies
  <2>3. CASE sock[u].state # "open"
    BY <1>0, <2>1, <2>2, <2>3, SoloFrame
  <2>4. CASE sock[u].state = "open"
    <3> DEFINE rp == IF u \in lost THEN NoReply ELSE sock[u].reply
    <3>1. sock'[u] = [sock[u] EXCEPT !.state = "eof", !.request = NoRequest, !.reply = rp]
      BY <2>1, <2>4
    <3>2. rp \in {NoReply, sock[u].reply}
      OBVIOUS
    <3> HIDE DEF rp
    <3>3. /\ sock'[u].state = "eof" /\ sock'[u].request = NoRequest
          /\ sock'[u].reply = rp /\ sock'[u].verdict = sock[u].verdict
      BY <1>0, <3>1 DEF Sockets
    <3> QED BY <1>0, <2>2, <2>4, <3>2, <3>3 DEF SoloOK, Returned
  <2> QED BY <2>3, <2>4
<1>18. CASE DaemonStarts \/ UNCHANGED vars
  <2>1. /\ pc' = pc /\ call' = call /\ retval' = retval /\ msg' = msg /\ want' = want
        /\ answered' = answered /\ use_tag' = use_tag /\ proto_version' = proto_version
        /\ sock' = sock
    BY <1>18 DEF DaemonStarts, vars
  <2> QED BY <1>0, <2>1, SoloFrame
<1>19. ASSUME NEW t \in Threads, t # u, Begin(t) \/ DaemonAnswers(t) PROVE SoloOK(u)'
  <2>1. /\ pc'[u] = pc[u] /\ call'[u] = call[u] /\ sock'[u] = sock[u]
        /\ UNCHANGED <<use_tag, proto_version, msg, want, answered, retval>>
    BY <1>19 DEF Begin, DaemonAnswers, TypeOK
  <2> QED BY <1>0, <2>1, SoloFrame
<1>20. ASSUME NEW t \in Threads, t # u, ThreadStep(t) PROVE SoloOK(u)'
  <2>1. /\ pc[t] # "idle" /\ pc'[u] = pc[u] /\ answered'[u] = answered[u]
        /\ pc[t] = "switch" \/ proto_version' = proto_version
    BY <1>20 DEF ThreadStep, Dial, DialRefused, LoadTag, StoreTag, PassTag, FormatRequest,
       SendRequest, SendIntoVoid, SendFails, AwaitResult, ReceiveAccepted, ReceiveBadVersion,
       SwitchVersion, ReceiveRefused, Consume, Finish, Goto, TypeOK
  <2>2. pc[u] = "idle" /\ SoloOK(t) /\ SocketOK(t)
    BY <1>20, <2>1, OneCallStep DEF SerialInv, OneCall, SocketInv
  <2>3. proto_version' = 1 => 0 \notin Speaks
    BY <1>0, <2>1, <2>2 DEF SoloOK
  <2> QED BY <1>0, <2>1, <2>2, <2>3, IdleFrame
<1> QED
  BY <1>2, <1>3, <1>4, <1>5, <1>6, <1>7, <1>8, <1>9, <1>10, <1>12, <1>13, <1>14,
     <1>15, <1>16, <1>17, <1>18, <1>19, <1>20, <1>21, <1>22 DEF Next, ThreadStep

\* Until two calls of the process overlap, whatever the daemon refuses: an
\* acceptance that was read is reported, a successful listen was answered with
\* RESULT_OK, and what a device list returns is a count, a negative value or
\* the code of a refusal the client did not bring about itself.  The runs
\* refute the stronger claim of usbmuxd.h, with overlap and without.
THEOREM SerialCorrect == Spec => []SerialCallsAreHonest
<1>1. Init => SerialInv
  BY DEF Init, SerialInv, OneCall, SoloOK, Returned, Unset, RESULT_OK
<1>2. SerialInv => SerialCallsAreHonest
  BY DEF SerialInv, SoloOK, SerialCallsAreHonest, AcceptedIsReported, MiscountIsARefusal,
         ListenIsAccepted
<1>3. TypeOK /\ SocketInv /\ SerialInv /\ [Next]_vars => SerialInv'
  BY SerialStep
<1> QED BY <1>1, <1>2, <1>3, TypeCorrect, SocketInvariant, PTL DEF Spec
=============================================================================
