--------------------------- MODULE LockdownClient ---------------------------
(***************************************************************************)
(* libimobiledevice's lockdownd client: one process talks to the lockdownd *)
(* of one device over a connection on which requests and answers carry no  *)
(* number.  A call sends one request or a few, waits for an answer to each *)
(* and takes whatever comes for it; pairing and sessions leave state on    *)
(* both ends (public key, session id, TLS).  TLS is begun and ended in the *)
(* middle of a call, and gnutls reads for it without a time limit.         *)
(*                                                                         *)
(* The pair record argument is always NULL, as every tool of src/ has it;  *)
(* lockdownd_stop_session is only called by the library itself, as there.  *)
(* lockdownd is outside src/.                                              *)
(***************************************************************************)
EXTENDS Integers, Sequences

CONSTANTS
  Services,    \* names for StartService
  ApiCalls,    \* the calls the application makes on a client it has
  MaxCalls     \* bound: calls of the application, opening a client included

ASSUME BoundIsNatural == MaxCalls \in Nat

\* The calls that send one request and no more.
Simple == {"QueryType", "GetValue", "SetValue", "RemoveValue", "StartService",
           "EnterRecovery", "Goodbye", "Activate", "Deactivate"}
Pairings == {"Pair", "ValidatePair", "Unpair"}
ASSUME CallsExist == ApiCalls \subseteq Simple \cup Pairings \cup {"StartSession", "Free"}

\* client->session_id: NULL, or a pointer to a string that was freed.
NoSession == 0
Freed     == -1

VARIABLES
  pc,          \* "none" (no client), "idle", "ready", "waiting", "returned", "aborted",
               \* or inside gnutls_handshake ("handshake") or gnutls_bye ("bye")
  call,        \* the call in progress
  plan,        \* the requests it still has to make
  stage,       \* of lockdownd_client_new_with_handshake
  ret,         \* its return value
  named,       \* is client->uuid set
  session,     \* client->session_id
  ssl_enabled, \* client->ssl_enabled
  ssl,         \* connection->ssl_data
  key,         \* userpref: a public key is stored for the device
  service,     \* the service asked for
  port,        \* the service the returned port belongs to
  inbox, outbox,  \* requests and answers under way
  link,        \* "up", "eof" (the device has closed) or "garbled" (out of step)
  sent,        \* number of the last request
  granted,     \* history: number of the last request the device met
  faulty,      \* history: has a send, a receive or a TLS handshake failed
  paired,      \* the device trusts this host
  everPaired,  \* history
  dsession, dssl, nextId,   \* the device's session, its TLS, its next session id
  calls        \* counter of MaxCalls

client == <<pc, call, plan, stage, ret>>
state  == <<named, session, ssl_enabled, ssl, key>>
lockdownd == <<granted, paired, everPaired, dsession, dssl, nextId>>
vars == <<pc, call, plan, stage, ret, named, session, ssl_enabled, ssl, key, service, port,
          inbox, outbox, link, sent, granted, faulty, paired, everPaired, dsession, dssl,
          nextId, calls>>

Init ==
  /\ pc = "none" /\ call = "none" /\ plan = <<>> /\ stage = "none" /\ ret = "none"
  /\ named = FALSE /\ session = NoSession /\ ssl_enabled = FALSE /\ ssl = FALSE
  /\ key \in BOOLEAN /\ service \in Services /\ port = "none"
  /\ inbox = <<>> /\ outbox = <<>> /\ link = "eof" /\ sent = 0 /\ granted = 0
  /\ faulty = FALSE
  /\ paired \in BOOLEAN /\ everPaired = (paired \/ key)
  /\ dsession = NoSession /\ dssl = FALSE /\ nextId = 1
  /\ calls = 0

-----------------------------------------------------------------------------
(* What each call asks, and what it makes of an answer.                    *)

NeedsSession == {"StartService", "Activate", "Deactivate"}

\* A running session is stopped by StartSession and by Free.
Stop(s) == IF s = NoSession THEN <<>> ELSE <<"StopSession">>

Farewell(s) == Stop(s) \o <<"Goodbye", "Close">>

\* lockdownd_do_pair first asks for the device's public key.
Pairing(verb) == <<"PublicKey", verb>>

Plan(c) ==
  CASE c \in Simple        -> <<c>>
    [] c \in Pairings      -> Pairing(c)
    [] c = "StartSession"  -> Stop(session) \o <<"StartSession">>
    [] c = "Free"          -> Farewell(session)

\* The name a request goes by on the wire.
Wire(v) == IF v = "PublicKey" THEN "GetValue" ELSE v

Nothing == [n |-> 0, kind |-> "none", result |-> "none", arg |-> "none", id |-> NoSession,
            tls |-> FALSE, ssl |-> FALSE]

\* lockdown_check_result.  Unpair does not look at the request's name.
Check(v, a) == IF a.kind = Wire(v) \/ (v = "Unpair" /\ a # Nothing) THEN a.result ELSE "none"

\* Calls that return LOCKDOWN_E_SUCCESS for "Success" only; the others return
\* what lockdownd_receive did unless the result was "Success".
Strict == {"QueryType", "StopSession", "StartService", "Activate", "Deactivate"} \cup Pairings

\* do_pair reads the error of an answer that is not for its request as well.
Said(v, a) ==
  IF Check(v, a) = "Success" THEN "Success"
  ELSE IF a.result = "InvalidHostID" THEN "InvalidHostID" ELSE "error"

\* Slips: StartService looks at the answer as GetValue does; the result of
\* lockdown_check_result is returned as it is.
VerdictLax(v, a) ==
  IF a = Nothing THEN "error"
  ELSE CASE v = "PublicKey" -> IF a.arg = "PublicKey" THEN "Success" ELSE "error"
         [] v \in Pairings  -> Said(v, a)
         [] OTHER           -> "Success"

VerdictRaw(v, a) == IF a = Nothing THEN "error" ELSE Check(v, a)

\* The return value, TLS apart.  A refusal of StartSession for any reason but
\* InvalidHostID leaves the SUCCESS of lockdownd_receive; PublicKey needs a
\* value that is data.
Verdict(v, a) ==
  IF a = Nothing THEN "error"
  ELSE CASE v = "PublicKey"          -> IF a.arg = "PublicKey" THEN "Success" ELSE "error"
         [] v \in Pairings           -> Said(v, a)
         [] v \in Strict \ Pairings  -> IF Check(v, a) = "Success" THEN "Success" ELSE "error"
         [] v = "StartSession"       -> IF Check(v, a) = "InvalidHostID" THEN "InvalidHostID"
                                        ELSE "Success"
         [] OTHER                    -> "Success"

\* A slip: the result of the validation is overwritten as the others are.
NextStageUnchecked(r) ==
  CASE stage = "query" -> IF key THEN "validate" ELSE "pair"
    [] stage = "pair"  -> "validate"
    [] stage \in {"validate", "revalidate", "repair"} -> "session"
    [] stage = "session" -> IF r = "Success" THEN "none" ELSE "giveUp"

\* The stages of lockdownd_client_new_with_handshake.  The results of
\* QueryType and of the first Pair are overwritten.
NextStage(r) ==
  CASE stage = "query"      -> IF key THEN "validate" ELSE "pair"
    [] stage = "pair"       -> "validate"
    [] stage = "validate"   -> CASE r = "Success" -> "session"
                                 [] r = "InvalidHostID" -> "repair"
                                 [] OTHER -> "giveUp"
    [] stage = "repair"     -> IF r = "Success" THEN "revalidate" ELSE "giveUp"
    [] stage = "revalidate" -> IF r = "Success" THEN "session" ELSE "giveUp"
    [] stage = "session"    -> IF r = "Success" THEN "none" ELSE "giveUp"

StagePlan(s) ==
  CASE s = "query"                      -> <<"QueryType">>
    [] s \in {"pair", "repair"}         -> Pairing("Pair")
    [] s \in {"validate", "revalidate"} -> Pairing("ValidatePair")
    [] s = "session"                    -> <<"StartSession">>
    [] s = "giveUp"                     -> Farewell(session')
    [] s = "none"                       -> <<>>

\* Request v ended with r: the next request of the call, or its end.  Without
\* a public key do_pair sends no pairing request.
Advance(v, r) ==
  LET rest == IF v = "PublicKey" /\ r # "Success" THEN Tail(Tail(plan)) ELSE Tail(plan)
      final == IF v = "PublicKey" THEN "error" ELSE r
  IN  /\ UNCHANGED call
      /\ IF rest # <<>>
         THEN plan' = rest /\ pc' = "ready" /\ UNCHANGED <<stage, ret>>
         ELSE /\ stage' = IF stage = "none" THEN "none" ELSE NextStage(final)
              /\ plan' = StagePlan(stage')
              /\ pc' = IF plan' = <<>> THEN "returned" ELSE "ready"
              /\ ret' = final

-----------------------------------------------------------------------------
(* The client.                                                             *)

Begin(c) == calls < MaxCalls /\ calls' = calls + 1 /\ call' = c

\* lockdownd_client_new, or with_handshake: a new connection.
Open(c) ==
  /\ pc = "none" /\ Begin(c)
  /\ IF c = "New" THEN pc' = "returned" /\ plan' = <<>> /\ stage' = "none" /\ ret' = "Success"
                  ELSE pc' = "ready" /\ plan' = StagePlan("query") /\ stage' = "query"
                       /\ ret' = "none"
  /\ named' = (c = "Handshake")
  /\ session' = NoSession /\ ssl_enabled' = FALSE /\ ssl' = FALSE
  /\ inbox' = <<>> /\ outbox' = <<>> /\ link' = "up" /\ faulty' = FALSE
  /\ dsession' = NoSession /\ dssl' = FALSE
  /\ UNCHANGED <<key, service, port, sent, granted, paired, everPaired, nextId>>

Call(c) ==
  /\ pc = "idle" /\ Begin(c)
  /\ IF c \in NeedsSession /\ session = NoSession
     THEN pc' = "returned" /\ plan' = <<>> /\ ret' = "error"
     ELSE pc' = "ready" /\ plan' = Plan(c) /\ ret' = "none"
  /\ stage' = "none" /\ port' = "none"
  /\ service' \in IF c = "StartService" THEN Services ELSE {service}
  /\ UNCHANGED <<state, inbox, outbox, link, sent, faulty, lockdownd>>

\* The StopSession of a freed id carries whatever the memory holds now.
Request(v) == [n |-> sent + 1, kind |-> v, arg |-> IF v = "StartService" THEN service ELSE "none",
               id |-> IF v = "StopSession" /\ session # Freed THEN session ELSE NoSession,
               ssl |-> ssl]

Ready(v) == pc = "ready" /\ Head(plan) = v

Send(v) ==
  /\ Ready(v) /\ v # "Close" /\ link # "eof"
  /\ pc' = "waiting"
  /\ sent' = sent + 1
  /\ inbox' = Append(inbox, Request(v))
  /\ UNCHANGED <<call, plan, stage, ret, state, service, port, outbox, link, faulty, lockdownd,
                 calls>>

\* These look for an answer even when the request could not be sent.
Careless == {"QueryType", "StopSession", "EnterRecovery", "Goodbye", "Activate", "Deactivate"}

SendFails(v) ==
  /\ Ready(v) /\ v # "Close" /\ link = "eof"
  /\ faulty' = TRUE
  /\ UNCHANGED <<state, service, port, inbox, outbox, link, sent, lockdownd, calls>>
  /\ IF v \in Careless THEN pc' = "waiting" /\ UNCHANGED <<call, plan, stage, ret>>
     ELSE Advance(v, "error")

\* A slip: the key is kept before the device has answered.
KeepKeyEarly(v, r) ==
  key' = IF named /\ v \in Pairings THEN v # "Unpair" ELSE key

\* do_pair keeps or drops the public key, once it knows the uuid.
KeepKey(v, r) ==
  key' = IF r = "Success" /\ named /\ v \in Pairings THEN v # "Unpair" ELSE key

\* start_session takes an answer that is no refusal for a new session.
Opened(a) == a # Nothing /\ Check("StartSession", a) \in {"Success", "none"}
WantsTLS(v, a) == v = "StartSession" /\ Opened(a) /\ a.tls

\* A slip: the id is only kept when the session has TLS.
NewIdTLSOnly(a) == session' = IF Opened(a) /\ a.tls THEN a.id ELSE session

NewId(a) == session' = IF Opened(a) /\ a.id # NoSession THEN a.id ELSE session

\* The result of the call.  enable_ssl refuses a connection that has TLS.
Outcome(v, a) == IF WantsTLS(v, a) THEN "error" ELSE Verdict(v, a)

\* What an answer a (Nothing for none) to request v does to the client, TLS
\* apart.  The callers of stop_session free the id and leave the pointer.
Digest(v, a) ==
  /\ CASE v = "StopSession"  -> session' = Freed /\ UNCHANGED ssl_enabled
       [] v = "StartSession" -> NewId(a) /\ ssl_enabled' = (ssl_enabled /\ ~Opened(a))
       [] OTHER              -> UNCHANGED <<session, ssl_enabled>>
  /\ KeepKey(v, Outcome(v, a))
  /\ port' = IF v = "StartService" /\ Outcome(v, a) = "Success" THEN a.arg ELSE port
  /\ Advance(v, Outcome(v, a))

\* Inside the call the client begins TLS, or ends it.
BeginsTLS(v, a) == WantsTLS(v, a) /\ ~ssl
EndsTLS(v)      == v = "StopSession" /\ ssl_enabled /\ ssl

\* An answer that arrived is taken for the answer to the request just made.
Receive(v) ==
  /\ pc = "waiting" /\ Head(plan) = v
  /\ outbox # <<>> /\ link # "garbled" /\ Head(outbox).ssl = ssl
  /\ outbox' = Tail(outbox)
  /\ LET a == Head(outbox)
     IN  \/ /\ BeginsTLS(v, a) /\ pc' = "handshake" /\ NewId(a)
            /\ UNCHANGED <<call, plan, stage, ret, ssl_enabled, key, port, faulty>>
         \/ /\ EndsTLS(v) /\ pc' = "bye"
            /\ UNCHANGED <<call, plan, stage, ret, session, ssl_enabled, key, port, faulty>>
         \/ /\ ~BeginsTLS(v, a) /\ ~EndsTLS(v) /\ Digest(v, a)
            /\ faulty' = (faulty \/ WantsTLS(v, a))
  /\ UNCHANGED <<named, ssl, service, inbox, link, sent, lockdownd, calls>>

\* From here on no answer is read for what it is.
Derail == outbox' = <<>> /\ link' = IF link = "eof" THEN link ELSE "garbled"

\* gnutls_handshake returns: it succeeds if both ends are ready for it and
\* nothing else is on the wire.  Only then connection->ssl_data is set.
Handshake(ok) ==
  /\ pc = "handshake"
  /\ ok => link = "up" /\ dssl /\ inbox = <<>> /\ outbox = <<>>
  /\ ssl' = ok /\ ssl_enabled' = ok /\ faulty' = (faulty \/ ~ok)
  /\ IF ok THEN UNCHANGED <<link, outbox>> ELSE Derail
  /\ UNCHANGED <<named, session, key, service, port, inbox, sent, lockdownd, calls>>
  /\ Advance("StartSession", IF ok THEN "Success" ELSE "error")

\* gnutls_bye returns, for stop_session or for idevice_disconnect: the device
\* has said goodbye too, or has sent something else.
Bye ==
  /\ pc = "bye" /\ ssl' = FALSE
  /\ IF outbox = <<>> THEN UNCHANGED <<link, outbox, faulty>> ELSE Derail /\ faulty' = TRUE
  /\ IF Head(plan) = "Close"
     THEN pc' = "ready" /\ UNCHANGED <<call, plan, stage, ret, session>>
     ELSE session' = Freed /\ Advance("StopSession", "error")
  /\ UNCHANGED <<named, ssl_enabled, key, service, port, inbox, sent, lockdownd, calls>>

\* A slip: the end of the stream is repeated as a time-out is.
SilentForEver == pc \in {"handshake", "bye"}

\* Both read through internal_ssl_read, which repeats a read that timed out
\* and returns for an error: a device that says nothing keeps them waiting.
Silent == pc \in {"handshake", "bye"} /\ link # "eof"

\* No answer within ten seconds; but under TLS a read that times out is
\* repeated for ever (internal_ssl_read).
TimesOut == outbox = <<>> /\ ~ssl

\* lockdownd_receive gives nothing: too late, the end of the stream, an
\* answer of which only a part arrives in time, or bytes out of step.
ReceiveFails(v) ==
  /\ pc = "waiting" /\ Head(plan) = v
  /\ faulty' = TRUE
  /\ Digest(v, Nothing)
  /\ \/ TimesOut /\ UNCHANGED <<link, outbox>>
     \/ outbox = <<>> /\ link = "eof" /\ UNCHANGED <<link, outbox>>
     \/ outbox # <<>> /\ (~ssl \/ ~Head(outbox).ssl \/ link = "eof") /\ Derail
     \/ link = "garbled" /\ UNCHANGED <<link, outbox>>
  /\ UNCHANGED <<named, ssl, service, inbox, sent, lockdownd, calls>>

\* After stop_session, start_session and client_free free an id that is freed
\* already: the C library may notice, or go on.
DoubleFree ==
  /\ pc \in {"waiting", "bye"} /\ Head(plan) = "StopSession" /\ session = Freed
  /\ pc' = "aborted"
  /\ UNCHANGED <<call, plan, stage, ret, state, service, port, inbox, outbox, link, sent,
                 faulty, lockdownd, calls>>

\* property_list_service_client_free ends TLS, if it is still on ...
CloseTLS ==
  /\ Ready("Close") /\ ssl /\ pc' = "bye"
  /\ UNCHANGED <<call, plan, stage, ret, state, service, port, inbox, outbox, link, sent,
                 faulty, lockdownd, calls>>

\* ... and the connection is gone.
Close ==
  /\ Ready("Close") /\ ~ssl
  /\ pc' = "returned" /\ plan' = <<>> /\ stage' = "none"
  /\ ret' = IF call = "Free" THEN "Success" ELSE ret
  /\ session' = NoSession /\ ssl_enabled' = FALSE /\ link' = "eof"
  /\ inbox' = <<>> /\ outbox' = <<>>
  /\ dssl' = FALSE
  /\ UNCHANGED <<call, named, ssl, key, service, port, sent, granted, faulty, paired, everPaired,
                 dsession, nextId, calls>>

Return ==
  /\ pc = "returned"
  /\ pc' = IF call = "Free" \/ (call = "Handshake" /\ ret # "Success") THEN "none" ELSE "idle"
  /\ call' = "none" /\ ret' = "none" /\ port' = "none"
  /\ UNCHANGED <<plan, stage, state, service, inbox, outbox, link, sent, faulty, lockdownd,
                 calls>>

-----------------------------------------------------------------------------
(* lockdownd (external).                                                   *)

Results(q) ==
  CASE q.kind \in {"QueryType", "Goodbye"} -> {"Success"}
    [] q.kind = "StopSession"  -> IF dsession # NoSession /\ q.id = dsession
                                  THEN {"Success"} ELSE {"Failure"}
    [] q.kind = "StartService" -> IF dsession = NoSession THEN {"Failure"}
                                  ELSE {"Success", "Failure"}
    [] q.kind \in {"ValidatePair", "Unpair", "StartSession"} /\ ~paired
                               -> {"InvalidHostID", "Failure"}
    [] q.kind = "StartSession" /\ paired /\ dsession # NoSession -> {"Failure"}
    [] OTHER                   -> {"Success", "Failure"}

\* An Unpair is answered as a ValidatePair.
Answer(q, result, tls) ==
  [n |-> q.n, kind |-> IF q.kind = "Unpair" THEN "ValidatePair" ELSE Wire(q.kind),
   result |-> result,
   arg |-> CASE result # "Success" -> "none"
             [] q.kind = "PublicKey" -> "PublicKey"
             [] OTHER -> q.arg,
   id |-> IF q.kind = "StartSession" /\ result = "Success" THEN nextId ELSE NoSession,
   tls |-> tls, ssl |-> dssl]

\* What it grants takes effect with the answer; TLS starts or ends after it.
Answers ==
  /\ inbox # <<>> /\ link # "eof"
  /\ Head(inbox).ssl = dssl
  /\ LET q == Head(inbox)
     IN  \E result \in Results(q), tls \in BOOLEAN :
          /\ tls => q.kind = "StartSession" /\ result = "Success"
          /\ inbox' = Tail(inbox)
          /\ outbox' = Append(outbox, Answer(q, result, tls))
          /\ link' = IF q.kind \in {"Goodbye", "EnterRecovery"} /\ result = "Success"
                     THEN "eof" ELSE link
          /\ IF result # "Success" THEN UNCHANGED lockdownd
             ELSE /\ granted' = q.n
                  /\ paired' = (IF q.kind \in Pairings THEN q.kind # "Unpair" ELSE paired)
                  /\ everPaired' = (everPaired \/ paired')
                  /\ dsession' = CASE q.kind = "StartSession" -> nextId
                                   [] q.kind = "StopSession" -> NoSession
                                   [] OTHER -> dsession
                  /\ dssl' = CASE q.kind = "StartSession" -> tls
                               [] q.kind = "StopSession" -> FALSE
                               [] OTHER -> dssl
                  /\ nextId' = IF q.kind = "StartSession" THEN nextId + 1 ELSE nextId
  /\ UNCHANGED <<client, state, service, port, sent, faulty, calls>>

\* It closes the connection: the cable, ten idle seconds, bytes that are no
\* request.  Answers under way may be lost.
Drops ==
  /\ pc # "none" /\ link # "eof" /\ link' = "eof"
  /\ inbox' = <<>> /\ outbox' \in {outbox, <<>>}
  /\ UNCHANGED <<client, state, service, port, sent, faulty, lockdownd, calls>>

-----------------------------------------------------------------------------
Requests == Simple \cup Pairings \cup {"PublicKey", "StartSession", "StopSession"}

Step ==
  \/ \E v \in Requests : Send(v) \/ SendFails(v) \/ Receive(v) \/ ReceiveFails(v)
  \/ \E ok \in BOOLEAN : Handshake(ok)
  \/ Bye \/ DoubleFree \/ CloseTLS \/ Close \/ Return

Next ==
  \/ \E c \in {"New", "Handshake"} : Open(c)
  \/ \E c \in ApiCalls : Call(c)
  \/ Step
  \/ Answers \/ Drops

Spec == Init /\ [][Next]_vars

\* The process runs; nothing obliges the device to answer, or to hang up.
FairSpec == Spec /\ WF_vars(Step /\ ~Silent)

-----------------------------------------------------------------------------
Ids == Nat \cup {Freed}
ResultNames == {"Success", "Failure", "InvalidHostID"}
Args == Services \cup {"none", "PublicKey"}
Sent == [n : Nat, kind : Requests, arg : Args, id : Ids, ssl : BOOLEAN]
Answered == [n : Nat, kind : Requests, result : ResultNames, arg : Args, id : Ids,
             tls : BOOLEAN, ssl : BOOLEAN]

\* Type invariant.
TypeOK ==
  /\ pc \in {"none", "idle", "ready", "waiting", "handshake", "bye", "returned", "aborted"}
  /\ call \in ApiCalls \cup {"none", "New", "Handshake"}
  /\ plan \in Seq(Requests \cup {"Close"})
  /\ stage \in {"none", "query", "pair", "validate", "repair", "revalidate", "session",
                "giveUp"}
  /\ ret \in {"none", "Success", "InvalidHostID", "error"}
  /\ named \in BOOLEAN /\ session \in Ids /\ ssl_enabled \in BOOLEAN /\ ssl \in BOOLEAN
  /\ key \in BOOLEAN /\ service \in Services /\ port \in Args
  /\ inbox \in Seq(Sent) /\ outbox \in Seq(Answered)
  /\ link \in {"up", "eof", "garbled"} /\ sent \in Nat /\ granted \in Nat
  /\ faulty \in BOOLEAN /\ paired \in BOOLEAN /\ everPaired \in BOOLEAN
  /\ dsession \in Nat /\ dssl \in BOOLEAN /\ nextId \in Nat /\ calls \in Nat

\* A call that reports success was granted its own last request, and not an
\* earlier one, as long as no receive of the connection has failed.
SuccessIsGranted ==
  pc = "returned" /\ ret = "Success" /\ call \in Strict /\ ~faulty
  => granted = sent /\ (call = "StartService" => port = service)

\* A handshake that succeeds has been validated: the device trusts this host,
\* although the results of the query and of the first pairing are overwritten,
\* whatever is lost, late or out of step.
HandshakeIsValidated ==
  pc = "returned" /\ call = "Handshake" /\ ret = "Success" => paired

\* Between calls the two ends agree on the session and on TLS, and a client
\* that is freed leaves no session behind on the device, unless something failed
\* or start_session left a freed id.
EndsAgree ==
  ~faulty =>
    /\ pc = "idle" => ssl = dssl /\ (session # Freed => session = dsession)
    /\ pc = "returned" /\ call = "Free" => dsession = NoSession

\* The host keeps a public key only of a device that has trusted it, whatever
\* is lost, late or out of step.
KeyMeansPaired == key => everPaired

\* A call returns whatever the device does, or waits inside TLS: for the
\* handshake, for an answer under TLS or for the device's goodbye; and a device
\* that hangs up ends it there too.
CallsReturnOutsideTLS ==
  /\ pc = "ready" ~> \/ pc \in {"returned", "aborted", "handshake", "bye"}
                     \/ pc = "waiting" /\ ssl
  /\ pc \in {"ready", "waiting", "handshake", "bye"} /\ link = "eof"
       ~> pc \in {"returned", "aborted"}

\* "This function is like property_list_service_receive_plist_with_timeout
\* using a timeout of 10 seconds": every wait for an answer ends.
ReceivesEnd == pc = "waiting" ~> pc # "waiting"
=============================================================================
