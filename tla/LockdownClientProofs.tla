------------------------ MODULE LockdownClientProofs ------------------------
(***************************************************************************)
(* Proofs about LockdownClient, for any services, calls and bounds: the    *)
(* host keeps a public key only of a device that has trusted it, whatever  *)
(* the device answers, however late, and whatever is lost (KeyIsTrusted);  *)
(* every variable keeps its type (TypeCorrect); and as long as nothing has *)
(* failed on the connection the two ends are in step (SuccessWasGranted,   *)
(* EndsInAgreement).                                                       *)
(***************************************************************************)
EXTENDS LockdownClient, SequenceTheorems, TLAPS

\* What goes over the wire is well formed, and so is what requests are made of.
WireOK ==
  /\ session \in Ids /\ ssl \in BOOLEAN /\ service \in Services
  /\ inbox \in Seq(Sent) /\ outbox \in Seq(Answered)
  /\ sent \in Nat /\ dsession \in Nat /\ dssl \in BOOLEAN /\ nextId \in Nat

\* An answer that makes the client keep the key is proof of trust.
Grants(a) == a.kind \in {"Pair", "ValidatePair"} /\ a.result = "Success"

\* The inductive invariant: trust is remembered, and every answer that may
\* still be read, however late, tells of it.
TrustInv ==
  /\ WireOK
  /\ key \in BOOLEAN /\ paired \in BOOLEAN /\ everPaired \in BOOLEAN
  /\ key => everPaired
  /\ paired => everPaired
  /\ \A i \in DOMAIN outbox : Grants(outbox[i]) => everPaired

\* A sequence keeps a property of its elements when its head is taken.
LEMMA TailElements ==
  ASSUME NEW S, NEW s \in Seq(S), s # <<>>
  PROVE  /\ Head(s) \in S /\ Tail(s) \in Seq(S)
         /\ Head(s) = s[1] /\ 1 \in DOMAIN s
         /\ \A i \in DOMAIN Tail(s) : i + 1 \in DOMAIN s /\ Tail(s)[i] = s[i + 1]
  OBVIOUS

\* Every element of a sequence after an Append is an old one or the new one.
LEMMA AppendElements ==
  ASSUME NEW S, NEW s \in Seq(S), NEW e \in S
  PROVE  /\ Append(s, e) \in Seq(S)
         /\ \A i \in DOMAIN Append(s, e) :
              Append(s, e)[i] = e \/ (i \in DOMAIN s /\ Append(s, e)[i] = s[i])
  OBVIOUS

\* Reading an answer, or none, makes the client keep the key only on an
\* answer that grants it.
LEMMA KeyNeedsGrant ==
  ASSUME NEW v \in Requests, NEW a, Digest(v, a), key \in BOOLEAN, a \in Answered \/ a = Nothing
  PROVE  key' \in BOOLEAN /\ (key' => key \/ Grants(a))
<1> DEFINE r == Outcome(v, a)
<1>1. KeepKey(v, r)
  BY DEF Digest
<1>2. CASE r = "Success" /\ named /\ v \in {"Pair", "ValidatePair"}
  <2>1. Verdict(v, a) = "Success"
    BY <1>2 DEF Outcome
  <2>2. a # Nothing
    BY <2>1 DEF Verdict
  <2>3. Said(v, a) = "Success"
    BY <1>2, <2>1, <2>2 DEF Verdict, Pairings
  <2>4. Check(v, a) = "Success"
    BY <2>3 DEF Said
  <2>5. a.kind = v /\ a.result = "Success"
    BY <1>2, <2>4 DEF Check, Wire
  <2> QED
    BY <1>1, <1>2, <2>5 DEF KeepKey, Grants, Pairings
<1>3. CASE ~(r = "Success" /\ named /\ v \in {"Pair", "ValidatePair"})
  BY <1>1, <1>3 DEF KeepKey, Pairings
<1> QED
  BY <1>2, <1>3

\* Reading an answer leaves a well-formed session id.
LEMMA DigestTypes ==
  ASSUME NEW v \in Requests, NEW a, Digest(v, a), session \in Ids,
         a \in Answered \/ a = Nothing
  PROVE  session' \in Ids
<1>1. a.id \in Ids
  BY DEF Answered, Nothing, Ids, NoSession
<1>2. CASE v = "StopSession"
  BY <1>2 DEF Digest, Ids
<1>3. CASE v = "StartSession"
  BY <1>1, <1>3 DEF Digest, NewId
<1>4. CASE v \notin {"StopSession", "StartSession"}
  BY <1>4 DEF Digest
<1> QED
  BY <1>2, <1>3, <1>4

-----------------------------------------------------------------------------
\* The invariant is inductive: one step per action.
LEMMA InitTrust ==
  ASSUME Init PROVE TrustInv
<1>1. 1 \in Nat /\ 0 \in Nat
  OBVIOUS
<1>2. inbox \in Seq(Sent) /\ outbox \in Seq(Answered) /\ DOMAIN outbox = {}
  BY DEF Init
<1> QED
  BY <1>1, <1>2 DEF Init, TrustInv, WireOK, Ids, NoSession

LEMMA OpenTrust ==
  ASSUME TrustInv, NEW c, Open(c) PROVE TrustInv'
<1>1. inbox' \in Seq(Sent) /\ outbox' \in Seq(Answered) /\ DOMAIN outbox' = {}
  BY DEF Open
<1> QED
  BY <1>1 DEF Open, TrustInv, WireOK, Ids, NoSession

LEMMA CallTrust ==
  ASSUME TrustInv, NEW c, Call(c) PROVE TrustInv'
<1>1. service' \in Services
  BY DEF Call, TrustInv, WireOK
<1> QED
  BY <1>1 DEF Call, TrustInv, WireOK, state, lockdownd

LEMMA SendTrust ==
  ASSUME TrustInv, NEW v \in Requests, Send(v) PROVE TrustInv'
<1>1. Request(v) \in Sent
  BY DEF Request, Sent, Args, Ids, NoSession, Freed, TrustInv, WireOK
<1>2. inbox' \in Seq(Sent)
  BY <1>1, AppendElements DEF Send, TrustInv, WireOK
<1>3. sent' \in Nat
  BY DEF Send, TrustInv, WireOK
<1> QED
  BY <1>2, <1>3 DEF Send, TrustInv, WireOK, state, lockdownd

LEMMA SendFailsTrust ==
  ASSUME TrustInv, NEW v \in Requests, SendFails(v) PROVE TrustInv'
<1> QED
  BY DEF SendFails, TrustInv, WireOK, state, lockdownd

\* What a client that has an answer does with it.
ReceiveDoes(v, a) ==
  \/ /\ BeginsTLS(v, a) /\ pc' = "handshake" /\ NewId(a)
     /\ UNCHANGED <<call, plan, stage, ret, ssl_enabled, key, port, faulty>>
  \/ /\ EndsTLS(v) /\ pc' = "bye"
     /\ UNCHANGED <<call, plan, stage, ret, session, ssl_enabled, key, port, faulty>>
  \/ /\ ~BeginsTLS(v, a) /\ ~EndsTLS(v) /\ Digest(v, a)
     /\ faulty' = (faulty \/ WantsTLS(v, a))

LEMMA ReceiveTrust ==
  ASSUME TrustInv, NEW v \in Requests, Receive(v) PROVE TrustInv'
<1> DEFINE a == Head(outbox)
<1>1. /\ a \in Answered /\ outbox' \in Seq(Answered)
      /\ a = outbox[1] /\ 1 \in DOMAIN outbox
      /\ \A i \in DOMAIN outbox' : i + 1 \in DOMAIN outbox /\ outbox'[i] = outbox[i + 1]
  BY TailElements DEF Receive, TrustInv, WireOK
<1>2. ReceiveDoes(v, a) /\ UNCHANGED ssl
  BY DEF Receive, ReceiveDoes
<1>3. key' \in BOOLEAN /\ (key' => key \/ Grants(a))
  BY <1>1, <1>2, KeyNeedsGrant DEF ReceiveDoes, TrustInv
<1>4. session' \in Ids
  <2>1. a.id \in Ids /\ session \in Ids
    BY <1>1 DEF TrustInv, WireOK, Answered
  <2>2. CASE BeginsTLS(v, a) /\ NewId(a)
    BY <2>1, <2>2 DEF NewId
  <2>3. CASE EndsTLS(v) /\ UNCHANGED session
    BY <2>1, <2>3
  <2>4. CASE Digest(v, a)
    BY <1>1, <2>1, <2>4, DigestTypes
  <2> QED
    BY <1>2, <2>2, <2>3, <2>4 DEF ReceiveDoes
<1>5. Grants(a) => everPaired
  BY <1>1 DEF TrustInv
<1>6. \A i \in DOMAIN outbox' : Grants(outbox'[i]) => everPaired
  BY <1>1 DEF TrustInv
<1> HIDE DEF a
<1> QED
  BY <1>1, <1>3, <1>4, <1>5, <1>6 DEF Receive, TrustInv, WireOK, lockdownd

LEMMA ReceiveFailsTrust ==
  ASSUME TrustInv, NEW v \in Requests, ReceiveFails(v) PROVE TrustInv'
<1>1. Digest(v, Nothing)
  BY DEF ReceiveFails
<1>2. key' \in BOOLEAN /\ (key' => key)
  <2>1. key' \in BOOLEAN /\ (key' => key \/ Grants(Nothing))
    BY <1>1, KeyNeedsGrant DEF TrustInv
  <2>2. ~Grants(Nothing)
    BY DEF Grants, Nothing
  <2> QED
    BY <2>1, <2>2
<1>3. session' \in Ids /\ ssl' \in BOOLEAN
  BY <1>1, DigestTypes DEF ReceiveFails, TrustInv, WireOK
<1>4. CASE UNCHANGED outbox
  <2>1. UNCHANGED <<service, inbox, sent, dsession, dssl, nextId, paired, everPaired>>
    BY DEF ReceiveFails, lockdownd
  <2>2. WireOK'
    BY <1>3, <1>4, <2>1 DEF TrustInv, WireOK
  <2>3. \A i \in DOMAIN outbox' : Grants(outbox'[i]) => everPaired
    BY <1>4 DEF TrustInv
  <2> QED
    BY <1>2, <2>1, <2>2, <2>3 DEF TrustInv
<1>5. CASE outbox' = <<>>
  <2>1. outbox' \in Seq(Answered) /\ DOMAIN outbox' = {}
    BY <1>5
  <2> QED
    BY <1>2, <1>3, <2>1 DEF ReceiveFails, TrustInv, WireOK, lockdownd
<1> QED
  BY <1>4, <1>5 DEF ReceiveFails, Derail

\* TLS begins, or ends.
LEMMA TLSTrust ==
  ASSUME TrustInv, (\E ok \in BOOLEAN : Handshake(ok)) \/ Bye PROVE TrustInv'
<1>1. /\ ssl' \in BOOLEAN /\ session' \in Ids /\ outbox' \in {outbox, <<>>}
      /\ UNCHANGED <<key, service, inbox, sent, lockdownd>>
  <2>1. ASSUME NEW ok \in BOOLEAN, Handshake(ok)
        PROVE  /\ ssl' \in BOOLEAN /\ session' = session /\ outbox' \in {outbox, <<>>}
               /\ UNCHANGED <<key, service, inbox, sent, lockdownd>>
    BY <2>1 DEF Handshake, Derail
  <2>2. ASSUME Bye
        PROVE  /\ ssl' \in BOOLEAN /\ session' \in {session, Freed} /\ outbox' \in {outbox, <<>>}
               /\ UNCHANGED <<key, service, inbox, sent, lockdownd>>
    BY <2>2 DEF Bye, Derail
  <2> QED
    BY <2>1, <2>2 DEF TrustInv, WireOK, Ids
<1>2. CASE UNCHANGED outbox
  BY <1>1, <1>2 DEF TrustInv, WireOK, lockdownd
<1>3. CASE outbox' = <<>>
  <2>1. outbox' \in Seq(Answered) /\ DOMAIN outbox' = {}
    BY <1>3
  <2> QED
    BY <1>1, <2>1 DEF TrustInv, WireOK, lockdownd
<1> QED
  BY <1>1, <1>2, <1>3

LEMMA CloseTrust ==
  ASSUME TrustInv, Close PROVE TrustInv'
<1>1. inbox' \in Seq(Sent) /\ outbox' \in Seq(Answered) /\ DOMAIN outbox' = {}
  BY DEF Close
<1> QED
  BY <1>1 DEF Close, TrustInv, WireOK, Ids, NoSession

LEMMA DropsTrust ==
  ASSUME TrustInv, Drops PROVE TrustInv'
<1>1. inbox' \in Seq(Sent)
  BY DEF Drops
<1>2. CASE UNCHANGED outbox
  BY <1>1, <1>2 DEF Drops, TrustInv, WireOK, state, lockdownd
<1>3. CASE outbox' = <<>>
  <2>1. outbox' \in Seq(Answered) /\ DOMAIN outbox' = {}
    BY <1>3
  <2> QED
    BY <1>1, <2>1 DEF Drops, TrustInv, WireOK, state, lockdownd
<1> QED
  BY <1>2, <1>3 DEF Drops

\* The device's answer: everPaired is set by the step that grants.
LEMMA AnswersTrust ==
  ASSUME TrustInv, Answers PROVE TrustInv'
<1> DEFINE q == Head(inbox)
<1>1. q \in Sent /\ inbox' \in Seq(Sent)
  BY TailElements DEF Answers, TrustInv, WireOK
<1>2. PICK result \in Results(q), tls \in BOOLEAN :
        /\ outbox' = Append(outbox, Answer(q, result, tls))
        /\ IF result # "Success" THEN UNCHANGED lockdownd
           ELSE /\ paired' = (IF q.kind \in Pairings THEN q.kind # "Unpair" ELSE paired)
                /\ everPaired' = (everPaired \/ paired')
                /\ dsession' = CASE q.kind = "StartSession" -> nextId
                                 [] q.kind = "StopSession" -> NoSession
                                 [] OTHER -> dsession
                /\ dssl' = CASE q.kind = "StartSession" -> tls
                             [] q.kind = "StopSession" -> FALSE
                             [] OTHER -> dssl
                /\ nextId' = IF q.kind = "StartSession" THEN nextId + 1 ELSE nextId
  BY DEF Answers
<1>3. UNCHANGED <<session, ssl, key, service, sent>>
  BY DEF Answers, state
<1> DEFINE a == Answer(q, result, tls)
<1>4. a \in Answered
  <2>1. q.kind \in Requests /\ q.n \in Nat /\ q.arg \in Args
    BY <1>1 DEF Sent
  <2>2. result \in ResultNames
    BY <1>2 DEF Results, ResultNames
  <2>3. (IF q.kind = "Unpair" THEN "ValidatePair" ELSE Wire(q.kind)) \in Requests
    BY <2>1 DEF Wire, Requests, Simple, Pairings
  <2>4. (CASE result # "Success" -> "none" [] q.kind = "PublicKey" -> "PublicKey"
           [] OTHER -> q.arg) \in Args
    BY <2>1 DEF Args
  <2>5. (IF q.kind = "StartSession" /\ result = "Success" THEN nextId ELSE NoSession) \in Ids
    BY DEF TrustInv, WireOK, Ids, NoSession
  <2>6. dssl \in BOOLEAN /\ tls \in BOOLEAN
    BY <1>2 DEF TrustInv, WireOK
  <2> QED
    BY <2>1, <2>2, <2>3, <2>4, <2>5, <2>6 DEF Answer, Answered
<1>5. /\ outbox' \in Seq(Answered)
      /\ \A i \in DOMAIN outbox' :
           outbox'[i] = a \/ (i \in DOMAIN outbox /\ outbox'[i] = outbox[i])
  BY <1>2, <1>4, AppendElements DEF TrustInv, WireOK
<1>6. /\ paired' \in BOOLEAN /\ everPaired' \in BOOLEAN
      /\ (everPaired => everPaired') /\ (paired' => everPaired')
  <2>1. CASE result = "Success"
    BY <1>2, <2>1 DEF TrustInv
  <2>2. CASE result # "Success"
    BY <1>2, <2>2 DEF TrustInv, lockdownd
  <2> QED
    BY <2>1, <2>2
<1>7. dsession' \in Nat /\ dssl' \in BOOLEAN /\ nextId' \in Nat
  <2>1. CASE result = "Success"
    <3>1. CASE q.kind = "StartSession"
      <4>1. dsession' = nextId /\ nextId' = nextId + 1 /\ dssl' = tls
        BY <1>2, <2>1, <3>1
      <4>2. dssl' \in BOOLEAN
        BY <4>1
      <4>3. nextId \in Nat
        BY DEF TrustInv, WireOK
      <4> QED
        BY <4>1, <4>2, <4>3
    <3>2. CASE q.kind = "StopSession"
      <4>1. dsession' = NoSession /\ dssl' = FALSE /\ nextId' = nextId
        BY <1>2, <2>1, <3>2
      <4> QED
        BY <4>1 DEF TrustInv, WireOK, NoSession
    <3>3. CASE q.kind \notin {"StartSession", "StopSession"}
      <4>1. dsession' = dsession /\ dssl' = dssl /\ nextId' = nextId
        BY <1>2, <2>1, <3>3
      <4> QED
        BY <4>1 DEF TrustInv, WireOK
    <3> QED
      BY <3>1, <3>2, <3>3
  <2>2. CASE result # "Success"
    BY <1>2, <2>2 DEF TrustInv, WireOK, lockdownd
  <2> QED
    BY <2>1, <2>2
<1>8. Grants(a) => everPaired'
  <2> SUFFICES ASSUME Grants(a) PROVE everPaired'
    OBVIOUS
  <2>1. result = "Success" /\ q.kind \in Pairings
    BY <1>1 DEF Grants, Answer, Wire, Sent, Pairings
  <2>2. CASE q.kind = "Unpair"
    \* Unpair succeeds only for a host the device trusts
    <3>1. paired
      BY <1>2, <2>1, <2>2 DEF Results, Pairings
    <3> QED
      BY <1>6, <3>1 DEF TrustInv
  <2>3. CASE q.kind # "Unpair"
    BY <1>2, <1>6, <2>1, <2>3
  <2> QED
    BY <2>2, <2>3
<1>9. \A i \in DOMAIN outbox' : Grants(outbox'[i]) => everPaired'
  BY <1>5, <1>6, <1>8 DEF TrustInv
<1> HIDE DEF a, q
<1>10. WireOK'
  BY <1>1, <1>3, <1>5, <1>7 DEF TrustInv, WireOK
<1> QED
  BY <1>3, <1>6, <1>9, <1>10 DEF TrustInv

\* The remaining steps touch nothing the invariant speaks of.
LEMMA QuietTrust ==
  ASSUME TrustInv, DoubleFree \/ CloseTLS \/ Return \/ UNCHANGED vars PROVE TrustInv'
<1>1. UNCHANGED <<session, ssl, key, service, inbox, outbox, sent, paired, everPaired,
                  dsession, dssl, nextId>>
  BY DEF DoubleFree, CloseTLS, Return, vars, state, lockdownd
<1> QED
  BY <1>1 DEF TrustInv, WireOK

LEMMA NextTrust ==
  ASSUME TrustInv, [Next]_vars PROVE TrustInv'
<1>1. ASSUME NEW c, Open(c) \/ Call(c) PROVE TrustInv'
  BY <1>1, OpenTrust, CallTrust
<1>2. ASSUME NEW v \in Requests, Send(v) \/ SendFails(v) \/ Receive(v) \/ ReceiveFails(v)
      PROVE  TrustInv'
  BY <1>2, SendTrust, SendFailsTrust, ReceiveTrust, ReceiveFailsTrust
<1>3. CASE DoubleFree \/ CloseTLS \/ Return \/ UNCHANGED vars
  BY <1>3, QuietTrust
<1>4. CASE Close \/ Bye \/ \E ok \in BOOLEAN : Handshake(ok)
  BY <1>4, CloseTrust, TLSTrust
<1>5. CASE Answers \/ Drops
  BY <1>5, AnswersTrust, DropsTrust
<1> QED
  BY <1>1, <1>2, <1>3, <1>4, <1>5 DEF Next, Step

\* The host keeps a public key only of a device that has trusted it
\* (lockdownd_do_pair, userpref.c), for any services, calls and bounds.
THEOREM KeyIsTrusted == Spec => []KeyMeansPaired
<1>1. Init => TrustInv
  BY InitTrust
<1>2. TrustInv /\ [Next]_vars => TrustInv'
  BY NextTrust
<1>3. TrustInv => KeyMeansPaired
  BY DEF TrustInv, KeyMeansPaired
<1> QED
  BY <1>1, <1>2, <1>3, PTL DEF Spec

-----------------------------------------------------------------------------
(* The requests a call makes: each call, and each stage of                 *)
(* lockdownd_client_new_with_handshake, has the few plans below.           *)

Stages == {"query", "pair", "validate", "repair", "revalidate", "session", "giveUp"}
Ends == {"Success", "InvalidHostID", "error"}
ApiStates == ApiCalls \cup {"none", "New", "Handshake"}

\* Plans are short: their sequences are known by what Tuples says of them.
One(a)         == <<a>>
Two(a, b)      == <<a, b>>
Three(a, b, c) == <<a, b, c>>

Paired(p, w) == p = Two("PublicKey", w) \/ p = One(w)
Leaving(p) ==
  \/ p = Three("StopSession", "Goodbye", "Close") \/ p = Two("Goodbye", "Close")
  \/ p = One("Close")

\* p is what is left of a plan of call c, in stage s.
IsPlan(p, s, c) ==
  \/ s = "query" /\ p = One("QueryType")
  \/ s \in {"pair", "repair"} /\ Paired(p, "Pair")
  \/ s \in {"validate", "revalidate"} /\ Paired(p, "ValidatePair")
  \/ s = "session" /\ p = One("StartSession")
  \/ s = "giveUp" /\ Leaving(p)
  \/ s = "none" /\ c \in Simple /\ p = One(c)
  \/ s = "none" /\ c \in Pairings /\ Paired(p, c)
  \/ s = "none" /\ c = "StartSession" /\ (p = Two("StopSession", c) \/ p = One(c))
  \/ s = "none" /\ c = "Free" /\ Leaving(p)

\* A call is in progress.
Busy == {"ready", "waiting", "handshake", "bye"}

CallInv ==
  /\ pc \in {"none", "idle", "returned", "aborted"} \cup Busy
  /\ call \in ApiStates /\ stage \in Stages \cup {"none"} /\ ret \in Ends \cup {"none"}
  /\ plan \in Seq(Requests \cup {"Close"})
  /\ pc \in Busy => IsPlan(plan, stage, call) /\ (stage # "none" => call = "Handshake")
  /\ pc = "waiting" => Head(plan) # "Close"
  /\ pc = "handshake" => Head(plan) = "StartSession"
  /\ pc = "bye" => Head(plan) \in {"StopSession", "Close"}
  /\ pc \in {"none", "idle", "returned"} => plan = <<>> /\ stage = "none"

\* Short sequences are told apart by their heads and tails.
LEMMA Tuples ==
  /\ \A a : Head(One(a)) = a /\ Tail(One(a)) = <<>> /\ One(a) # <<>>
  /\ \A a, b : Head(Two(a, b)) = a /\ Tail(Two(a, b)) = One(b) /\ Two(a, b) # <<>>
  /\ \A a, b, c : Head(Three(a, b, c)) = a /\ Tail(Three(a, b, c)) = Two(b, c)
                  /\ Three(a, b, c) # <<>>
BY DEF One, Two, Three

\* They are sequences over any set that has their elements.
LEMMA TupleTypes ==
  ASSUME NEW S, NEW a \in S, NEW b \in S, NEW c \in S
  PROVE  One(a) \in Seq(S) /\ Two(a, b) \in Seq(S) /\ Three(a, b, c) \in Seq(S)
BY DEF One, Two, Three

\* Concatenations of the short sequences.
LEMMA Joins ==
  ASSUME NEW S, NEW a \in S, NEW b \in S, NEW c \in S
  PROVE  One(a) \o One(b) = Two(a, b) /\ One(a) \o Two(b, c) = Three(a, b, c)
<1>1. /\ One(a) \in Seq(S) /\ One(b) \in Seq(S) /\ Two(a, b) \in Seq(S) /\ Two(b, c) \in Seq(S)
      /\ Three(a, b, c) \in Seq(S)
  BY TupleTypes
<1>2. /\ Len(One(a)) = 1 /\ One(a)[1] = a /\ Len(One(b)) = 1 /\ One(b)[1] = b
      /\ Len(Two(a, b)) = 2 /\ Two(a, b)[1] = a /\ Two(a, b)[2] = b
      /\ Len(Two(b, c)) = 2 /\ Two(b, c)[1] = b /\ Two(b, c)[2] = c
  BY DEF One, Two
<1>3. /\ Len(Three(a, b, c)) = 3 /\ Three(a, b, c)[1] = a /\ Three(a, b, c)[2] = b
      /\ Three(a, b, c)[3] = c
  BY DEF Three
<1>4. One(a) \o One(b) = Two(a, b)
  <2>1. /\ One(a) \o One(b) \in Seq(S) /\ Len(One(a) \o One(b)) = 2
        /\ \A i \in 1 .. 2 : (One(a) \o One(b))[i] = IF i <= 1 THEN One(a)[i] ELSE One(b)[i - 1]
    <3>1. Len(One(a)) + Len(One(b)) = 2
      BY <1>2
    <3> QED
      BY <1>1, <1>2, <3>1, ConcatProperties
  <2>2. (One(a) \o One(b))[1] = a /\ (One(a) \o One(b))[2] = b
    BY <1>2, <2>1
  <2>3. \A i \in 1 .. 2 : (One(a) \o One(b))[i] = Two(a, b)[i]
    <3>1. \A i \in 1 .. 2 : i = 1 \/ i = 2
      OBVIOUS
    <3> QED
      BY <1>2, <2>2, <3>1
  <2> QED
    BY <1>1, <1>2, <2>1, <2>3, SeqEqual
<1>5. One(a) \o Two(b, c) = Three(a, b, c)
  <2>1. /\ One(a) \o Two(b, c) \in Seq(S) /\ Len(One(a) \o Two(b, c)) = 3
        /\ \A i \in 1 .. 3 : (One(a) \o Two(b, c))[i] = IF i <= 1 THEN One(a)[i] ELSE Two(b, c)[i - 1]
    <3>1. Len(One(a)) = 1 /\ Len(Two(b, c)) = 2
      BY <1>2
    <3>2. One(a) \in Seq(S) /\ Two(b, c) \in Seq(S)
      BY <1>1
    <3>3. /\ One(a) \o Two(b, c) \in Seq(S)
          /\ Len(One(a) \o Two(b, c)) = Len(One(a)) + Len(Two(b, c))
          /\ \A i \in 1 .. Len(One(a)) + Len(Two(b, c)) :
               (One(a) \o Two(b, c))[i] = IF i <= Len(One(a)) THEN One(a)[i]
                                         ELSE Two(b, c)[i - Len(One(a))]
      BY <3>2, ConcatProperties
    <3> QED
      BY <3>1, <3>3
  <2>2. /\ (One(a) \o Two(b, c))[1] = a /\ (One(a) \o Two(b, c))[2] = b
        /\ (One(a) \o Two(b, c))[3] = c
    BY <1>2, <2>1
  <2>3. \A i \in 1 .. 3 : (One(a) \o Two(b, c))[i] = Three(a, b, c)[i]
    <3>1. \A i \in 1 .. 3 : i = 1 \/ i = 2 \/ i = 3
      OBVIOUS
    <3> QED
      BY <1>3, <2>2, <3>1
  <2> QED
    BY <1>1, <1>3, <2>1, <2>3, SeqEqual
<1> QED
  BY <1>4, <1>5

\* What a running session puts before StartSession and before Goodbye.
LEMMA Stopping ==
  ASSUME NEW s
  PROVE  /\ Stop(s) \o <<"StartSession">> = IF s = NoSession THEN One("StartSession")
                                            ELSE Two("StopSession", "StartSession")
         /\ Farewell(s) = IF s = NoSession THEN Two("Goodbye", "Close")
                          ELSE Three("StopSession", "Goodbye", "Close")
<1>1. <<>> \o <<"StartSession">> = One("StartSession")
      /\ <<>> \o <<"Goodbye", "Close">> = Two("Goodbye", "Close")
  BY DEF One, Two
<1>2. /\ One("StopSession") \o One("StartSession") = Two("StopSession", "StartSession")
      /\ One("StopSession") \o Two("Goodbye", "Close") = Three("StopSession", "Goodbye", "Close")
  <2> DEFINE S == {"StopSession", "StartSession", "Goodbye", "Close"}
  <2>1. "StopSession" \in S /\ "StartSession" \in S /\ "Goodbye" \in S /\ "Close" \in S
    OBVIOUS
  <2> HIDE DEF S
  <2> QED
    BY <2>1, Joins
<1>3. /\ <<"StopSession">> = One("StopSession") /\ <<"StartSession">> = One("StartSession")
      /\ <<"Goodbye", "Close">> = Two("Goodbye", "Close")
  BY DEF One, Two
<1>4. CASE s = NoSession
  BY <1>1, <1>4 DEF Stop, Farewell
<1>5. CASE s # NoSession
  BY <1>2, <1>3, <1>5 DEF Stop, Farewell
<1> QED
  BY <1>4, <1>5

\* The plans are sequences of requests.
LEMMA PlanTypes ==
  ASSUME NEW p, NEW s, NEW c, IsPlan(p, s, c)
  PROVE  p \in Seq(Requests \cup {"Close"}) /\ p # <<>>
<1> DEFINE R == Requests \cup {"Close"}
<1>1. Simple \cup Pairings \cup {"PublicKey", "StartSession", "StopSession", "Close"} \subseteq R
  BY DEF Requests
<1>2. {"QueryType", "Goodbye"} \subseteq R /\ {"Pair", "ValidatePair"} \subseteq Pairings
  BY DEF Requests, Simple, Pairings
<1> HIDE DEF R
<1>3. ASSUME NEW w \in Pairings, Paired(p, w) PROVE p \in Seq(R) /\ p # <<>>
  BY <1>1, <1>3, Tuples, TupleTypes DEF Paired
<1>4. ASSUME Leaving(p) PROVE p \in Seq(R) /\ p # <<>>
  <2>1. "StopSession" \in R /\ "Goodbye" \in R /\ "Close" \in R
    BY <1>1, <1>2
  <2>2. /\ Three("StopSession", "Goodbye", "Close") \in Seq(R)
        /\ Two("Goodbye", "Close") \in Seq(R) /\ One("Close") \in Seq(R)
    BY <2>1, TupleTypes
  <2> QED
    BY <1>4, <2>2, Tuples DEF Leaving
<1>5. ASSUME NEW w \in R, p = One(w) \/ p = Two("StopSession", w)
      PROVE  p \in Seq(R) /\ p # <<>>
  BY <1>1, <1>5, Tuples, TupleTypes
<1>6. p \in Seq(R) /\ p # <<>>
  BY <1>1, <1>2, <1>3, <1>4, <1>5 DEF IsPlan
<1> QED
  BY <1>6 DEF R

\* A plan is a pairing, the end of a call, or has one request left.
LEMMA PlanKinds ==
  ASSUME NEW p, NEW s, NEW c, IsPlan(p, s, c)
  PROVE  \/ /\ s # "giveUp"
            /\ \E w \in Pairings : p = Two("PublicKey", w)
         \/ p = Two("StopSession", "StartSession") \/ p = Three("StopSession", "Goodbye", "Close")
         \/ p = Two("Goodbye", "Close") \/ p = One("Close")
         \/ /\ s # "giveUp"
            /\ \E w \in Simple \cup Pairings \cup {"StartSession"} : p = One(w)
BY DEF IsPlan, Paired, Leaving, Pairings, Simple

\* What StagePlan is for each stage.
LEMMA StagePlans ==
  ASSUME NEW s
  PROVE  /\ s = "query" => StagePlan(s) = One("QueryType")
         /\ s \in {"pair", "repair"} => StagePlan(s) = Two("PublicKey", "Pair")
         /\ s \in {"validate", "revalidate"} => StagePlan(s) = Two("PublicKey", "ValidatePair")
         /\ s = "session" => StagePlan(s) = One("StartSession")
         /\ s = "giveUp" => StagePlan(s) = Farewell(session')
         /\ s = "none" => StagePlan(s) = <<>>
BY DEF StagePlan, Pairing, One, Two

\* The call goes on with its next request ...
Continues(v, r) ==
  /\ pc' = "ready" /\ UNCHANGED <<stage, ret>>
  /\ \/ \E w \in Pairings : v = "PublicKey" /\ r = "Success" /\ plan = Two(v, w) /\ plan' = One(w)
     \/ v = "StopSession" /\ plan = Two(v, "StartSession") /\ plan' = One("StartSession")
     \/ v = "StopSession" /\ plan = Three(v, "Goodbye", "Close") /\ plan' = Two("Goodbye", "Close")
     \/ v = "Goodbye" /\ plan = Two(v, "Close") /\ plan' = One("Close")

\* ... or this was the last one of the call or of the stage.
Concludes(v, r) ==
  /\ plan = One(v) \/ (v = "PublicKey" /\ r = "error")
  /\ ret' = r
  /\ \/ stage = "none" /\ stage' = "none" /\ plan' = <<>> /\ pc' = "returned"
     \/ /\ stage \in Stages \ {"giveUp"} /\ stage' = NextStage(r) /\ plan' = StagePlan(stage')
        /\ pc' = IF plan' = <<>> THEN "returned" ELSE "ready"

\* Advance does one of the two.
LEMMA AdvanceCases ==
  ASSUME CallInv, pc \in Busy, NEW v \in Requests, v = Head(plan),
         NEW r \in Ends, Advance(v, r)
  PROVE  /\ call' = call
         /\ \/ Continues(v, r)
            \/ Concludes(v, IF v = "PublicKey" THEN "error" ELSE r)
<1>1. IsPlan(plan, stage, call) /\ call' = call /\ stage \in Stages \cup {"none"}
  BY DEF CallInv, Advance
<1>2. v # "Close" /\ "PublicKey" \notin Simple \cup Pairings \cup {"StartSession"}
  BY DEF Requests, Simple, Pairings
<1> DEFINE final == IF v = "PublicKey" THEN "error" ELSE r
           rest == IF v = "PublicKey" /\ r # "Success" THEN Tail(Tail(plan)) ELSE Tail(plan)
<1>7. IF rest # <<>>
      THEN plan' = rest /\ pc' = "ready" /\ UNCHANGED <<stage, ret>>
      ELSE /\ stage' = IF stage = "none" THEN "none" ELSE NextStage(final)
           /\ plan' = StagePlan(stage')
           /\ pc' = IF plan' = <<>> THEN "returned" ELSE "ready"
           /\ ret' = final
  BY DEF Advance
<1>8. stage' = "none" => StagePlan(stage') = <<>>
  BY StagePlans
<1>3. CASE stage # "giveUp" /\ \E w \in Pairings : plan = Two("PublicKey", w)
  <2>1. PICK w \in Pairings : plan = Two("PublicKey", w)
    BY <1>3
  <2>2. v = "PublicKey" /\ Tail(plan) = One(w) /\ Tail(Tail(plan)) = <<>> /\ One(w) # <<>>
    BY <2>1, Tuples
  <2>3. CASE r = "Success"
    <3>1. plan' = One(w) /\ pc' = "ready" /\ UNCHANGED <<stage, ret>>
      BY <1>7, <2>2, <2>3
    <3> QED
      BY <1>1, <2>1, <2>2, <2>3, <3>1 DEF Continues
  <2>4. CASE r # "Success"
    BY <1>1, <1>3, <1>7, <1>8, <2>1, <2>2, <2>4 DEF Concludes
  <2> QED
    BY <1>1, <2>3, <2>4
<1>4. CASE plan = Two("StopSession", "StartSession") \/ plan = Three("StopSession", "Goodbye", "Close")
           \/ plan = Two("Goodbye", "Close")
  <2>1. v # "PublicKey" /\ Tail(plan) # <<>>
    BY <1>4, Tuples
  <2>2. pc' = "ready" /\ plan' = Tail(plan) /\ UNCHANGED <<stage, ret>>
    BY <1>7, <2>1
  <2>3. CASE plan = Two("StopSession", "StartSession")
    BY <1>1, <2>2, <2>3, Tuples DEF Continues
  <2>4. CASE plan = Three("StopSession", "Goodbye", "Close")
    BY <1>1, <2>2, <2>4, Tuples DEF Continues
  <2>5. CASE plan = Two("Goodbye", "Close")
    BY <1>1, <2>2, <2>5, Tuples DEF Continues
  <2> QED
    BY <1>4, <2>3, <2>4, <2>5
<1>5. CASE stage # "giveUp" /\ \E w \in Simple \cup Pairings \cup {"StartSession"} : plan = One(w)
  <2>1. plan = One(v) /\ v # "PublicKey" /\ Tail(plan) = <<>>
    BY <1>2, <1>5, Tuples
  <2> QED
    BY <1>1, <1>5, <1>7, <1>8, <2>1 DEF Concludes
<1>6. CASE plan = One("Close")
  BY <1>2, <1>6, Tuples
<1> QED
  BY <1>1, <1>3, <1>4, <1>5, <1>6, PlanKinds

\* The next stage has one of its plans.
LEMMA NextPlan ==
  ASSUME stage \in Stages \ {"giveUp"}, NEW r \in Ends, stage' = NextStage(r), NEW c
  PROVE  /\ stage' \in (Stages \ {"query"}) \cup {"none"}
         /\ stage' = "none" => StagePlan(stage') = <<>>
         /\ stage' # "none" => IsPlan(StagePlan(stage'), stage', c)
<1>1. stage' \in {"pair", "validate", "repair", "revalidate", "session", "giveUp", "none"}
  BY DEF NextStage, Stages, Ends
<1>2. CASE stage' \in {"pair", "validate", "repair", "revalidate"}
  BY <1>2, StagePlans DEF IsPlan, Paired, Stages
<1>3. CASE stage' = "session"
  BY <1>3, StagePlans DEF IsPlan, Stages
<1>4. CASE stage' = "giveUp"
  <2>1. Leaving(Farewell(session'))
    BY Stopping DEF Leaving
  <2> QED
    BY <1>4, <2>1, StagePlans DEF IsPlan, Stages
<1>5. CASE stage' = "none"
  BY <1>5, StagePlans
<1> QED
  BY <1>1, <1>2, <1>3, <1>4, <1>5 DEF Stages

\* A request that ended leaves a plan of the call, or none.
LEMMA AdvanceCall ==
  ASSUME CallInv, pc \in Busy, NEW v \in Requests, v = Head(plan),
         NEW r \in Ends, Advance(v, r)
  PROVE  CallInv'
<1>1. /\ call' = call /\ call \in ApiStates /\ IsPlan(plan, stage, call)
      /\ stage \in Stages \cup {"none"} /\ (stage # "none" => call = "Handshake")
      /\ ret \in Ends \cup {"none"}
  BY AdvanceCases DEF CallInv
<1>2. CASE Continues(v, r)
  <2>1. IsPlan(plan', stage, call)
    <3>1. CASE \E w \in Pairings : plan = Two("PublicKey", w) /\ plan' = One(w)
      BY <1>1, <3>1, Tuples DEF IsPlan, Paired, Leaving, Simple, Pairings
    <3>2. CASE plan = Two("StopSession", "StartSession") /\ plan' = One("StartSession")
      BY <1>1, <3>2, Tuples DEF IsPlan, Paired, Leaving, Simple, Pairings
    <3>3. CASE plan = Three("StopSession", "Goodbye", "Close") /\ plan' = Two("Goodbye", "Close")
      <4>1. Head(plan) = "StopSession" /\ Tail(plan) = Two("Goodbye", "Close")
        BY <3>3, Tuples
      <4>2. stage = "giveUp" \/ (stage = "none" /\ call = "Free")
        BY <1>1, <4>1, Tuples DEF IsPlan, Paired, Simple, Pairings
      <4>3. Leaving(plan')
        BY <3>3 DEF Leaving
      <4> QED
        BY <4>2, <4>3 DEF IsPlan
    <3>4. CASE plan = Two("Goodbye", "Close") /\ plan' = One("Close")
      <4>1. Head(plan) = "Goodbye" /\ Tail(plan) = One("Close")
        BY <3>4, Tuples
      <4>2. stage = "giveUp" \/ (stage = "none" /\ call = "Free")
        BY <1>1, <4>1, Tuples DEF IsPlan, Paired, Simple, Pairings
      <4>3. Leaving(plan')
        BY <3>4 DEF Leaving
      <4> QED
        BY <4>2, <4>3 DEF IsPlan
    <3> QED
      BY <1>2, <3>1, <3>2, <3>3, <3>4 DEF Continues
  <2>2. plan' \in Seq(Requests \cup {"Close"})
    BY <2>1, PlanTypes
  <2> QED
    BY <1>1, <1>2, <2>1, <2>2 DEF CallInv, Busy, Continues
<1>3. CASE Concludes(v, IF v = "PublicKey" THEN "error" ELSE r)
  <2>1. PICK final \in Ends : Concludes(v, final)
    BY <1>3 DEF Ends
  <2>2. CASE stage = "none" /\ stage' = "none" /\ plan' = <<>> /\ pc' = "returned"
    BY <1>1, <2>1, <2>2 DEF CallInv, Busy, Concludes
  <2>3. CASE /\ stage \in Stages \ {"giveUp"} /\ stage' = NextStage(final)
             /\ plan' = StagePlan(stage') /\ pc' = IF plan' = <<>> THEN "returned" ELSE "ready"
    <3>1. /\ stage' \in Stages \cup {"none"}
          /\ stage' = "none" => plan' = <<>>
          /\ stage' # "none" => IsPlan(plan', stage', call)
      BY <2>3, NextPlan
    <3>2. plan' \in Seq(Requests \cup {"Close"}) /\ (stage' # "none" => plan' # <<>>)
      <4>1. CASE stage' = "none"
        BY <3>1, <4>1
      <4>2. CASE stage' # "none"
        BY <3>1, <4>2, PlanTypes
      <4> QED
        BY <4>1, <4>2
    <3>3. call = "Handshake" /\ ret' = final
      BY <1>1, <2>1, <2>3 DEF Stages, Concludes
    <3> QED
      BY <1>1, <2>1, <2>3, <3>1, <3>2, <3>3 DEF CallInv, Busy
  <2> QED
    BY <2>1, <2>2, <2>3 DEF Concludes
<1> QED
  BY <1>2, <1>3, AdvanceCases

\* Every answer, and none, is a verdict.
LEMMA VerdictEnds ==
  ASSUME NEW v \in Requests, NEW a
  PROVE  Verdict(v, a) \in Ends
<1>1. Said(v, a) \in Ends
  BY DEF Said, Ends
<1> QED
  BY <1>1 DEF Verdict, Ends

\* Digest goes on with the verdict.
LEMMA DigestAdvances ==
  ASSUME NEW v \in Requests, NEW a, Digest(v, a)
  PROVE  \E r \in Ends :
           /\ Advance(v, r)
           /\ port' = IF v = "StartService" /\ r = "Success" THEN a.arg ELSE port
           /\ r = Outcome(v, a)
<1> DEFINE r == Outcome(v, a)
<1>1. r \in Ends
  BY VerdictEnds DEF Ends, Outcome
<1>2. Advance(v, r) /\ port' = IF v = "StartService" /\ r = "Success" THEN a.arg ELSE port
  BY DEF Digest
<1> HIDE DEF r
<1>3. \E s \in Ends : s = r /\ Advance(v, s)
        /\ port' = IF v = "StartService" /\ s = "Success" THEN a.arg ELSE port
  BY <1>1, <1>2
<1> QED
  BY <1>3 DEF r

\* A call begins with its plan.
LEMMA CallPlans ==
  ASSUME NEW c \in ApiCalls
  PROVE  /\ IsPlan(Plan(c), "none", c)
         /\ c \in Simple => Plan(c) = One(c)
         /\ c \in Pairings => Plan(c) = Two("PublicKey", c)
         /\ c = "StartSession" => Plan(c) = IF session = NoSession THEN One(c)
                                            ELSE Two("StopSession", c)
         /\ c = "Free" => Plan(c) = Farewell(session)
<1>1. c \in Simple \cup Pairings \cup {"StartSession", "Free"}
  BY CallsExist
<1>2. CASE c \in Simple
  <2>1. c \notin Pairings /\ c # "StartSession" /\ c # "Free"
    BY <1>2 DEF Simple, Pairings
  <2>2. Plan(c) = One(c)
    BY <1>2, <2>1 DEF Plan, One
  <2> QED
    BY <1>2, <2>1, <2>2 DEF IsPlan
<1>3. CASE c \in Pairings
  <2>1. c \notin Simple /\ c # "StartSession" /\ c # "Free"
    BY <1>3 DEF Simple, Pairings
  <2>2. Plan(c) = Two("PublicKey", c)
    BY <1>3, <2>1 DEF Plan, Pairing, Two
  <2> QED
    BY <1>3, <2>1, <2>2 DEF IsPlan, Paired
<1>4. CASE c = "StartSession"
  <2>1. c \notin Simple \cup Pairings /\ c # "Free"
    BY <1>4 DEF Simple, Pairings
  <2>2. Plan(c) = Stop(session) \o <<"StartSession">>
    BY <1>4, <2>1 DEF Plan
  <2> QED
    BY <1>4, <2>1, <2>2, Stopping DEF IsPlan
<1>5. CASE c = "Free"
  <2>1. c \notin Simple \cup Pairings /\ c # "StartSession"
    BY <1>5 DEF Simple, Pairings
  <2>2. Plan(c) = Farewell(session)
    BY <1>5, <2>1 DEF Plan
  <2> QED
    BY <1>5, <2>1, <2>2, Stopping DEF IsPlan, Leaving
<1> QED
  BY <1>1, <1>2, <1>3, <1>4, <1>5

\* Every step leaves a plan of the call in progress.
LEMMA CallStep ==
  ASSUME CallInv, [Next]_vars
  PROVE  CallInv'
<1> USE DEF CallInv, Busy
<1>1. ASSUME NEW c \in {"New", "Handshake"}, Open(c) PROVE CallInv'
  <2>1. call' = c /\ c \in ApiStates
    BY <1>1 DEF Open, Begin, ApiStates
  <2>2. CASE c = "New"
    BY <1>1, <2>1, <2>2 DEF Open, Ends
  <2>3. CASE c = "Handshake"
    <3>1. IsPlan(StagePlan("query"), "query", c)
      BY StagePlans DEF IsPlan
    <3>2. StagePlan("query") \in Seq(Requests \cup {"Close"})
      BY <3>1, PlanTypes
    <3> QED
      BY <1>1, <2>1, <2>3, <3>1, <3>2 DEF Open, Stages
  <2> QED
    BY <1>1, <2>2, <2>3
<1>2. ASSUME NEW c \in ApiCalls, Call(c) PROVE CallInv'
  <2>1. call' = c /\ c \in ApiStates /\ stage' = "none"
    BY <1>2 DEF Call, Begin, ApiStates
  <2>2. IsPlan(Plan(c), "none", c)
    BY CallPlans
  <2>3. Plan(c) \in Seq(Requests \cup {"Close"})
    BY <2>2, PlanTypes
  <2>4. \/ pc' = "returned" /\ plan' = <<>> /\ ret' = "error"
        \/ pc' = "ready" /\ plan' = Plan(c) /\ ret' = "none"
    BY <1>2 DEF Call
  <2>5. CASE pc' = "returned" /\ plan' = <<>> /\ ret' = "error"
    BY <2>1, <2>5 DEF Ends
  <2>6. CASE pc' = "ready" /\ plan' = Plan(c) /\ ret' = "none"
    BY <2>1, <2>2, <2>3, <2>6
  <2> QED
    BY <2>4, <2>5, <2>6
<1>3. ASSUME NEW v \in Requests, Send(v) PROVE CallInv'
  BY <1>3 DEF Send, Ready
<1>4. ASSUME NEW v \in Requests, SendFails(v) PROVE CallInv'
  <2>1. pc = "ready" /\ v = Head(plan) /\ v # "Close" /\ "error" \in Ends
    BY <1>4 DEF SendFails, Ready, Ends
  <2>2. CASE v \in Careless
    BY <1>4, <2>1, <2>2 DEF SendFails
  <2>3. CASE v \notin Careless
    <3>1. Advance(v, "error")
      BY <1>4, <2>3 DEF SendFails
    <3> HIDE DEF CallInv
    <3> QED
      BY <2>1, <3>1, AdvanceCall
  <2> QED
    BY <2>2, <2>3
<1>5. ASSUME NEW v \in Requests, Receive(v) \/ ReceiveFails(v) PROVE CallInv'
  <2>1. pc = "waiting" /\ v = Head(plan)
    BY <1>5 DEF Receive, ReceiveFails
  <2>2. CASE \E a : Digest(v, a)
    <3>1. PICK r \in Ends : Advance(v, r)
      BY <2>2, DigestAdvances
    <3> HIDE DEF CallInv
    <3> QED
      BY <2>1, <3>1, AdvanceCall
  <2>3. CASE /\ \/ pc' = "handshake" /\ v = "StartSession"
                \/ pc' = "bye" /\ v = "StopSession"
             /\ UNCHANGED <<call, plan, stage, ret>>
    BY <2>1, <2>3
  <2>4. (\E a : Digest(v, a)) \/ ReceiveDoes(v, Head(outbox))
    BY <1>5 DEF Receive, ReceiveFails, ReceiveDoes
  <2> QED
    BY <2>2, <2>3, <2>4 DEF ReceiveDoes, BeginsTLS, WantsTLS, EndsTLS
<1>10. ASSUME NEW ok \in BOOLEAN, Handshake(ok) PROVE CallInv'
  <2>1. PICK r \in Ends : Advance("StartSession", r)
    BY <1>10 DEF Handshake, Ends
  <2>2. pc = "handshake" /\ Head(plan) = "StartSession" /\ "StartSession" \in Requests
    BY <1>10 DEF Handshake, Requests
  <2> HIDE DEF CallInv
  <2> QED
    BY <2>1, <2>2, AdvanceCall
<1>11. CASE Bye
  <2>1. pc = "bye" /\ Head(plan) \in {"StopSession", "Close"}
    BY <1>11 DEF Bye
  <2>2. CASE Head(plan) = "Close"
    BY <1>11, <2>1, <2>2 DEF Bye
  <2>3. CASE Head(plan) = "StopSession"
    <3>1. Advance("StopSession", "error") /\ "error" \in Ends /\ "StopSession" \in Requests
      BY <1>11, <2>3 DEF Bye, Ends, Requests
    <3> HIDE DEF CallInv
    <3> QED
      BY <2>1, <2>3, <3>1, AdvanceCall
  <2> QED
    BY <2>1, <2>2, <2>3
<1>12. CASE CloseTLS
  BY <1>12 DEF CloseTLS, Ready
<1>6. CASE DoubleFree
  BY <1>6 DEF DoubleFree
<1>7. CASE Close
  BY <1>7 DEF Close, Ends
<1>8. CASE Return
  BY <1>8 DEF Return, ApiStates
<1>9. CASE Answers \/ Drops \/ UNCHANGED vars
  BY <1>9 DEF Answers, Drops, client, vars
<1> QED
  BY <1>1, <1>2, <1>3, <1>4, <1>5, <1>6, <1>7, <1>8, <1>9, <1>10, <1>11, <1>12 DEF Next, Step

RestTypes ==
  /\ named \in BOOLEAN /\ ssl_enabled \in BOOLEAN /\ port \in Args
  /\ link \in {"up", "eof", "garbled"} /\ granted \in Nat /\ faulty \in BOOLEAN
  /\ calls \in Nat

\* Reading an answer keeps the other types ...
LEMMA DigestRest ==
  ASSUME NEW v \in Requests, NEW a, Digest(v, a), RestTypes, a \in Answered \/ a = Nothing
  PROVE  ssl_enabled' \in BOOLEAN /\ port' \in Args
<1>1. a.arg \in Args
  <2>1. CASE a \in Answered
    BY <2>1 DEF Answered
  <2>2. CASE a = Nothing
    BY <2>2 DEF Nothing, Args
  <2> QED
    BY <2>1, <2>2
<1>2. port' \in Args
  BY <1>1, DigestAdvances DEF RestTypes
<1>3. CASE v = "StopSession"
  BY <1>2, <1>3 DEF Digest, RestTypes
<1>4. CASE v = "StartSession"
  BY <1>2, <1>4 DEF Digest, RestTypes
<1>5. CASE v \notin {"StopSession", "StartSession"}
  BY <1>2, <1>5 DEF Digest, RestTypes
<1> QED
  BY <1>2, <1>3, <1>4, <1>5

\* ... and so does every step.
LEMMA RestStep ==
  ASSUME TrustInv, RestTypes, [Next]_vars
  PROVE  RestTypes'
<1> USE DEF RestTypes
<1>1. ASSUME NEW c, Open(c) \/ Call(c) PROVE RestTypes'
  <2>1. calls' \in Nat
    BY <1>1 DEF Open, Call, Begin
  <2> QED
    BY <1>1, <2>1 DEF Open, Call, state, lockdownd, Args
<1>2. ASSUME NEW v \in Requests, Send(v) \/ SendFails(v) PROVE RestTypes'
  BY <1>2 DEF Send, SendFails, state, lockdownd
<1>3. ASSUME NEW v \in Requests, Receive(v) PROVE RestTypes'
  <2>1. Head(outbox) \in Answered
    BY <1>3, TailElements DEF Receive, TrustInv, WireOK
  <2>2. ReceiveDoes(v, Head(outbox)) /\ UNCHANGED <<named, link, granted, calls>>
    BY <1>3 DEF Receive, ReceiveDoes, lockdownd
  <2>3. ssl_enabled' \in BOOLEAN /\ port' \in Args /\ faulty' \in BOOLEAN
    BY <2>1, <2>2, DigestRest DEF ReceiveDoes
  <2> QED
    BY <2>2, <2>3
<1>4. ASSUME NEW v \in Requests, ReceiveFails(v) PROVE RestTypes'
  <2>1. ssl_enabled' \in BOOLEAN /\ port' \in Args
    BY <1>4, DigestRest DEF ReceiveFails
  <2> QED
    BY <1>4, <2>1 DEF ReceiveFails, Derail, lockdownd
<1>7. ASSUME NEW ok \in BOOLEAN, Handshake(ok) PROVE RestTypes'
  BY <1>7 DEF Handshake, Derail, lockdownd
<1>8. CASE Bye
  BY <1>8 DEF Bye, Derail, lockdownd
<1>5. CASE DoubleFree \/ CloseTLS \/ Close \/ Return \/ Drops \/ UNCHANGED vars
  BY <1>5 DEF DoubleFree, CloseTLS, Close, Return, Drops, state, lockdownd, vars, Args
<1>6. CASE Answers
  <2>1. Head(inbox) \in Sent
    BY <1>6, TailElements DEF Answers, TrustInv, WireOK
  <2>2. Head(inbox).n \in Nat
    BY <2>1 DEF Sent
  <2>3. granted' \in Nat
    BY <1>6, <2>2 DEF Answers, lockdownd
  <2> QED
    BY <1>6, <2>3 DEF Answers, state
<1> QED
  BY <1>1, <1>2, <1>3, <1>4, <1>5, <1>6, <1>7, <1>8 DEF Next, Step

Kept == TrustInv /\ CallInv /\ RestTypes

\* All the types hold at first, and every step keeps them.
LEMMA InitKept == Init => Kept
<1> SUFFICES ASSUME Init PROVE Kept
  OBVIOUS
<1>1. CallInv
  BY DEF Init, CallInv, ApiStates, Ends, Stages, Busy
<1>2. RestTypes
  BY DEF Init, RestTypes, Args
<1> QED
  BY <1>1, <1>2, InitTrust DEF Kept

LEMMA KeptStep == Kept /\ [Next]_vars => Kept'
BY NextTrust, CallStep, RestStep DEF Kept

\* Every variable keeps its type; in particular a call never runs out of its
\* plan or sends what is not a request.
THEOREM TypeCorrect == Spec => []TypeOK
<1>1. Kept => TypeOK
  <2> SUFFICES ASSUME Kept PROVE TypeOK
    OBVIOUS
  <2>1. stage \in {"none", "query", "pair", "validate", "repair", "revalidate", "session",
                   "giveUp"}
    BY DEF Kept, CallInv, Stages
  <2>2. ret \in {"none", "Success", "InvalidHostID", "error"}
    BY DEF Kept, CallInv, Ends
  <2> QED
    BY <2>1, <2>2 DEF TypeOK, Kept, TrustInv, WireOK, CallInv, Busy, ApiStates, RestTypes
<1> QED
  BY InitKept, KeptStep, <1>1, PTL DEF Spec

-----------------------------------------------------------------------------
(* The two ends in step.  As long as no send, receive or TLS handshake of  *)
(* the connection has failed, at most one request is under way, the answer *)
(* to it is its own, and the ends differ only in what it has just changed. *)

Agreed ==
  /\ ssl = dssl /\ (dsession = NoSession => ~dssl)
  /\ dsession = IF session = Freed THEN NoSession ELSE session

\* The client knows of no session that runs.
Over == session \in {NoSession, Freed}

\* The request has not been answered yet ...
Asked ==
  /\ outbox = <<>> /\ inbox # <<>> /\ Tail(inbox) = <<>>
  /\ Head(inbox).n = sent /\ Head(inbox).kind = Head(plan)
  /\ Head(plan) = "StartService" => Head(inbox).arg = service
  /\ Head(plan) = "StopSession" => Head(inbox).id = IF session = Freed THEN NoSession ELSE session
  /\ Agreed

\* ... the answer is on its way, and its effect on the device precedes it ...
Settles(a, v) ==
  /\ a.result = "Success" => granted = sent /\ (v = "StartService" => a.arg = service)
  /\ v = "StopSession" => dsession = NoSession /\ ~dssl
  /\ v = "StartSession" =>
       /\ a.kind = v /\ dsession = a.id /\ dssl = a.tls /\ ~ssl
       /\ a.result = "Success" <=> a.id # NoSession
       /\ a.tls => a.result = "Success"
  /\ v \notin {"StopSession", "StartSession"} => Agreed

Told ==
  /\ inbox = <<>> /\ outbox # <<>> /\ Tail(outbox) = <<>>
  /\ Settles(Head(outbox), Head(plan))

\* ... or there will be none.
Lost == inbox = <<>> /\ outbox = <<>> /\ link = "eof"

\* A session is only opened, and a client only closed, without one.
LastOfSession(p) == Head(p) \in {"StartSession", "Close"} \/ p = Two("Goodbye", "Close")

\* While the client begins TLS, or ends it, the device has done so already.
Together ==
  CASE pc = "handshake" -> session \notin {NoSession, Freed} /\ dsession = session /\ dssl /\ ~ssl
    [] pc = "bye"       -> Head(plan) = "StopSession" /\ dsession = NoSession /\ ~dssl
    [] OTHER            -> Agreed

Calm ==
  /\ link # "garbled" /\ (ssl => ssl_enabled)
  /\ IF pc = "waiting" THEN Asked \/ Told \/ Lost
                       ELSE inbox = <<>> /\ outbox = <<>> /\ Together
  /\ pc \in {"ready", "waiting"} /\ LastOfSession(plan) => Over
  /\ pc # "handshake" /\ stage \notin {"none", "giveUp"} => session = NoSession
  /\ pc = "returned" /\ ret = "Success" /\ call \in Strict
     => granted = sent /\ (call = "StartService" => port = service)
  /\ pc = "returned" /\ call = "Free" => dsession = NoSession

InStep == nextId # NoSession /\ (~faulty /\ pc # "aborted" => Calm)

\* Nothing is under way before there is a client.
LEMMA InitInStep == Init => InStep
<1> SUFFICES ASSUME Init PROVE InStep
  OBVIOUS
<1>1. /\ pc = "none" /\ stage = "none" /\ session = NoSession /\ dsession = NoSession /\ nextId = 1
      /\ ssl = FALSE /\ dssl = FALSE /\ inbox = <<>> /\ outbox = <<>> /\ link = "eof"
  BY DEF Init
<1>2. NoSession # Freed /\ 1 # NoSession
  BY DEF NoSession, Freed
<1>3. Agreed
  BY <1>1, <1>2 DEF Agreed
<1> QED
  BY <1>1, <1>2, <1>3 DEF InStep, Calm, Together

\* A new connection starts in step.
LEMMA OpenInStep ==
  ASSUME NEW c \in {"New", "Handshake"}, Open(c), nextId # NoSession
  PROVE  InStep'
<1>1. /\ call' = c /\ session' = NoSession /\ ssl' = FALSE /\ inbox' = <<>>
      /\ outbox' = <<>> /\ link' = "up" /\ dsession' = NoSession /\ dssl' = FALSE /\ nextId' = nextId
  BY DEF Open, Begin
<1>2. c \notin Strict /\ c # "Free"
  BY DEF Strict, Pairings
<1>3. pc' \in {"ready", "returned"}
  BY DEF Open
<1>4. Agreed' /\ Over'
  BY <1>1 DEF Agreed, Over, NoSession, Freed
<1>5. call' \notin Strict /\ call' # "Free" /\ nextId' # NoSession
      /\ pc' \notin {"waiting", "handshake", "bye"}
  BY <1>1, <1>2, <1>3
<1> QED
  BY <1>1, <1>4, <1>5 DEF InStep, Calm, Together

\* The heads of plans, told apart.
LEMMA Lasts ==
  /\ \A a, b : LastOfSession(One(a)) <=> a \in {"StartSession", "Close"}
  /\ ~LastOfSession(Two("StopSession", "StartSession"))
  /\ ~LastOfSession(Three("StopSession", "Goodbye", "Close"))
  /\ LastOfSession(Two("Goodbye", "Close"))
  /\ \A w : ~LastOfSession(Two("PublicKey", w))
BY Tuples DEF LastOfSession

\* A call stops the session it knows of before it opens one or says goodbye.
LEMMA CallInStep ==
  ASSUME Kept, InStep, NEW c \in ApiCalls, Call(c)
  PROVE  InStep'
<1>1. /\ pc = "idle" /\ call' = c /\ stage' = "none" /\ pc' \in {"ready", "returned"}
      /\ UNCHANGED <<session, ssl_enabled, ssl, inbox, outbox, link, faulty, dsession, dssl, nextId>>
  BY DEF Call, Begin, state, lockdownd
<1>2. pc' = "returned" => ret' = "error" /\ c # "Free"
  BY DEF Call, NeedsSession
<1>3. pc' = "ready" => plan' = Plan(c)
  BY DEF Call
<1>4. LastOfSession(Plan(c)) => Over
  <2>1. CASE c \in Simple
    BY <2>1, CallPlans, Lasts DEF Simple
  <2>2. CASE c \in Pairings
    BY <2>2, CallPlans, Lasts
  <2>3. CASE c = "StartSession"
    BY <2>3, CallPlans, Lasts DEF Over
  <2>4. CASE c = "Free"
    BY <2>4, CallPlans, Lasts, Stopping DEF Over
  <2> QED
    BY <2>1, <2>2, <2>3, <2>4, CallsExist
<1> QED
  BY <1>1, <1>2, <1>3, <1>4 DEF InStep, Calm, Together, Agreed, Over

\* The only request under way is the one the client waits for.
LEMMA SendInStep ==
  ASSUME Kept, InStep, NEW v \in Requests, Send(v)
  PROVE  InStep'
<1> SUFFICES ASSUME ~faulty, pc # "aborted" PROVE InStep'
  <2>1. UNCHANGED <<faulty, nextId>> /\ pc = "ready"
    BY DEF Send, Ready, lockdownd
  <2> QED
    BY <2>1 DEF InStep
<1>1. /\ pc = "ready" /\ pc' = "waiting" /\ Head(plan) = v /\ sent' = sent + 1
      /\ UNCHANGED <<call, plan, stage, session, ssl_enabled, ssl, service, outbox, link,
                     dsession, dssl, nextId>>
  BY DEF Send, Ready, state, lockdownd
<1>2. Calm /\ inbox = <<>> /\ outbox = <<>> /\ Agreed
  BY <1>1 DEF InStep, Calm, Together
<1>3. inbox' = One(Request(v))
  BY <1>2 DEF Send, One
<1>4. inbox' # <<>> /\ Tail(inbox') = <<>> /\ Head(inbox') = Request(v)
  BY <1>3, Tuples
<1>5. /\ Request(v).n = sent' /\ Request(v).kind = v
      /\ v = "StartService" => Request(v).arg = service
      /\ v = "StopSession" => Request(v).id = IF session = Freed THEN NoSession ELSE session
  BY <1>1 DEF Request
<1>6. Agreed'
  BY <1>1, <1>2 DEF Agreed
<1>7. Asked'
  BY <1>1, <1>2, <1>4, <1>5, <1>6 DEF Asked
<1> QED
  BY <1>1, <1>2, <1>7 DEF InStep, Calm, Over

\* The device answers the request that was made.
LEMMA AnswersInStep ==
  ASSUME Kept, InStep, Answers
  PROVE  InStep'
<1> DEFINE q == Head(inbox)
<1>1. PICK result \in Results(q), tls \in BOOLEAN :
        /\ tls => q.kind = "StartSession" /\ result = "Success"
        /\ inbox' = Tail(inbox)
        /\ outbox' = Append(outbox, Answer(q, result, tls))
        /\ link' \in {"eof", link}
        /\ result # "Success" => UNCHANGED lockdownd
        /\ result = "Success" =>
              /\ granted' = q.n
              /\ dsession' = (IF q.kind = "StartSession" THEN nextId
                              ELSE IF q.kind = "StopSession" THEN NoSession ELSE dsession)
              /\ dssl' = (IF q.kind = "StartSession" THEN tls
                          ELSE IF q.kind = "StopSession" THEN FALSE ELSE dssl)
              /\ nextId' = IF q.kind = "StartSession" THEN nextId + 1 ELSE nextId
  BY DEF Answers
<1>2. nextId \in Nat /\ dsession \in Nat /\ q \in Sent
  BY TailElements DEF Answers, Kept, TrustInv, WireOK
<1>3. nextId' # NoSession
  <2>1. nextId' \in {nextId, nextId + 1}
    BY <1>1 DEF lockdownd
  <2> QED
    BY <1>2, <2>1 DEF InStep, NoSession
<1> SUFFICES ASSUME ~faulty, pc # "aborted" PROVE InStep'
  BY <1>3 DEF InStep, Answers, client
<1>4. /\ UNCHANGED <<pc, call, plan, stage, ret, session, ssl_enabled, ssl, service, port, sent,
                     faulty>>
      /\ inbox # <<>>
  BY DEF Answers, client, state
<1>5. Calm /\ pc = "waiting" /\ Asked
  BY <1>4 DEF InStep, Calm, Told, Lost
<1> DEFINE a == Answer(q, result, tls)
           v == Head(plan)
<1>6. inbox' = <<>> /\ outbox' = One(a)
  BY <1>1, <1>5 DEF Asked, One
<1>7. outbox' # <<>> /\ Tail(outbox') = <<>> /\ Head(outbox') = a
  BY <1>6, Tuples
<1>8. /\ a.result = result /\ a.tls = tls
      /\ v # "PublicKey" /\ result = "Success" => a.arg = q.arg
      /\ v = "StartSession" => a.kind = v
      /\ a.id = IF v = "StartSession" /\ result = "Success" THEN nextId ELSE NoSession
  BY <1>5 DEF Answer, Asked, Wire
<1> HIDE DEF a
<1>9. q.kind = v /\ q.n = sent /\ Agreed /\ (v = "StartService" => q.arg = service)
  BY <1>5 DEF Asked
<1>10. result = "Success" => granted' = sent' /\ (v = "StartService" => a.arg = service')
  BY <1>1, <1>4, <1>8, <1>9
<1>11. v = "StopSession" => dsession' = NoSession /\ ~dssl'
  <2> SUFFICES ASSUME v = "StopSession" PROVE dsession' = NoSession /\ ~dssl'
    OBVIOUS
  <2>1. CASE dsession = NoSession
    BY <1>1, <1>9, <2>1 DEF Agreed, Results, lockdownd
  <2>2. CASE dsession # NoSession
    <3>1. q.id = dsession
      BY <1>5, <2>2 DEF Asked, Agreed
    <3>2. Results(q) = {"Success"}
      BY <1>9, <2>2, <3>1 DEF Results
    <3> QED
      BY <1>1, <1>9, <3>2
  <2> QED
    BY <2>1, <2>2
<1>12. v = "StartSession" => /\ dsession' = a.id /\ dssl' = a.tls /\ ~ssl'
                             /\ result = "Success" <=> a.id # NoSession
                             /\ a.tls => result = "Success"
  <2> SUFFICES ASSUME v = "StartSession"
               PROVE  /\ dsession' = a.id /\ dssl' = a.tls /\ ~ssl'
                      /\ result = "Success" <=> a.id # NoSession
                      /\ a.tls => result = "Success"
    OBVIOUS
  <2>1. Over
    BY <1>5 DEF Calm, LastOfSession
  <2>2. dsession = NoSession /\ ~dssl /\ ~ssl
    BY <1>9, <2>1 DEF Agreed, Over
  <2>3. dssl = FALSE /\ (tls = TRUE \/ tls = FALSE)
    BY <2>2 DEF Kept, TrustInv, WireOK
  <2>4. CASE result = "Success"
    BY <1>1, <1>4, <1>8, <1>9, <2>2, <2>4 DEF InStep
  <2>5. CASE result # "Success"
    BY <1>1, <1>4, <1>8, <1>9, <2>2, <2>3, <2>5 DEF lockdownd
  <2> QED
    BY <2>4, <2>5
<1>13. v \notin {"StopSession", "StartSession"} => Agreed'
  <2> SUFFICES ASSUME v \notin {"StopSession", "StartSession"} PROVE Agreed'
    OBVIOUS
  <2>1. UNCHANGED <<dsession, dssl, session, ssl>>
    BY <1>1, <1>4, <1>9 DEF lockdownd
  <2> QED
    BY <1>9, <2>1 DEF Agreed
<1>14. Told'
  BY <1>4, <1>6, <1>7, <1>8, <1>10, <1>11, <1>12, <1>13 DEF Told, Settles
<1>15. link' # "garbled"
  BY <1>1, <1>5 DEF Calm
<1> QED
  BY <1>3, <1>4, <1>5, <1>14, <1>15 DEF InStep, Calm, Over

\* What the device drops is lost, and nothing is mistaken for it.
LEMMA DropsInStep ==
  ASSUME InStep, Drops
  PROVE  InStep'
<1>1. /\ UNCHANGED <<pc, call, plan, stage, ret, session, ssl_enabled, ssl, service, port, sent,
                     faulty, granted, dsession, dssl, nextId>>
      /\ inbox' = <<>> /\ outbox' \in {outbox, <<>>} /\ link' = "eof"
  BY DEF Drops, client, state, lockdownd
<1> SUFFICES ASSUME ~faulty, pc # "aborted" PROVE Calm'
  BY <1>1 DEF InStep
<1>2. Agreed' <=> Agreed
  BY <1>1 DEF Agreed
<1>3. Calm
  BY DEF InStep
<1>4. IF pc = "waiting" THEN Asked' \/ Told' \/ Lost'
                        ELSE inbox' = <<>> /\ outbox' = <<>> /\ Together'
  <2>1. CASE pc # "waiting"
    BY <1>1, <1>2, <1>3, <2>1 DEF Calm, Together
  <2>2. CASE pc = "waiting" /\ outbox' = <<>>
    BY <1>1, <2>2 DEF Lost
  <2>3. CASE pc = "waiting" /\ outbox' # <<>>
    <3>1. Told /\ outbox' = outbox
      BY <1>1, <1>3, <2>3 DEF Calm, Asked, Lost
    <3> QED
      BY <1>1, <1>2, <2>3, <3>1 DEF Told, Settles
  <2> QED
    BY <2>1, <2>2, <2>3
<1> QED
  BY <1>1, <1>3, <1>4 DEF Calm, Over

\* Taking the answer brings the two ends together again.
LEMMA ReceiveAgrees ==
  ASSUME Kept, Calm, Told, pc = "waiting", NEW v \in Requests, v = Head(plan),
         Digest(v, Head(outbox)), ~EndsTLS(v), ~WantsTLS(v, Head(outbox)),
         UNCHANGED <<ssl, dsession, dssl>>
  PROVE  /\ Agreed' /\ (ssl' => ssl_enabled')
         /\ v = "StopSession" => session' = Freed
         /\ v \notin {"StopSession", "StartSession"} => session' = session
<1> DEFINE a == Head(outbox)
<1>1. a \in Answered /\ a # Nothing
  <2>1. a \in Answered
    BY TailElements DEF Told, Kept, TrustInv, WireOK
  <2>2. Nothing.result \notin ResultNames
    BY DEF Nothing, ResultNames
  <2> QED
    BY <2>1, <2>2 DEF Answered
<1>2. dsession \in Nat /\ ssl \in BOOLEAN /\ dssl \in BOOLEAN /\ ssl_enabled \in BOOLEAN
      /\ a.tls \in BOOLEAN /\ a.result \in ResultNames
  BY <1>1 DEF Kept, TrustInv, WireOK, RestTypes, Answered
<1> HIDE DEF a
<1>3. Settles(a, v) /\ (ssl => ssl_enabled)
  BY DEF Told, Calm, a
<1>4. CASE v = "StopSession"
  <2>1. session' = Freed /\ ssl' = ssl /\ ssl_enabled' = ssl_enabled /\ ~(ssl /\ ssl_enabled)
    BY <1>1, <1>4 DEF Digest, EndsTLS, a
  <2>2. dsession = NoSession /\ dssl = FALSE
    BY <1>2, <1>3, <1>4 DEF Settles
  <2>3. ssl' = FALSE
    BY <1>2, <1>3, <2>1
  <2> QED
    BY <1>4, <2>1, <2>2, <2>3 DEF Agreed
<1>5. CASE v = "StartSession"
  <2>1. Over
    BY <1>5 DEF Calm, LastOfSession
  <2>2. /\ a.kind = v /\ dsession = a.id /\ dssl = a.tls /\ ssl = FALSE
        /\ a.result = "Success" <=> a.id # NoSession
        /\ a.tls => a.result = "Success"
    BY <1>2, <1>3, <1>5 DEF Settles
  <2>3. NewId(a) /\ (Opened(a) => ~a.tls)
    BY <1>5 DEF Digest, WantsTLS, a
  <2>4. Check("StartSession", a) = a.result
    BY <1>5, <2>2 DEF Check, Wire
  <2>5. CASE a.result = "Success"
    <3>1. session' = a.id /\ ~a.tls
      BY <1>1, <2>2, <2>3, <2>4, <2>5 DEF NewId, Opened
    <3>2. a.id # Freed
      BY <1>2, <2>2 DEF Freed
    <3> QED
      BY <1>2, <1>5, <2>2, <2>5, <3>1, <3>2 DEF Agreed
  <2>6. CASE a.result # "Success"
    <3>1. session' = session
      BY <1>2, <2>3, <2>4, <2>6 DEF NewId, Opened, ResultNames
    <3> QED
      BY <1>2, <1>5, <2>1, <2>2, <2>6, <3>1 DEF Agreed, Over
  <2> QED
    BY <2>5, <2>6
<1>6. CASE v \notin {"StopSession", "StartSession"}
  <2>1. UNCHANGED <<session, ssl_enabled>>
    BY <1>6 DEF Digest
  <2> QED
    BY <1>3, <1>6, <2>1 DEF Agreed, Settles
<1> QED
  BY <1>4, <1>5, <1>6

\* The call goes on only as the session allows.
LEMMA ReceiveAdvances ==
  ASSUME Kept, Calm, pc \in {"waiting", "handshake", "bye"}, NEW v \in Requests, v = Head(plan),
         NEW r \in Ends, Advance(v, r),
         v = "StopSession" => session' = Freed,
         v \notin {"StopSession", "StartSession"} => session' = session
  PROVE  /\ call' = call /\ pc' \in {"ready", "returned"}
         /\ pc' = "ready" /\ LastOfSession(plan') => Over'
         /\ stage' \notin {"none", "giveUp"} => session' = NoSession
         /\ pc' = "returned" => call # "Free"
         /\ pc' = "returned" /\ ret' = "Success" /\ call \in Strict => v = call /\ r = "Success"
<1>1. /\ call' = call /\ IsPlan(plan, stage, call) /\ (stage # "none" => call = "Handshake")
      /\ stage \in Stages \cup {"none"}
  BY AdvanceCases DEF Kept, CallInv, Busy
<1>4. /\ pc = "handshake" => v = "StartSession"
      /\ v \notin {"StopSession", "StartSession"} => pc = "waiting"
  BY DEF Kept, CallInv, Requests, Simple, Pairings
<1>2. CASE Continues(v, r)
  <2>1. CASE \E w \in Pairings : v = "PublicKey" /\ plan' = One(w)
    <3>1. ~LastOfSession(plan') /\ session' = session /\ pc = "waiting"
      BY <1>4, <2>1, Lasts DEF Pairings
    <3> QED
      BY <1>1, <1>2, <3>1 DEF Continues, Calm
  <2>2. CASE v = "StopSession" /\ (plan = Two(v, "StartSession") \/ plan = Three(v, "Goodbye", "Close"))
    <3>1. stage \in {"none", "giveUp"}
      BY <1>1, <2>2, Tuples DEF IsPlan, Paired, Leaving, Simple, Pairings
    <3> QED
      BY <1>1, <1>2, <2>2, <3>1 DEF Continues, Over
  <2>3. CASE v = "Goodbye" /\ plan = Two(v, "Close")
    <3>1. Over /\ session' = session /\ pc = "waiting"
      BY <1>4, <2>3, Lasts DEF Calm
    <3> QED
      BY <1>1, <1>2, <3>1 DEF Continues, Calm, Over
  <2> QED
    BY <1>2, <2>1, <2>2, <2>3 DEF Continues
<1>3. CASE Concludes(v, IF v = "PublicKey" THEN "error" ELSE r)
  <2>1. PICK final \in Ends : Concludes(v, final) /\ final = IF v = "PublicKey" THEN "error" ELSE r
    BY <1>3 DEF Ends
  <2>2. plan = One(v) \/ v = "PublicKey"
    BY <2>1 DEF Concludes
  <2>3. CASE stage = "none" /\ stage' = "none" /\ plan' = <<>> /\ pc' = "returned"
    <3>1. call # "Free"
      BY <1>1, <2>2, <2>3, Tuples DEF IsPlan, Leaving, Requests, Simple, Pairings
    <3>2. ret' = "Success" /\ call \in Strict => plan = One(v) /\ r = "Success"
      BY <2>1 DEF Concludes
    <3>3. plan = One(v) /\ call \in Strict => v = call
      BY <1>1, <2>3, Tuples DEF IsPlan, Paired, Strict, Pairings
    <3> QED
      BY <1>1, <2>3, <3>1, <3>2, <3>3
  <2>4. CASE /\ stage \in Stages \ {"giveUp"} /\ stage' = NextStage(final)
             /\ plan' = StagePlan(stage') /\ pc' = IF plan' = <<>> THEN "returned" ELSE "ready"
    <3>1. (pc # "handshake" => session = NoSession) /\ call = "Handshake" /\ stage # "none"
      BY <1>1, <2>4 DEF Calm, Stages
    <3>2. call \notin Strict /\ call # "Free"
      BY <3>1 DEF Strict, Pairings
    <3>3. stage # "session" => v \notin {"StopSession", "StartSession"}
      BY <1>1, <2>4, Tuples DEF IsPlan, Paired, Stages
    <3>4. stage = "session" => stage' \in {"none", "giveUp"}
      BY <2>4 DEF NextStage
    <3>5. stage' \notin {"none", "giveUp"} => session' = NoSession
      BY <1>4, <3>1, <3>3, <3>4
    <3>6. stage' \in (Stages \ {"query"}) \cup {"none"}
      BY <2>4, NextPlan
    <3>7. pc' = "ready" /\ LastOfSession(plan') => Over'
      <4>1. CASE stage' \in {"pair", "repair", "validate", "revalidate"}
        BY <2>4, <4>1, StagePlans, Lasts
      <4>2. CASE stage' = "session"
        BY <3>5, <4>2 DEF Over
      <4>3. CASE stage' = "giveUp"
        BY <2>4, <4>3, StagePlans, Stopping, Lasts DEF Over
      <4>4. CASE stage' = "none"
        BY <2>4, <4>4, StagePlans
      <4> QED
        BY <3>6, <4>1, <4>2, <4>3, <4>4 DEF Stages
    <3> QED
      BY <1>1, <2>4, <3>2, <3>5, <3>7
  <2> QED
    BY <2>1, <2>3, <2>4 DEF Concludes
<1> QED
  BY <1>2, <1>3, AdvanceCases DEF Kept, Busy

\* A verdict of success was the device's.
LEMMA StrictVerdict ==
  ASSUME NEW v \in Strict, NEW a, Verdict(v, a) = "Success"
  PROVE  a.result = "Success"
<1>1. v # "PublicKey" /\ v # "StartSession" /\ a # Nothing
  BY DEF Strict, Pairings, Verdict
<1>2. CASE v \in Pairings
  <2>1. Said(v, a) = "Success"
    BY <1>1, <1>2 DEF Verdict
  <2>2. Check(v, a) = "Success"
    BY <2>1 DEF Said
  <2> QED
    BY <2>2 DEF Check
<1>3. CASE v \notin Pairings
  <2>1. Check(v, a) = "Success"
    BY <1>1, <1>3 DEF Verdict
  <2> QED
    BY <2>1 DEF Check
<1> QED
  BY <1>2, <1>3

\* When a request has ended with both ends in step, the call goes on in step.
LEMMA AdvancedCalm ==
  ASSUME Kept, Calm, pc \in {"waiting", "handshake", "bye"}, NEW v \in Requests, v = Head(plan),
         NEW r \in Ends, Advance(v, r),
         v = "StopSession" => session' = Freed,
         v \notin {"StopSession", "StartSession"} => session' = session,
         Agreed', ssl' => ssl_enabled', inbox' = <<>>, outbox' = <<>>, link' # "garbled",
         v \in Strict /\ r = "Success" => granted' = sent' /\ (v = "StartService" => port' = service')
  PROVE  Calm'
<1>1. /\ call' = call /\ pc' \in {"ready", "returned"}
      /\ pc' = "ready" /\ LastOfSession(plan') => Over'
      /\ stage' \notin {"none", "giveUp"} => session' = NoSession
      /\ pc' = "returned" => call # "Free"
      /\ pc' = "returned" /\ ret' = "Success" /\ call \in Strict => v = call /\ r = "Success"
  BY ReceiveAdvances
<1>2. pc' = "returned" /\ ret' = "Success" /\ call \in Strict
      => granted' = sent' /\ (call = "StartService" => port' = service')
  BY <1>1
<1>3. Together'
  BY <1>1 DEF Together
<1> QED
  BY <1>1, <1>2, <1>3 DEF Calm

\* The answer that is taken is the one to the last request.
LEMMA ReceiveInStep ==
  ASSUME Kept, InStep, NEW v \in Requests, Receive(v)
  PROVE  InStep'
<1> DEFINE a == Head(outbox)
<1>1. ReceiveDoes(v, a)
  BY DEF Receive, ReceiveDoes
<1>2. /\ pc = "waiting" /\ v = Head(plan) /\ outbox # <<>> /\ outbox' = Tail(outbox)
      /\ UNCHANGED <<ssl, inbox, link, sent, service, granted, dsession, dssl, nextId>>
  BY DEF Receive, lockdownd
<1> HIDE DEF a
<1> SUFFICES ASSUME ~faulty', pc' # "aborted" PROVE Calm'
  BY <1>2 DEF InStep
<1>3. ~faulty
  BY <1>1 DEF ReceiveDoes
<1>4. Calm /\ Told
  BY <1>2, <1>3 DEF InStep, Calm, Asked, Lost
<1>11. CASE BeginsTLS(v, a) /\ pc' = "handshake" /\ NewId(a) /\ UNCHANGED ssl_enabled
  \* the device has opened the session and talks TLS from here on
  <2>1. /\ a.kind = v /\ dsession = a.id /\ dssl = a.tls /\ ~ssl
        /\ a.result = "Success" <=> a.id # NoSession
        /\ a.tls => a.result = "Success"
    BY <1>2, <1>4, <1>11 DEF Told, Settles, BeginsTLS, WantsTLS, a
  <2>2. a.tls /\ Opened(a)
    BY <1>11 DEF BeginsTLS, WantsTLS
  <2>3. session' = a.id /\ a.id # NoSession /\ a.id # Freed
    <3>1. dsession \in Nat
      BY DEF Kept, TrustInv, WireOK
    <3> QED
      BY <1>11, <2>1, <2>2, <3>1 DEF NewId, Freed
  <2>4. dssl
    BY <2>1, <2>2
  <2>5. Together'
    BY <1>2, <1>11, <2>1, <2>3, <2>4 DEF Together
  <2> QED
    BY <1>2, <1>4, <1>11, <2>5 DEF Calm, Told
<1>12. CASE EndsTLS(v) /\ pc' = "bye" /\ UNCHANGED <<plan, stage, session, ssl_enabled>>
  <2>1. dsession = NoSession /\ ~dssl /\ v = "StopSession"
    BY <1>2, <1>4, <1>12 DEF Told, Settles, EndsTLS
  <2>2. Together'
    BY <1>2, <1>12, <2>1 DEF Together
  <2> QED
    BY <1>2, <1>4, <1>12, <2>2 DEF Calm, Told
<1>13. CASE ~EndsTLS(v) /\ ~WantsTLS(v, a) /\ Digest(v, a)
  <2>1. /\ Agreed' /\ (ssl' => ssl_enabled')
        /\ v = "StopSession" => session' = Freed
        /\ v \notin {"StopSession", "StartSession"} => session' = session
    BY <1>2, <1>4, <1>13, ReceiveAgrees DEF a
  <2>2. PICK r \in Ends :
          /\ Advance(v, r)
          /\ port' = IF v = "StartService" /\ r = "Success" THEN a.arg ELSE port
          /\ r = Verdict(v, a)
    BY <1>13, DigestAdvances DEF Outcome
  <2>3. v \in Strict /\ r = "Success" => granted' = sent' /\ (v = "StartService" => port' = service')
    <3> SUFFICES ASSUME v \in Strict, r = "Success"
                 PROVE  granted' = sent' /\ (v = "StartService" => port' = service')
      OBVIOUS
    <3>1. a.result = "Success"
      BY <2>2, StrictVerdict
    <3>2. granted = sent /\ (v = "StartService" => a.arg = service)
      BY <1>2, <1>4, <3>1 DEF Told, Settles, a
    <3> QED
      BY <1>2, <2>2, <3>2
  <2>4. inbox' = <<>> /\ outbox' = <<>> /\ link' # "garbled"
    BY <1>2, <1>4 DEF Told, Calm
  <2> QED
    BY <1>2, <1>4, <2>1, <2>2, <2>3, <2>4, AdvancedCalm
<1> QED
  BY <1>1, <1>11, <1>12, <1>13 DEF ReceiveDoes

\* TLS begins with the session, and ends after it.
LEMMA HandshakeInStep ==
  ASSUME Kept, InStep, NEW ok \in BOOLEAN, Handshake(ok)
  PROVE  InStep'
<1>1. /\ pc = "handshake" /\ ssl' = ok /\ ssl_enabled' = ok /\ (~faulty' => ~faulty /\ ok)
      /\ UNCHANGED <<session, inbox, sent, service, granted, dsession, dssl, nextId>>
  BY DEF Handshake, lockdownd
<1> SUFFICES ASSUME ~faulty', pc' # "aborted" PROVE Calm'
  BY <1>1 DEF InStep
<1>2. ok /\ UNCHANGED <<link, outbox>> /\ Advance("StartSession", "Success")
  BY <1>1 DEF Handshake
<1>3. Calm /\ inbox = <<>> /\ outbox = <<>> /\ link # "garbled"
  BY <1>1 DEF InStep, Calm
<1>4. dsession = session /\ session \notin {NoSession, Freed} /\ dssl
  BY <1>1, <1>3 DEF Calm, Together
<1>5. ssl' /\ ssl_enabled' /\ dssl' /\ ssl' \in BOOLEAN /\ dssl \in BOOLEAN
  BY <1>1, <1>2, <1>4 DEF Kept, TrustInv, WireOK
<1>6. Agreed'
  BY <1>1, <1>4, <1>5 DEF Agreed
<1>7. "StartSession" \in Requests /\ "StartSession" \notin Strict /\ "Success" \in Ends
      /\ Head(plan) = "StartSession"
  BY <1>1 DEF Requests, Strict, Pairings, Ends, Kept, CallInv
<1>8. inbox' = <<>> /\ outbox' = <<>> /\ link' # "garbled"
  BY <1>1, <1>2, <1>3
<1> QED
  BY <1>1, <1>2, <1>3, <1>5, <1>6, <1>7, <1>8, AdvancedCalm

LEMMA ByeInStep ==
  ASSUME Kept, InStep, Bye
  PROVE  InStep'
<1>1. /\ pc = "bye" /\ ssl' = FALSE /\ (~faulty' => ~faulty)
      /\ UNCHANGED <<inbox, sent, service, granted, dsession, dssl, nextId>>
  BY DEF Bye, lockdownd
<1> SUFFICES ASSUME ~faulty', pc' # "aborted" PROVE Calm'
  BY <1>1 DEF InStep
<1>2. Calm /\ inbox = <<>> /\ outbox = <<>> /\ link # "garbled"
  BY <1>1 DEF InStep, Calm
<1>3. Head(plan) = "StopSession" /\ dsession = NoSession /\ ~dssl
  BY <1>1, <1>2 DEF Calm, Together
<1>4. session' = Freed /\ Advance("StopSession", "error") /\ UNCHANGED <<link, outbox>>
  BY <1>2, <1>3 DEF Bye
<1>5. ~ssl' /\ ~dssl' /\ ssl' = dssl'
  BY <1>1, <1>3 DEF Kept, TrustInv, WireOK
<1>6. Agreed'
  BY <1>1, <1>3, <1>4, <1>5 DEF Agreed
<1>7. "StopSession" \in Requests /\ "error" \in Ends /\ "error" # "Success"
  BY DEF Requests, Ends
<1>8. inbox' = <<>> /\ outbox' = <<>> /\ link' # "garbled"
  BY <1>1, <1>2, <1>4
<1> QED
  BY <1>1, <1>2, <1>3, <1>4, <1>5, <1>6, <1>7, <1>8, AdvancedCalm

\* The connection is only closed when no session runs.
LEMMA CloseInStep ==
  ASSUME Kept, InStep, Close
  PROVE  InStep'
<1>1. /\ pc = "ready" /\ Head(plan) = "Close" /\ pc' = "returned" /\ stage' = "none"
      /\ session' = NoSession /\ ~ssl_enabled' /\ ssl' = FALSE /\ link' = "eof" /\ inbox' = <<>>
      /\ outbox' = <<>> /\ dssl' = FALSE /\ UNCHANGED <<call, faulty, dsession, nextId>>
  <2>1. ssl' = ssl /\ ~ssl
    BY DEF Close
  <2>2. ssl' = FALSE
    BY <2>1 DEF Kept, TrustInv, WireOK
  <2> QED
    BY <2>2 DEF Close, Ready
<1> SUFFICES ASSUME ~faulty PROVE Calm'
  BY <1>1 DEF InStep
<1>2. Calm /\ Over /\ Agreed
  BY <1>1 DEF InStep, Calm, Together, LastOfSession
<1>3. dsession = NoSession
  BY <1>2 DEF Agreed, Over
<1>4. Agreed'
  BY <1>1, <1>3 DEF Agreed, NoSession, Freed
<1>5. call \in {"Free", "Handshake"}
  <2>1. IsPlan(plan, stage, call) /\ (stage # "none" => call = "Handshake")
    BY <1>1 DEF Kept, CallInv
  <2> QED
    BY <1>1, <2>1, Tuples DEF IsPlan, Paired, Leaving, Simple, Pairings
<1>6. call' \notin Strict
  BY <1>1, <1>5 DEF Strict, Pairings
<1> QED
  BY <1>1, <1>3, <1>4, <1>6 DEF Calm, Together

\* TLS is over before.
LEMMA CloseTLSInStep ==
  ASSUME Kept, InStep, CloseTLS
  PROVE  InStep'
<1>1. pc = "ready" /\ Head(plan) = "Close" /\ ssl /\ UNCHANGED <<faulty, nextId>>
  BY DEF CloseTLS, Ready, lockdownd
<1> SUFFICES ASSUME ~faulty PROVE FALSE
  BY <1>1 DEF InStep
<1>2. Over /\ Agreed
  BY <1>1 DEF InStep, Calm, Together, LastOfSession
<1>3. dsession = NoSession
  BY <1>2 DEF Agreed, Over
<1>4. ~dssl /\ ssl = dssl
  BY <1>2, <1>3 DEF Agreed
<1> QED
  BY <1>1, <1>4

\* Every step keeps the ends in step, or notes a failure.
LEMMA InStepStep == Kept /\ InStep /\ [Next]_vars => InStep'
<1> SUFFICES ASSUME Kept, InStep, [Next]_vars PROVE InStep'
  OBVIOUS
<1>1. ASSUME NEW c \in {"New", "Handshake"}, Open(c) PROVE InStep'
  BY <1>1, OpenInStep DEF InStep
<1>2. ASSUME NEW c \in ApiCalls, Call(c) PROVE InStep'
  BY <1>2, CallInStep
<1>3. ASSUME NEW v \in Requests, Send(v) PROVE InStep'
  BY <1>3, SendInStep
<1>4. ASSUME NEW v \in Requests, SendFails(v) \/ ReceiveFails(v) PROVE InStep'
  \* it is noted as a failure
  BY <1>4 DEF SendFails, ReceiveFails, InStep, lockdownd
<1>5. ASSUME NEW v \in Requests, Receive(v) PROVE InStep'
  BY <1>5, ReceiveInStep
<1>12. ASSUME NEW ok \in BOOLEAN, Handshake(ok) PROVE InStep'
  BY <1>12, HandshakeInStep
<1>13. CASE Bye \/ CloseTLS
  BY <1>13, ByeInStep, CloseTLSInStep
<1>6. CASE DoubleFree
  BY <1>6 DEF DoubleFree, InStep, lockdownd
<1>7. CASE Close
  BY <1>7, CloseInStep
<1>8. CASE Return
  <2>1. /\ pc = "returned" /\ pc' \in {"none", "idle"}
        /\ UNCHANGED <<stage, session, ssl_enabled, ssl, inbox, outbox, link, faulty, dsession,
                       dssl, nextId>>
    BY <1>8 DEF Return, state, lockdownd
  <2> QED
    BY <2>1 DEF InStep, Calm, Together, Agreed
<1>9. CASE Answers
  BY <1>9, AnswersInStep
<1>10. CASE Drops
  BY <1>10, DropsInStep
<1>11. CASE UNCHANGED vars
  BY <1>11 DEF vars, InStep, Calm, Together, Agreed, Over, Asked, Told, Settles, Lost
<1> QED
  BY <1>1, <1>2, <1>3, <1>4, <1>5, <1>6, <1>7, <1>8, <1>9, <1>10, <1>11,
     <1>12, <1>13 DEF Next, Step

\* So they are in step in every state of every behaviour.
LEMMA AlwaysInStep == Spec => [](Kept /\ InStep)
BY InitKept, KeptStep, InitInStep, InStepStep, PTL DEF Spec

\* lockdownd's answers carry no number: still, a call that returns SUCCESS was
\* granted its own last request, and the port that StartService returns
\* belongs to the service asked for, unless a receive has failed before.
THEOREM SuccessWasGranted == Spec => []SuccessIsGranted
<1>1. Kept /\ InStep => SuccessIsGranted
  BY DEF InStep, Calm, SuccessIsGranted
<1> QED
  BY AlwaysInStep, <1>1, PTL

\* lockdownd_start_session, lockdownd_stop_session, lockdownd_client_free:
\* between the calls the session id and TLS of the client are those of the
\* device, and a client that is freed leaves no session on it, unless something
\* failed or start_session left a freed id.
THEOREM EndsInAgreement == Spec => []EndsAgree
<1>1. Kept /\ InStep => EndsAgree
  BY DEF InStep, Calm, Together, Agreed, EndsAgree
<1> QED
  BY AlwaysInStep, <1>1, PTL
=============================================================================
