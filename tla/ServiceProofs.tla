----------------------------- MODULE ServiceProofs -----------------------------
(***************************************************************************)
(* Theorems about the clients of the device's services and the programs    *)
(* over them, for every value of their constants: one section for each,    *)
(* with the inductive invariant its theorems come from.  mobilebackup's    *)
(* tool has a module of its own, BackupProofs.                             *)
(***************************************************************************)
EXTENDS MCServices, BackupProofs, FiniteSetTheorems, TLAPS

-----------------------------------------------------------------------------
(* Queues.                                                                 *)

\* What comes out of a queue, and what goes in.
LEMMA OutOfQueue ==
  ASSUME NEW S, NEW q \in Seq(S), q # <<>>
  PROVE  /\ Tail(q) \in Seq(S) /\ Len(q) \in Nat \ {0} /\ Len(Tail(q)) = Len(q) - 1
         /\ Head(q) \in S /\ Head(q) = q[1] /\ \A i \in 1 .. Len(Tail(q)) : Tail(q)[i] = q[i + 1]
OBVIOUS

LEMMA IntoQueue ==
  ASSUME NEW S, NEW q \in Seq(S), NEW x \in S
  PROVE  /\ Append(q, x) \in Seq(S) /\ Len(q) \in Nat /\ Len(Append(q, x)) = Len(q) + 1
         /\ \A i \in 1 .. Len(q) : Append(q, x)[i] = q[i]
         /\ Append(q, x)[Len(q) + 1] = x
OBVIOUS

\* Once more, and no more often than at most.
LEMMA Products ==
  ASSUME NEW i \in Nat, NEW p \in Nat
  PROVE  i * p \in Nat /\ (i + 1) * p = i * p + p
OBVIOUS

LEMMA ProductsGrow ==
  ASSUME NEW i \in Nat, NEW n \in Nat, NEW p \in Nat, i <= n
  PROVE  i * p <= n * p /\ n * p \in Nat
OBVIOUS

-----------------------------------------------------------------------------
(* AfcClient: the packet numbers.                                          *)

AfcUnits == [part : {"header", "body"}, num : Int, answer : {"done", "empty", "refused"}]

AfcShape ==
  /\ packetNum \in Nat /\ cutShort \in Int
  /\ toDevice \in Seq(Int) /\ fromDevice \in Seq(AfcUnits)
  /\ handle \in [AfcCallers -> Int]

\* Packets are numbered by the exchange that sends them; only the mutex keeps
\* two threads from one number, but no property here needs that.
SentBefore ==
  /\ cutShort <= packetNum
  /\ \A i \in 1 .. Len(toDevice) : toDevice[i] <= packetNum
  /\ \A i \in 1 .. Len(fromDevice) : fromDevice[i].num \in Int /\ fromDevice[i].num <= packetNum

\* A header with the last number is the device's word for it.  A packet that
\* was put together from two is not the last one any more.
HeadersAreHonest ==
  \A i \in 1 .. Len(fromDevice) :
    /\ fromDevice[i].part = "header" /\ fromDevice[i].num = packetNum
    /\ fromDevice[i].answer # "refused"
    => packetNum \in performed

\* An answer that has a body arrives with it.
BodiesFollow ==
  \A i \in 1 .. Len(fromDevice) :
    fromDevice[i].part = "header" /\ fromDevice[i].answer # "empty" => i < Len(fromDevice)

AfcIInv == AfcShape /\ SentBefore /\ HeadersAreHonest /\ BodiesFollow /\ BelievedIsPerformed

\* A new client has sent nothing.
LEMMA AfcInitIInv == AfcInit => AfcIInv
BY DEF BodiesFollow, AfcInit, AfcIInv, AfcShape, SentBefore, HeadersAreHonest, BelievedIsPerformed

\* The device answers the packets in their order.
LEMMA AnswerArrives ==
  ASSUME AfcShape, BodiesFollow, NEW num \in Int, NEW answer \in {"done", "empty", "refused"},
         fromDevice' = Answer(num, answer)
  PROVE  /\ fromDevice' \in Seq(AfcUnits) /\ BodiesFollow'
         /\ \A i \in 1 .. Len(fromDevice') :
              \/ i \in 1 .. Len(fromDevice) /\ fromDevice'[i] = fromDevice[i]
              \/ fromDevice'[i].num = num /\ fromDevice'[i].answer = answer
<1> DEFINE header == [part |-> "header", num |-> num, answer |-> answer]
           body == [part |-> "body", num |-> num, answer |-> answer]
<1>1. fromDevice \in Seq(AfcUnits) /\ header \in AfcUnits /\ body \in AfcUnits
  BY DEF AfcShape, AfcUnits
<1>2. header.num = num /\ header.answer = answer /\ body.num = num /\ body.answer = answer
      /\ body.part # "header"
  OBVIOUS
<1> HIDE DEF header, body
<1>3. CASE answer = "empty"
  <2>1. fromDevice' = fromDevice \o <<header>> \o <<>>
    BY <1>3 DEF Answer, header
  <2> QED
    BY <1>1, <1>2, <2>1, <1>3 DEF BodiesFollow
<1>4. CASE answer # "empty"
  <2>1. fromDevice' = fromDevice \o <<header>> \o <<body>>
    BY <1>4 DEF Answer, header, body
  <2> QED
    BY <1>1, <1>2, <2>1, <1>4 DEF BodiesFollow
<1> QED
  BY <1>3, <1>4

\* What is read is taken from the front.
LEMMA TakenInOrder ==
  ASSUME AfcShape, SentBefore, HeadersAreHonest, BodiesFollow, fromDevice # <<>>,
         UNCHANGED <<packetNum, performed>>,
         \/ fromDevice' = Tail(fromDevice)
         \/ fromDevice' = Tail(Tail(fromDevice)) /\ Tail(fromDevice) # <<>>
  PROVE  /\ fromDevice' \in Seq(AfcUnits)
         /\ \A i \in 1 .. Len(fromDevice') : fromDevice'[i].num \in Int /\ fromDevice'[i].num <= packetNum
         /\ HeadersAreHonest' /\ BodiesFollow'
<1>1. CASE fromDevice' = Tail(fromDevice)
  BY <1>1 DEF AfcShape, SentBefore, HeadersAreHonest, BodiesFollow
<1>2. CASE fromDevice' = Tail(Tail(fromDevice)) /\ Tail(fromDevice) # <<>>
  BY <1>2 DEF AfcShape, SentBefore, HeadersAreHonest, BodiesFollow
<1> QED
  BY <1>1, <1>2

\* The first answer, if it is none of the empty ones, is followed by its body.
LEMMA BodyArrived ==
  ASSUME AfcShape, BodiesFollow, fromDevice # <<>>,
         Head(fromDevice).part = "header", Head(fromDevice).answer # "empty"
  PROVE  Tail(fromDevice) # <<>>
<1>1. fromDevice \in Seq(AfcUnits)
  BY DEF AfcShape
<1>2. Len(fromDevice) \in Nat \ {0} /\ Head(fromDevice) = fromDevice[1]
  BY <1>1
<1>3. 1 < Len(fromDevice)
  BY <1>2 DEF BodiesFollow
<1>4. Len(Tail(fromDevice)) > 0
  BY <1>1, <1>2, <1>3
<1> QED
  BY <1>4

\* Taking the mutex leaves the packets alone, and at most forgets a handle.
LEMMA AfcCallStep ==
  ASSUME AfcIInv, UNCHANGED <<packetNum, toDevice, cutShort, fromDevice, performed, believed>>,
         handle' = handle \/ \E c \in AfcCallers : handle' = [handle EXCEPT ![c] = 0]
  PROVE  AfcIInv'
<1>1. SentBefore' /\ HeadersAreHonest' /\ BodiesFollow'
  BY DEF AfcIInv, SentBefore, HeadersAreHonest, BodiesFollow
<1>2. /\ handle' \in [AfcCallers -> Int]
      /\ \A c \in AfcCallers : handle'[c] = handle[c] \/ handle'[c] = 0
  BY DEF AfcIInv, AfcShape
<1>3. AfcShape'
  BY <1>2 DEF AfcIInv, AfcShape
<1>4. BelievedIsPerformed'
  BY <1>2 DEF AfcIInv, BelievedIsPerformed
<1> QED
  BY <1>1, <1>3, <1>4 DEF AfcIInv

\* afc_dispatch_packet: the new number is nobody's yet.
LEMMA AfcDispatchStep ==
  ASSUME AfcIInv, NEW c \in AfcCallers, Dispatch(c)
  PROVE  AfcIInv'
<1> USE DEF AfcIInv, AfcShape, SentBefore
<1>1. /\ packetNum' = packetNum + 1
      /\ UNCHANGED <<handle, fromDevice, performed, believed>>
  BY DEF Dispatch
<1>2. cutShort' \in Int /\ cutShort' <= packetNum'
  BY <1>1 DEF Dispatch
<1>3. toDevice' \in Seq(Int) /\ \A i \in 1 .. Len(toDevice') : toDevice'[i] <= packetNum'
  <2>1. CASE toDevice' = Append(toDevice, packetNum')
    BY <1>1, <2>1
  <2>2. CASE UNCHANGED toDevice
    BY <1>1, <2>2
  <2> QED
    BY <2>1, <2>2 DEF Dispatch
<1>4. \A i \in 1 .. Len(fromDevice') : fromDevice'[i].num \in Int /\ fromDevice'[i].num <= packetNum
  BY <1>1
<1>5. AfcShape' /\ SentBefore' /\ HeadersAreHonest'
  BY <1>1, <1>2, <1>3, <1>4 DEF HeadersAreHonest
<1>6. BelievedIsPerformed' /\ BodiesFollow'
  BY <1>1 DEF BelievedIsPerformed, BodiesFollow
<1> QED
  BY <1>5, <1>6

\* What arrives too late, in part or for somebody else is an error.
LEMMA AfcReceiveFailsStep ==
  ASSUME AfcIInv, NEW c \in AfcCallers, ReceiveFails(c)
  PROVE  AfcIInv'
<1>1. UNCHANGED <<handle, packetNum, toDevice, cutShort, performed, believed>>
  BY DEF ReceiveFails
<1>2. CASE UNCHANGED fromDevice
  BY <1>1, <1>2, AfcCallStep
<1>3. CASE fromDevice # <<>> /\ fromDevice' = Tail(fromDevice)
  BY <1>1, <1>3, TakenInOrder
     DEF AfcIInv, AfcShape, SentBefore, BelievedIsPerformed
<1>4. CASE ReceiveAnswer("refused")
  <2>1. fromDevice # <<>> /\ Tail(fromDevice) # <<>> /\ fromDevice' = Tail(Tail(fromDevice))
    BY <1>4, BodyArrived DEF ReceiveAnswer, Expected, AfcIInv
  <2> QED
    BY <1>1, <2>1, TakenInOrder DEF AfcIInv, AfcShape, SentBefore, BelievedIsPerformed
<1> QED
  BY <1>2, <1>3, <1>4 DEF ReceiveFails, ReceiveError

\* The header of the last number is believed, and it is honest.
LEMMA AfcReceiveSucceedsStep ==
  ASSUME AfcIInv, NEW c \in AfcCallers, ReceiveSucceeds(c)
  PROVE  AfcIInv'
<1>1. PICK answer \in {"done", "empty"} :
        /\ ReceiveAnswer(answer)
        /\ handle' = handle \/ handle' = [handle EXCEPT ![c] = packetNum]
  BY DEF ReceiveSucceeds
<1>2. /\ believed' = believed \cup {packetNum}
      /\ UNCHANGED <<packetNum, toDevice, cutShort, performed>>
  BY DEF ReceiveSucceeds
<1>3. /\ fromDevice # <<>> /\ fromDevice[1].part = "header" /\ fromDevice[1].num = packetNum
      /\ fromDevice[1].answer = answer
  BY <1>1 DEF ReceiveAnswer, Expected, AfcIInv, AfcShape
<1>4. packetNum \in performed
  BY <1>3 DEF AfcIInv, AfcShape, HeadersAreHonest
<1>5. \/ fromDevice' = Tail(fromDevice)
      \/ fromDevice' = Tail(Tail(fromDevice)) /\ Tail(fromDevice) # <<>>
  BY <1>1, BodyArrived DEF ReceiveAnswer, Expected, AfcIInv
<1>6. /\ fromDevice' \in Seq(AfcUnits)
      /\ \A i \in 1 .. Len(fromDevice') : fromDevice'[i].num \in Int /\ fromDevice'[i].num <= packetNum
      /\ HeadersAreHonest' /\ BodiesFollow'
  BY <1>2, <1>3, <1>5, TakenInOrder DEF AfcIInv
<1>7. handle' \in [AfcCallers -> Int] /\ BelievedIsPerformed'
  BY <1>1, <1>2, <1>4 DEF AfcIInv, AfcShape, BelievedIsPerformed
<1> QED
  BY <1>2, <1>6, <1>7 DEF AfcIInv, AfcShape, SentBefore

\* The device answers what it has done, and what it has not.
LEMMA AfcDeviceAnswersStep == AfcIInv /\ AfcDeviceAnswers => AfcIInv'
<1> SUFFICES ASSUME AfcIInv, AfcDeviceAnswers PROVE AfcIInv'
  OBVIOUS
<1>1. PICK answer \in {"done", "empty", "refused"} :
        /\ fromDevice' = Answer(Head(toDevice), answer)
        /\ performed' = IF answer = "refused" THEN performed ELSE performed \cup {Head(toDevice)}
  BY DEF AfcDeviceAnswers
<1>2. /\ toDevice # <<>> /\ toDevice' = Tail(toDevice)
      /\ UNCHANGED <<handle, packetNum, cutShort, believed>>
  BY DEF AfcDeviceAnswers
<1> DEFINE num == Head(toDevice)
<1>3. num \in Int /\ num <= packetNum
  BY <1>2 DEF AfcIInv, AfcShape, SentBefore
<1> HIDE DEF num
<1>4. /\ fromDevice' \in Seq(AfcUnits) /\ BodiesFollow'
      /\ \A i \in 1 .. Len(fromDevice') :
           \/ i \in 1 .. Len(fromDevice) /\ fromDevice'[i] = fromDevice[i]
           \/ fromDevice'[i].num = num /\ fromDevice'[i].answer = answer
  <2>1. AfcShape /\ BodiesFollow /\ fromDevice' = Answer(num, answer)
    BY <1>1, Zenon DEF AfcIInv, num
  <2> QED
    BY <1>1, <1>3, <2>1, AnswerArrives
<1>5. performed \subseteq performed' /\ (answer # "refused" => num \in performed')
  BY <1>1 DEF num
<1>6. HeadersAreHonest'
  <2>1. SUFFICES ASSUME NEW i \in 1 .. Len(fromDevice'),
                        fromDevice'[i].part = "header", fromDevice'[i].num = packetNum,
                        fromDevice'[i].answer # "refused"
                 PROVE  packetNum \in performed'
    BY <1>2 DEF HeadersAreHonest
  <2>2. CASE i \in 1 .. Len(fromDevice) /\ fromDevice'[i] = fromDevice[i]
    BY <1>5, <2>1, <2>2 DEF AfcIInv, HeadersAreHonest
  <2>3. CASE fromDevice'[i].num = num /\ fromDevice'[i].answer = answer
    BY <1>5, <2>1, <2>3
  <2> QED
    BY <1>4, <2>2, <2>3
<1>7. toDevice' \in Seq(Int) /\ \A i \in 1 .. Len(toDevice') : toDevice'[i] <= packetNum
  BY <1>2 DEF AfcIInv, AfcShape, SentBefore
<1>8. \A i \in 1 .. Len(fromDevice') : fromDevice'[i].num \in Int /\ fromDevice'[i].num <= packetNum
  BY <1>3, <1>4 DEF AfcIInv, SentBefore
<1>9. AfcShape' /\ SentBefore'
  BY <1>2, <1>4, <1>7, <1>8 DEF AfcIInv, AfcShape, SentBefore
<1>10. BelievedIsPerformed'
  BY <1>2, <1>5 DEF AfcIInv, BelievedIsPerformed
<1> QED
  BY <1>4, <1>6, <1>9, <1>10 DEF AfcIInv

\* A packet that the device has put together from two is none of the last.
LEMMA AfcDeviceMistakesStep == AfcIInv /\ AfcDeviceMistakes => AfcIInv'
<1> SUFFICES ASSUME AfcIInv, AfcDeviceMistakes PROVE AfcIInv'
  OBVIOUS
<1>1. /\ cutShort \in Int /\ cutShort < packetNum /\ cutShort' = -1
      /\ fromDevice' = Answer(cutShort, "done")
      /\ UNCHANGED <<handle, packetNum, toDevice, performed, believed>>
  BY DEF AfcDeviceMistakes, AfcIInv, AfcShape
<1>2. /\ fromDevice' \in Seq(AfcUnits) /\ BodiesFollow'
      /\ \A i \in 1 .. Len(fromDevice') :
           \/ i \in 1 .. Len(fromDevice) /\ fromDevice'[i] = fromDevice[i]
           \/ fromDevice'[i].num = cutShort
  <2>1. AfcShape /\ BodiesFollow
    BY Zenon DEF AfcIInv
  <2> QED
    BY <1>1, <2>1, AnswerArrives
<1>3. AfcShape' /\ SentBefore'
  <2>1. AfcShape'
    BY <1>1, <1>2 DEF AfcIInv, AfcShape
  <2>2. packetNum \in Nat /\ \A i \in 1 .. Len(fromDevice') :
          fromDevice'[i].num \in Int /\ fromDevice'[i].num <= packetNum
    BY <1>1, <1>2 DEF AfcIInv, AfcShape, SentBefore
  <2> QED
    BY <1>1, <2>1, <2>2 DEF AfcIInv, SentBefore
<1>4. HeadersAreHonest' /\ BelievedIsPerformed'
  BY <1>1, <1>2 DEF AfcIInv, AfcShape, HeadersAreHonest, BelievedIsPerformed
<1> QED
  BY <1>2, <1>3, <1>4 DEF AfcIInv

\* Every step keeps the invariant.
LEMMA AfcStepIInv == AfcIInv /\ [AfcNext]_afcVars => AfcIInv'
<1> SUFFICES ASSUME AfcIInv, [AfcNext]_afcVars PROVE AfcIInv'
  OBVIOUS
<1>1. CASE UNCHANGED afcVars
  BY <1>1, AfcCallStep DEF afcVars
<1>2. ASSUME NEW c \in AfcCallers, NEW call, NEW n, AfcBegin(c, call, n)
      PROVE  AfcIInv'
  BY <1>2, AfcCallStep DEF AfcBegin
<1>3. ASSUME NEW c \in AfcCallers,
             InfoCall(c) \/ PathCall(c) \/ NameCall(c) \/ OpenCall(c) \/ HandleCall(c) \/ SizeCall(c)
      PROVE  AfcIInv'
  BY <1>2, <1>3 DEF InfoCall, PathCall, NameCall, OpenCall, HandleCall, SizeCall
<1>4. ASSUME NEW c \in AfcCallers, NEW n \in 1 .. MaxSegments, ReadCall(c, n) \/ WriteCall(c, n)
      PROVE  AfcIInv'
  BY <1>2, <1>4 DEF ReadCall, WriteCall
<1> QED
  BY <1>1, <1>3, <1>4, AfcDispatchStep, AfcReceiveFailsStep, AfcReceiveSucceedsStep, AfcDeviceAnswersStep,
     AfcDeviceMistakesStep DEF AfcNext

\* afc_receive_data believes no answer but the one to its own packet: what a
\* call takes for done the device has done, and every handle is of a file it
\* has opened, whatever was late, lost or cut short before.
THEOREM NumbersTell == AfcSpec => []BelievedIsPerformed
<1>1. AfcIInv => BelievedIsPerformed
  BY DEF AfcIInv
<1> QED
  BY AfcInitIInv, AfcStepIInv, <1>1, PTL DEF AfcSpec

\* The mutex keeps all but one of the callers out of the exchanges.
OneAtATime ==
  \A c \in AfcCallers : afcPc[c] # "idle" =>
    /\ afcMutex /\ segmentsLeft[c] > 0
    /\ \A d \in AfcCallers : afcPc[d] # "idle" => d = c

AfcPlaces ==
  /\ afcMutex \in BOOLEAN
  /\ afcPc \in [AfcCallers -> {"idle", "dispatch", "receive"}]
  /\ segmentsLeft \in [AfcCallers -> 0 .. MaxSegments]

\* A call sends no more packets than its segments.
AfcBudget ==
  /\ afcCalls \in Nat /\ afcCalls <= MaxAfcCalls
  /\ packetNum <= afcCalls * MaxSegments
  /\ \A c \in AfcCallers :
       /\ afcPc[c] = "dispatch" => packetNum + segmentsLeft[c] <= afcCalls * MaxSegments
       /\ afcPc[c] = "receive" => packetNum + segmentsLeft[c] <= afcCalls * MaxSegments + 1

\* The numbers that are on their way are of packets that were sent.
AfcNumbers ==
  /\ handle \in [AfcCallers -> {0} \cup PacketNums]
  /\ performed \subseteq PacketNums
  /\ \A i \in 1 .. Len(toDevice) : toDevice[i] > 0

AfcTypes == AfcPlaces /\ OneAtATime /\ AfcBudget /\ AfcNumbers

LEMMA AfcInitTypes == AfcInit => AfcTypes
<1> SUFFICES ASSUME AfcInit PROVE AfcTypes
  OBVIOUS
<1>1. AfcPlaces /\ OneAtATime
  <2>1. 0 \in 0 .. MaxSegments
    BY AfcBoundsAreNaturals
  <2>2. AfcPlaces
    BY <2>1, Zenon DEF AfcInit, AfcPlaces
  <2> QED
    BY <2>2 DEF AfcInit, OneAtATime
<1>2. 0 * MaxSegments \in Nat
  BY AfcBoundsAreNaturals, Products
<1>3. AfcBudget
  BY <1>2, AfcBoundsAreNaturals DEF AfcInit, AfcBudget
<1>4. AfcNumbers
  BY DEF AfcInit, AfcNumbers
<1> QED
  BY <1>1, <1>3, <1>4 DEF AfcTypes

\* Every call of the interface is one that takes the mutex.
LEMMA AfcActs ==
  ASSUME AfcNext
  PROVE  \/ \E c \in AfcCallers : \E call : \E n \in 1 .. MaxSegments : AfcBegin(c, call, n)
         \/ \E c \in AfcCallers : Dispatch(c) \/ ReceiveFails(c) \/ ReceiveSucceeds(c)
         \/ AfcDeviceAnswers \/ AfcDeviceMistakes
<1>1. 1 \in 1 .. MaxSegments
  BY AfcBoundsAreNaturals
<1>2. ASSUME NEW c \in AfcCallers, InfoCall(c)
      PROVE  \E call : \E n \in 1 .. MaxSegments : AfcBegin(c, call, n)
  BY <1>1, <1>2, Zenon DEF InfoCall
<1>3. ASSUME NEW c \in AfcCallers, PathCall(c)
      PROVE  \E call : \E n \in 1 .. MaxSegments : AfcBegin(c, call, n)
  BY <1>1, <1>3, Zenon DEF PathCall
<1>4. ASSUME NEW c \in AfcCallers, NameCall(c)
      PROVE  \E call : \E n \in 1 .. MaxSegments : AfcBegin(c, call, n)
  BY <1>1, <1>4, Zenon DEF NameCall
<1>5. ASSUME NEW c \in AfcCallers, OpenCall(c)
      PROVE  \E call : \E n \in 1 .. MaxSegments : AfcBegin(c, call, n)
  BY <1>1, <1>5, Zenon DEF OpenCall
<1>6. ASSUME NEW c \in AfcCallers, HandleCall(c)
      PROVE  \E call : \E n \in 1 .. MaxSegments : AfcBegin(c, call, n)
  BY <1>1, <1>6, Zenon DEF HandleCall
<1>7. ASSUME NEW c \in AfcCallers, SizeCall(c)
      PROVE  \E call : \E n \in 1 .. MaxSegments : AfcBegin(c, call, n)
  BY <1>1, <1>7, Zenon DEF SizeCall
<1>8. ASSUME NEW c \in AfcCallers, NEW n \in 1 .. MaxSegments, ReadCall(c, n)
      PROVE  \E call : \E m \in 1 .. MaxSegments : AfcBegin(c, call, m)
  BY <1>8, Zenon DEF ReadCall
<1>9. ASSUME NEW c \in AfcCallers, NEW n \in 1 .. MaxSegments, WriteCall(c, n)
      PROVE  \E call : \E m \in 1 .. MaxSegments : AfcBegin(c, call, m)
  BY <1>9, Zenon DEF WriteCall
<1> QED
  BY <1>2, <1>3, <1>4, <1>5, <1>6, <1>7, <1>8, <1>9, Zenon DEF AfcNext

\* One call holds the mutex, from its first packet to its last.
LEMMA AfcPlacesStep ==
  ASSUME AfcTypes, [AfcNext]_afcVars
  PROVE  AfcPlaces' /\ OneAtATime'
<1> USE DEF AfcTypes, AfcPlaces, OneAtATime, AfcGoto, AfcReturn
<1>1. ASSUME NEW c \in AfcCallers, NEW call, NEW n \in 1 .. MaxSegments, AfcBegin(c, call, n)
      PROVE  AfcPlaces' /\ OneAtATime'
  BY <1>1, AfcBoundsAreNaturals DEF AfcBegin
<1>2. ASSUME NEW c \in AfcCallers, Dispatch(c) PROVE AfcPlaces' /\ OneAtATime'
  BY <1>2 DEF Dispatch
<1>3. ASSUME NEW c \in AfcCallers, ReceiveFails(c) PROVE AfcPlaces' /\ OneAtATime'
  BY <1>3 DEF ReceiveFails
<1>4. ASSUME NEW c \in AfcCallers, ReceiveSucceeds(c) PROVE AfcPlaces' /\ OneAtATime'
  <2>1. /\ afcPc[c] = "receive" /\ segmentsLeft' = [segmentsLeft EXCEPT ![c] = @ - 1]
        /\ \/ afcMutex' = FALSE /\ afcPc' = [afcPc EXCEPT ![c] = "idle"]
           \/ /\ afcMutex' = afcMutex /\ afcPc' = [afcPc EXCEPT ![c] = "dispatch"]
              /\ segmentsLeft[c] # 1
    BY <1>4 DEF ReceiveSucceeds
  <2>2. segmentsLeft[c] \in 1 .. MaxSegments
    BY <2>1, AfcBoundsAreNaturals
  <2>3. \A d \in AfcCallers : d # c => afcPc[d] = "idle"
    BY <2>1
  <2>4. segmentsLeft' \in [AfcCallers -> 0 .. MaxSegments]
    BY <2>1, <2>2, AfcBoundsAreNaturals
  <2>5. CASE afcMutex' = FALSE /\ afcPc' = [afcPc EXCEPT ![c] = "idle"]
    BY <2>3, <2>4, <2>5
  <2>6. CASE /\ afcMutex' = afcMutex /\ afcPc' = [afcPc EXCEPT ![c] = "dispatch"]
             /\ segmentsLeft[c] # 1
    <3>1. segmentsLeft'[c] > 0
      BY <2>1, <2>2, <2>6
    <3> QED
      BY <2>1, <2>3, <2>4, <2>6, <3>1
  <2> QED
    BY <2>1, <2>5, <2>6
<1>5. CASE AfcDeviceAnswers
  BY <1>5 DEF AfcDeviceAnswers
<1>6. CASE AfcDeviceMistakes
  BY <1>6 DEF AfcDeviceMistakes
<1>7. CASE UNCHANGED afcVars
  BY <1>7 DEF afcVars
<1> QED
  BY <1>1, <1>2, <1>3, <1>4, <1>5, <1>6, <1>7, AfcActs

\* A call that begins brings as many numbers as a call may need.
LEMMA AfcBudgetStep ==
  ASSUME AfcTypes, AfcIInv, [AfcNext]_afcVars
  PROVE  AfcBudget'
<1> USE DEF AfcTypes, AfcPlaces, OneAtATime, AfcBudget, AfcGoto, AfcReturn
<1> DEFINE all == afcCalls * MaxSegments
<1>1. all \in Nat /\ (afcCalls + 1) * MaxSegments = all + MaxSegments /\ packetNum \in Nat
  BY AfcBoundsAreNaturals, Products DEF AfcIInv, AfcShape
<1> HIDE DEF all
<1>2. /\ packetNum <= all
      /\ \A c \in AfcCallers : /\ afcPc[c] = "dispatch" => packetNum + segmentsLeft[c] <= all
                               /\ afcPc[c] = "receive" => packetNum + segmentsLeft[c] <= all + 1
  BY DEF all
<1>3. ASSUME NEW c \in AfcCallers, NEW call, NEW n \in 1 .. MaxSegments, AfcBegin(c, call, n)
      PROVE  AfcBudget'
  <2>1. /\ ~afcMutex /\ afcCalls < MaxAfcCalls /\ afcCalls' = afcCalls + 1 /\ packetNum' = packetNum
        /\ afcPc' = [afcPc EXCEPT ![c] = "dispatch"] /\ segmentsLeft' = [segmentsLeft EXCEPT ![c] = n]
    BY <1>3 DEF AfcBegin
  <2>2. \A d \in AfcCallers : afcPc[d] = "idle"
    BY <2>1
  <2>3. (afcCalls * MaxSegments)' = all + MaxSegments
    BY <1>1, <2>1
  <2>4. packetNum + n <= all + MaxSegments /\ n \in Nat /\ MaxSegments \in Nat
    BY <1>1, <1>2, AfcBoundsAreNaturals
  <2>5. /\ packetNum' <= all + MaxSegments
        /\ \A d \in AfcCallers :
             /\ afcPc'[d] = "dispatch" => packetNum' + segmentsLeft'[d] <= all + MaxSegments
             /\ afcPc'[d] = "receive" => packetNum' + segmentsLeft'[d] <= all + MaxSegments + 1
    BY <1>1, <1>2, <2>1, <2>2, <2>4
  <2>6. afcCalls' \in Nat /\ afcCalls' <= MaxAfcCalls
    BY <2>1, AfcBoundsAreNaturals
  <2> QED
    BY <2>3, <2>5, <2>6
<1>4. ASSUME NEW c \in AfcCallers, Dispatch(c) PROVE AfcBudget'
  <2>1. /\ afcPc[c] = "dispatch" /\ afcPc' = [afcPc EXCEPT ![c] = "receive"]
        /\ packetNum' = packetNum + 1 /\ UNCHANGED <<segmentsLeft, afcCalls>>
    BY <1>4 DEF Dispatch
  <2>2. \A d \in AfcCallers : d # c => afcPc[d] = "idle"
    BY <2>1
  <2>3. segmentsLeft[c] \in Nat \ {0} /\ packetNum + segmentsLeft[c] <= all
    BY <1>2, <2>1, AfcBoundsAreNaturals
  <2>4. (afcCalls * MaxSegments)' = all
    BY <2>1 DEF all
  <2>5. /\ packetNum' <= all
        /\ \A d \in AfcCallers :
             /\ afcPc'[d] = "dispatch" => packetNum' + segmentsLeft'[d] <= all
             /\ afcPc'[d] = "receive" => packetNum' + segmentsLeft'[d] <= all + 1
    BY <1>1, <2>1, <2>2, <2>3
  <2> QED
    BY <2>1, <2>4, <2>5
<1>5. ASSUME NEW c \in AfcCallers, ReceiveFails(c) PROVE AfcBudget'
  BY <1>5 DEF ReceiveFails
<1>6. ASSUME NEW c \in AfcCallers, ReceiveSucceeds(c) PROVE AfcBudget'
  <2>1. /\ afcPc[c] = "receive" /\ segmentsLeft' = [segmentsLeft EXCEPT ![c] = @ - 1]
        /\ UNCHANGED <<packetNum, afcCalls>>
        /\ afcPc' = [afcPc EXCEPT ![c] = "idle"] \/ afcPc' = [afcPc EXCEPT ![c] = "dispatch"]
    BY <1>6 DEF ReceiveSucceeds
  <2>2. \A d \in AfcCallers : d # c => afcPc[d] = "idle"
    BY <2>1
  <2>3. segmentsLeft[c] \in Nat \ {0} /\ packetNum + segmentsLeft[c] <= all + 1
    BY <1>2, <2>1, AfcBoundsAreNaturals
  <2>4. (afcCalls * MaxSegments)' = all
    BY <2>1 DEF all
  <2>5. \A d \in AfcCallers :
             /\ afcPc'[d] = "dispatch" => packetNum' + segmentsLeft'[d] <= all
             /\ afcPc'[d] = "receive" => packetNum' + segmentsLeft'[d] <= all + 1
    BY <1>1, <2>1, <2>2, <2>3
  <2> QED
    BY <1>2, <2>1, <2>4, <2>5
<1>7. CASE AfcDeviceAnswers
  BY <1>7 DEF AfcDeviceAnswers
<1>8. CASE AfcDeviceMistakes
  BY <1>8 DEF AfcDeviceMistakes
<1>9. CASE UNCHANGED afcVars
  BY <1>9 DEF afcVars
<1> QED
  BY <1>3, <1>4, <1>5, <1>6, <1>7, <1>8, <1>9, AfcActs

\* What the device carries out and what a handle stands for was sent.
LEMMA AfcNumbersStep ==
  ASSUME AfcTypes, AfcIInv, [AfcNext]_afcVars
  PROVE  AfcNumbers'
<1> USE DEF AfcNumbers
<1>1. packetNum \in Nat /\ packetNum <= MaxAfcCalls * MaxSegments /\ MaxAfcCalls * MaxSegments \in Nat
  <2>1. /\ afcCalls \in Nat /\ afcCalls <= MaxAfcCalls /\ packetNum <= afcCalls * MaxSegments
        /\ packetNum \in Nat
    BY DEF AfcTypes, AfcBudget, AfcIInv, AfcShape
  <2>2. /\ afcCalls * MaxSegments <= MaxAfcCalls * MaxSegments
        /\ afcCalls * MaxSegments \in Nat /\ MaxAfcCalls * MaxSegments \in Nat
    BY <2>1, AfcBoundsAreNaturals, ProductsGrow, Products
  <2> QED
    BY <2>1, <2>2
<1>2. AfcNumbers /\ toDevice \in Seq(Int) /\ \A i \in 1 .. Len(toDevice) : toDevice[i] <= packetNum
  BY DEF AfcTypes, AfcIInv, AfcShape, SentBefore
<1>3. ASSUME UNCHANGED <<handle, performed, toDevice>> PROVE AfcNumbers'
  BY <1>2, <1>3
<1>4. ASSUME NEW c \in AfcCallers, Dispatch(c) PROVE AfcNumbers'
  <2>1. /\ UNCHANGED <<handle, performed>>
        /\ toDevice' = toDevice \/ toDevice' = Append(toDevice, packetNum + 1)
    BY <1>4 DEF Dispatch
  <2>2. \A i \in 1 .. Len(toDevice') : toDevice'[i] > 0
    <3>1. CASE toDevice' = toDevice
      BY <1>2, <3>1
    <3>2. CASE toDevice' = Append(toDevice, packetNum + 1)
      <4>1. packetNum + 1 \in Int /\ packetNum + 1 > 0
        BY <1>1
      <4> QED
        BY <1>2, <3>2, <4>1, IntoQueue
    <3> QED
      BY <2>1, <3>1, <3>2
  <2> QED
    BY <1>2, <2>1, <2>2
<1>5. ASSUME NEW c \in AfcCallers, ReceiveSucceeds(c) PROVE AfcNumbers'
  <2>1. /\ UNCHANGED <<toDevice, performed>> /\ believed' = believed \cup {packetNum}
        /\ handle' = handle \/ handle' = [handle EXCEPT ![c] = packetNum]
    BY <1>5 DEF ReceiveSucceeds
  <2>2. packetNum \in PacketNums
    BY <1>2, <1>5, <2>1, AfcReceiveSucceedsStep DEF AfcIInv, BelievedIsPerformed
  <2> QED
    BY <1>2, <2>1, <2>2
<1>6. CASE AfcDeviceAnswers
  <2>1. /\ toDevice # <<>> /\ toDevice' = Tail(toDevice) /\ handle' = handle
        /\ performed' = performed \/ performed' = performed \cup {Head(toDevice)}
    BY <1>6 DEF AfcDeviceAnswers
  <2>2. Head(toDevice) \in PacketNums
    BY <1>1, <1>2, <2>1 DEF PacketNums
  <2>3. \A i \in 1 .. Len(toDevice') : toDevice'[i] > 0
    BY <1>2, <2>1
  <2> QED
    BY <1>2, <2>1, <2>2, <2>3
<1>7. ASSUME NEW c \in AfcCallers, NEW call, NEW n, AfcBegin(c, call, n) PROVE AfcNumbers'
  <2>1. /\ UNCHANGED <<performed, toDevice>>
        /\ handle' = handle \/ handle' = [handle EXCEPT ![c] = 0]
    BY <1>7 DEF AfcBegin
  <2> QED
    BY <1>2, <2>1
<1>8. ASSUME NEW c \in AfcCallers, ReceiveFails(c) PROVE AfcNumbers'
  BY <1>3, <1>8 DEF ReceiveFails
<1>9. CASE AfcDeviceMistakes
  BY <1>3, <1>9 DEF AfcDeviceMistakes
<1>10. CASE UNCHANGED afcVars
  BY <1>3, <1>10 DEF afcVars
<1> QED
  BY <1>4, <1>5, <1>6, <1>7, <1>8, <1>9, <1>10, AfcActs

\* One thread at a time sends and receives (the mutex of struct
\* afc_client_private), and the packets are numbered from one on.
THEOREM AfcTypeCorrect == AfcSpec => []AfcTypeOK
<1>1. AfcIInv /\ AfcTypes /\ [AfcNext]_afcVars => (AfcIInv /\ AfcTypes)'
  BY AfcStepIInv, AfcPlacesStep, AfcBudgetStep, AfcNumbersStep DEF AfcTypes
<1>2. AfcIInv /\ AfcTypes => AfcTypeOK
  <2> SUFFICES ASSUME AfcIInv, AfcTypes PROVE AfcTypeOK
    OBVIOUS
  <2>1. packetNum \in 0 .. MaxAfcCalls * MaxSegments
    <3>1. /\ afcCalls \in Nat /\ afcCalls <= MaxAfcCalls /\ packetNum <= afcCalls * MaxSegments
          /\ packetNum \in Nat
      BY DEF AfcTypes, AfcBudget, AfcIInv, AfcShape
    <3>2. /\ afcCalls * MaxSegments <= MaxAfcCalls * MaxSegments
          /\ afcCalls * MaxSegments \in Nat /\ MaxAfcCalls * MaxSegments \in Nat
      BY <3>1, AfcBoundsAreNaturals, ProductsGrow, Products
    <3> QED
      BY <3>1, <3>2
  <2> QED
    BY <2>1 DEF AfcTypes, AfcPlaces, AfcNumbers, AfcIInv, BelievedIsPerformed, AfcTypeOK
<1> QED
  BY AfcInitIInv, AfcInitTypes, <1>1, <1>2, PTL DEF AfcSpec

-----------------------------------------------------------------------------
(* Iproxy: the three threads that serve a connection.                      *)

ProxyPositions == {"none", "start", "test", "receive", "send", "close", "mark", "stop", "join", "ended"}

ProxyShape ==
  /\ connection \in Nat /\ cfd \in Int
  /\ forwarder \in [Forwarders -> ProxyPositions] /\ serving \in [Forwarders -> Nat]
  /\ acceptor # "none" => connection > 0
  /\ clientOpen \subseteq 1 .. connection /\ refused \subseteq 1 .. connection

\* Each thread waits for the one it has started: main for the acceptor, the
\* acceptor for ctos and ctos for stoc.
ProxyNested ==
  /\ proxyMain = "accept" <=> acceptor = "none"
  /\ proxyMain \in {"accept", "joining"}
  /\ acceptor = "join" <=> forwarder["ctos"] # "none"
  /\ acceptor = "join" => serving["ctos"] = connection
  /\ forwarder["stoc"] \notin {"none", "ended"} =>
       /\ forwarder["ctos"] \notin {"none", "start", "ended"}
       /\ serving["stoc"] = serving["ctos"]
  /\ forwarder["stoc"] \notin {"start", "join"}

\* Of the clients that are open, all but the last were refused; and the last is
\* open only while the descriptor in client_data is its own.
ProxyOneOpen ==
  /\ clientOpen \subseteq refused \cup {connection}
  /\ acceptor # "none" => cfd \in {-1, connection} /\ (cfd = -1 => connection \notin clientOpen)
  /\ \A t \in Forwarders : forwarder[t] = "mark" => connection \notin clientOpen
  /\ acceptor \in {"none", "ended"} => clientOpen \subseteq refused /\ ~deviceOpen
  /\ deviceOpen => acceptor \in {"join", "close"}
  /\ deviceOpen \in BOOLEAN

ProxyIInv == ProxyShape /\ ProxyNested /\ ProxyOneOpen

\* iproxy starts without connections.
LEMMA ProxyInitIInv == IproxyInit => ProxyIInv
<1> SUFFICES ASSUME IproxyInit PROVE ProxyIInv
  OBVIOUS
<1> USE DEF IproxyInit, Forwarders, ProxyPositions
<1>1. ProxyShape
  BY DEF ProxyShape
<1>2. ProxyNested
  BY DEF ProxyNested
<1>3. ProxyOneOpen
  BY DEF ProxyOneOpen
<1> QED
  BY <1>1, <1>2, <1>3 DEF ProxyIInv

\* The types.
LEMMA ProxyShapeStep ==
  ASSUME ProxyShape, ProxyNested, [IproxyNext]_proxyVars
  PROVE  ProxyShape'
<1> USE DEF ProxyShape, ProxyNested, Forwarders, ProxyPositions
<1>1. CASE ProxyAccept
  <2>1. /\ acceptor = "none" /\ acceptor' = "list" /\ connection' = connection + 1
        /\ proxyMain = "accept" /\ proxyMain' = "joining"
        /\ UNCHANGED <<forwarder, serving, deviceOpen, refused>>
    BY <1>1, Zenon DEF ProxyAccept, ProxyNested
  <2>2. \/ cfd' = connection + 1 /\ clientOpen' = clientOpen \cup {connection + 1}
        \/ cfd' = -1 /\ clientOpen' = clientOpen
    BY <1>1 DEF ProxyAccept
  <2>3. 1 .. connection \subseteq 1 .. connection + 1 /\ connection + 1 \in 1 .. connection + 1
    OBVIOUS
  <2>4. clientOpen' \subseteq 1 .. connection' /\ refused' \subseteq 1 .. connection'
    BY <2>1, <2>2, <2>3
  <2>5. connection' \in Nat /\ connection' > 0 /\ cfd' \in Int
    BY <2>1, <2>2
  <2> QED
    BY <2>1, <2>4, <2>5
<1>2. CASE ProxyJoins
  BY <1>2 DEF ProxyJoins
<1>3. CASE ListDevices
  <2>1. connection \in 1 .. connection
    BY <1>3 DEF ListDevices
  <2>2. /\ UNCHANGED <<connection, cfd, forwarder, serving, clientOpen>>
        /\ refused' = refused \/ refused' = refused \cup {connection}
    BY <1>3 DEF ListDevices
  <2> QED
    BY <1>3, <2>1, <2>2 DEF ListDevices
<1>4. CASE ConnectDevice
  BY <1>4 DEF ConnectDevice
<1>5. CASE AcceptorJoins
  BY <1>5 DEF AcceptorJoins
<1>6. CASE AcceptorCloses
  BY <1>6 DEF AcceptorCloses
<1>7. CASE StartStoc
  BY <1>7 DEF StartStoc, unforwarded
<1>8. CASE CtosJoins
  BY <1>8 DEF CtosJoins, unforwarded, JoinsStoc
<1>9. ASSUME NEW t \in Forwarders, ForwardTests(t) PROVE ProxyShape'
  BY <1>9 DEF ForwardTests, ForwarderGoto, unforwarded
<1>10. ASSUME NEW t \in Forwarders, ForwardReceives(t) PROVE ProxyShape'
  BY <1>10 DEF ForwardReceives, ForwarderGoto, unforwarded
<1>11. ASSUME NEW t \in Forwarders, ForwardSends(t) PROVE ProxyShape'
  BY <1>11 DEF ForwardSends, ForwarderGoto, unforwarded
<1>12. ASSUME NEW t \in Forwarders, ForwardCloses(t) PROVE ProxyShape'
  BY <1>12 DEF ForwardCloses, ForwarderGoto, unforwarded
<1>13. ASSUME NEW t \in Forwarders, ForwardMarks(t) PROVE ProxyShape'
  BY <1>13 DEF ForwardMarks, ForwarderGoto, unforwarded
<1>14. ASSUME NEW t \in Forwarders, ForwardStops(t) PROVE ProxyShape'
  BY <1>14 DEF ForwardStops, ForwarderGoto, unforwarded, OtherOne
<1>15. CASE UNCHANGED proxyVars
  BY <1>15 DEF proxyVars
<1> QED
  BY <1>1, <1>2, <1>3, <1>4, <1>5, <1>6, <1>7, <1>8, <1>9, <1>10, <1>11, <1>12, <1>13, <1>14,
     <1>15 DEF IproxyNext

\* Nobody starts a thread before the last one was joined.
LEMMA ProxyNestedStep ==
  ASSUME ProxyShape, ProxyNested, [IproxyNext]_proxyVars
  PROVE  ProxyNested'
<1> USE DEF ProxyShape, ProxyNested, Forwarders, ProxyPositions
<1>1. CASE ProxyAccept
  BY <1>1 DEF ProxyAccept
<1>2. CASE ProxyJoins
  BY <1>2 DEF ProxyJoins
<1>3. CASE ListDevices
  BY <1>3 DEF ListDevices
<1>4. CASE ConnectDevice
  BY <1>4 DEF ConnectDevice
<1>5. CASE AcceptorJoins
  BY <1>5 DEF AcceptorJoins
<1>6. CASE AcceptorCloses
  BY <1>6 DEF AcceptorCloses
<1>7. CASE StartStoc
  BY <1>7 DEF StartStoc, unforwarded
<1>8. CASE CtosJoins
  BY <1>8 DEF CtosJoins, unforwarded, JoinsStoc
<1>9. ASSUME NEW t \in Forwarders, ForwardTests(t) PROVE ProxyNested'
  BY <1>9 DEF ForwardTests, ForwarderGoto, unforwarded
<1>10. ASSUME NEW t \in Forwarders, ForwardReceives(t) PROVE ProxyNested'
  BY <1>10 DEF ForwardReceives, ForwarderGoto, unforwarded
<1>11. ASSUME NEW t \in Forwarders, ForwardSends(t) PROVE ProxyNested'
  BY <1>11 DEF ForwardSends, ForwarderGoto, unforwarded
<1>12. ASSUME NEW t \in Forwarders, ForwardCloses(t) PROVE ProxyNested'
  BY <1>12 DEF ForwardCloses, ForwarderGoto, unforwarded
<1>13. ASSUME NEW t \in Forwarders, ForwardMarks(t) PROVE ProxyNested'
  BY <1>13 DEF ForwardMarks, ForwarderGoto, unforwarded
<1>14. ASSUME NEW t \in Forwarders, ForwardStops(t) PROVE ProxyNested'
  BY <1>14 DEF ForwardStops, ForwarderGoto, unforwarded, OtherOne
<1>15. CASE UNCHANGED proxyVars
  BY <1>15 DEF proxyVars
<1> QED
  BY <1>1, <1>2, <1>3, <1>4, <1>5, <1>6, <1>7, <1>8, <1>9, <1>10, <1>11, <1>12, <1>13, <1>14,
     <1>15 DEF IproxyNext

\* Whoever comes last closes what is open.
LEMMA ProxyOneOpenStep ==
  ASSUME ProxyShape, ProxyNested, ProxyOneOpen, [IproxyNext]_proxyVars
  PROVE  ProxyOneOpen'
<1> USE DEF ProxyShape, ProxyNested, ProxyOneOpen, Forwarders, ProxyPositions
<1>1. CASE ProxyAccept
  <2>1. /\ acceptor = "none" /\ acceptor' = "list" /\ connection' = connection + 1
        /\ proxyMain = "accept" /\ proxyMain' = "joining"
        /\ UNCHANGED <<forwarder, serving, deviceOpen, refused>>
    BY <1>1, Zenon DEF ProxyAccept, ProxyNested
  <2>2. \/ cfd' = connection + 1 /\ clientOpen' = clientOpen \cup {connection + 1}
        \/ cfd' = -1 /\ clientOpen' = clientOpen
    BY <1>1 DEF ProxyAccept
  <2>3. 1 .. connection \subseteq 1 .. connection + 1 /\ connection + 1 \in 1 .. connection + 1
    OBVIOUS
  <2>4. clientOpen \subseteq refused /\ connection + 1 \notin clientOpen /\ ~deviceOpen
    BY <2>1
  <2>5. \A t \in Forwarders : forwarder[t] = "none" \/ forwarder[t] = "ended"
    BY <2>1
  <2>6. /\ clientOpen' \subseteq refused' \cup {connection'} /\ cfd' \in {-1, connection'}
        /\ cfd' = -1 => connection' \notin clientOpen'
    <3>1. connection + 1 # -1
      OBVIOUS
    <3>2. CASE cfd' = connection + 1 /\ clientOpen' = clientOpen \cup {connection + 1}
      BY <2>1, <2>4, <3>1, <3>2
    <3>3. CASE cfd' = -1 /\ clientOpen' = clientOpen
      BY <2>1, <2>4, <3>3
    <3> QED
      BY <2>2, <3>2, <3>3
  <2>7. \A t \in Forwarders : forwarder'[t] # "mark"
    BY <2>1, <2>5
  <2>8. deviceOpen' = FALSE
    BY <2>1, <2>4, Zenon
  <2> QED
    BY <2>1, <2>6, <2>7, <2>8
<1>2. CASE ProxyJoins
  BY <1>2 DEF ProxyJoins
<1>3. CASE ListDevices
  BY <1>3 DEF ListDevices
<1>4. CASE ConnectDevice
  BY <1>4 DEF ConnectDevice
<1>5. CASE AcceptorJoins
  BY <1>5 DEF AcceptorJoins
<1>6. CASE AcceptorCloses
  BY <1>6 DEF AcceptorCloses
<1>7. CASE StartStoc
  BY <1>7 DEF StartStoc, unforwarded
<1>8. CASE CtosJoins
  BY <1>8 DEF CtosJoins, unforwarded, JoinsStoc
<1>9. ASSUME NEW t \in Forwarders, ForwardTests(t) PROVE ProxyOneOpen'
  BY <1>9 DEF ForwardTests, ForwarderGoto, unforwarded
<1>10. ASSUME NEW t \in Forwarders, ForwardReceives(t) PROVE ProxyOneOpen'
  BY <1>10 DEF ForwardReceives, ForwarderGoto, unforwarded
<1>11. ASSUME NEW t \in Forwarders, ForwardSends(t) PROVE ProxyOneOpen'
  BY <1>11 DEF ForwardSends, ForwarderGoto, unforwarded
<1>12. ASSUME NEW t \in Forwarders, ForwardCloses(t) PROVE ProxyOneOpen'
  BY <1>12 DEF ForwardCloses, ForwarderGoto, unforwarded
<1>13. ASSUME NEW t \in Forwarders, ForwardMarks(t) PROVE ProxyOneOpen'
  BY <1>13 DEF ForwardMarks, ForwarderGoto, unforwarded
<1>14. ASSUME NEW t \in Forwarders, ForwardStops(t) PROVE ProxyOneOpen'
  BY <1>14 DEF ForwardStops, ForwarderGoto, unforwarded, OtherOne
<1>15. CASE UNCHANGED proxyVars
  BY <1>15 DEF proxyVars
<1> QED
  BY <1>1, <1>2, <1>3, <1>4, <1>5, <1>6, <1>7, <1>8, <1>9, <1>10, <1>11, <1>12, <1>13, <1>14,
     <1>15 DEF IproxyNext

\* The invariant of every behaviour.
THEOREM IproxyInvariant == IproxySpec => []ProxyIInv
<1>1. ProxyIInv /\ [IproxyNext]_proxyVars => ProxyIInv'
  BY ProxyShapeStep, ProxyNestedStep, ProxyOneOpenStep DEF ProxyIInv
<1> QED
  BY ProxyInitIInv, <1>1, PTL DEF IproxySpec

\* The forwarders of a connection are gone before its descriptors may mean
\* another, and nothing stays open but what was refused (acceptor_thread,
\* run_ctos_loop and run_stoc_loop), though both forwarders close and clear one
\* descriptor without a lock.
THEOREM NothingOutlives == IproxySpec => []ForwardersOutlived
<1>1. ProxyIInv => ForwardersOutlived
  BY DEF ProxyIInv, ProxyShape, ProxyNested, ProxyOneOpen, ForwardersOutlived, Forwarders, ProxyPositions
<1> QED
  BY IproxyInvariant, <1>1, PTL

\* The types, down to the connections that the descriptors are of.
LEMMA IproxyTypesStep ==
  ASSUME ProxyIInv, IproxyTypeOK, [IproxyNext]_proxyVars
  PROVE  IproxyTypeOK'
<1> USE DEF IproxyTypeOK, Forwarders
<1>1. connection \in Nat /\ (acceptor # "none" => connection \in 1 .. connection)
  BY DEF ProxyIInv, ProxyShape
<1>2. CASE ProxyAccept
  <2>1. /\ connection < MaxConnections /\ connection' = connection + 1
        /\ proxyMain' = "joining" /\ acceptor' = "list"
        /\ UNCHANGED <<forwarder, serving, csfd, stopping, deviceOpen, refused>>
    BY <1>2 DEF ProxyAccept
  <2>2. \/ cfd' = connection + 1 /\ clientOpen' = clientOpen \cup {connection + 1}
        \/ cfd' = -1 /\ clientOpen' = clientOpen
    BY <1>2 DEF ProxyAccept
  <2>3. /\ 1 .. connection \subseteq 1 .. connection + 1 /\ connection + 1 \in 1 .. connection + 1
        /\ 0 .. connection \subseteq 0 .. connection + 1
    BY <1>1
  <2>4. connection' \in 0 .. MaxConnections
    BY <1>1, <2>1, IproxyBound
  <2>5. /\ serving' \in [Forwarders -> 0 .. connection'] /\ csfd' \in {-1} \cup 1 .. connection'
        /\ refused' \subseteq 1 .. connection'
    BY <2>1, <2>3
  <2>6. cfd' \in {-1} \cup 1 .. connection' /\ clientOpen' \subseteq 1 .. connection'
    BY <2>1, <2>2, <2>3
  <2> QED
    BY <2>1, <2>4, <2>5, <2>6
<1>3. CASE ProxyJoins
  BY <1>1, <1>3 DEF ProxyJoins
<1>4. CASE ListDevices
  BY <1>1, <1>4 DEF ListDevices
<1>5. CASE ConnectDevice
  <2>1. /\ csfd' = -1 \/ csfd' = connection
        /\ UNCHANGED <<proxyMain, connection, cfd, clientOpen, refused>>
        /\ acceptor' \in {"close", "join"} /\ acceptor # "none"
        /\ forwarder' = forwarder \/ forwarder' = [forwarder EXCEPT !["ctos"] = "start"]
        /\ serving' = serving \/ serving' = [serving EXCEPT !["ctos"] = connection]
    BY <1>5 DEF ConnectDevice
  <2>2. deviceOpen' \in BOOLEAN /\ stopping' \in [Forwarders -> BOOLEAN]
    BY <1>5 DEF ConnectDevice
  <2>3. csfd' \in {-1} \cup 1 .. connection' /\ serving' \in [Forwarders -> 0 .. connection']
    BY <1>1, <2>1
  <2> QED
    BY <1>1, <2>1, <2>2, <2>3
<1>6. CASE AcceptorJoins
  BY <1>1, <1>6 DEF AcceptorJoins
<1>7. CASE AcceptorCloses
  BY <1>1, <1>7 DEF AcceptorCloses
<1>8. CASE StartStoc
  BY <1>8 DEF StartStoc, unforwarded
<1>9. CASE CtosJoins
  BY <1>9 DEF CtosJoins, unforwarded
<1>10. ASSUME NEW t \in Forwarders, ForwardTests(t) PROVE IproxyTypeOK'
  BY <1>10 DEF ForwardTests, ForwarderGoto, unforwarded
<1>11. ASSUME NEW t \in Forwarders, ForwardReceives(t) PROVE IproxyTypeOK'
  BY <1>11 DEF ForwardReceives, ForwarderGoto, unforwarded
<1>12. ASSUME NEW t \in Forwarders, ForwardSends(t) PROVE IproxyTypeOK'
  BY <1>12 DEF ForwardSends, ForwarderGoto, unforwarded
<1>13. ASSUME NEW t \in Forwarders, ForwardCloses(t) PROVE IproxyTypeOK'
  BY <1>13 DEF ForwardCloses, ForwarderGoto, unforwarded
<1>14. ASSUME NEW t \in Forwarders, ForwardMarks(t) PROVE IproxyTypeOK'
  BY <1>14 DEF ForwardMarks, ForwarderGoto, unforwarded
<1>15. ASSUME NEW t \in Forwarders, ForwardStops(t) PROVE IproxyTypeOK'
  BY <1>15 DEF ForwardStops, ForwarderGoto, unforwarded, OtherOne
<1>16. CASE UNCHANGED proxyVars
  BY <1>16 DEF proxyVars
<1> QED
  BY <1>2, <1>3, <1>4, <1>5, <1>6, <1>7, <1>8, <1>9, <1>10, <1>11, <1>12, <1>13,
     <1>14, <1>15, <1>16 DEF IproxyNext

\* Every descriptor is one of a connection that was accepted, or none.
THEOREM IproxyTypeCorrect == IproxySpec => []IproxyTypeOK
<1>1. IproxyInit => IproxyTypeOK
  <2> SUFFICES ASSUME IproxyInit PROVE IproxyTypeOK
    OBVIOUS
  <2>1. 0 \in 0 .. MaxConnections /\ 0 \in 0 .. 0
    BY IproxyBound
  <2>2. connection \in 0 .. MaxConnections /\ serving \in [Forwarders -> 0 .. connection]
    BY <2>1, Zenon DEF IproxyInit
  <2>3. /\ forwarder \in [Forwarders -> {"none", "start", "test", "receive", "send", "close", "mark",
                                         "stop", "join", "ended"}]
        /\ stopping \in [Forwarders -> BOOLEAN]
    BY Zenon DEF IproxyInit
  <2> QED
    BY <2>2, <2>3, Zenon DEF IproxyInit, IproxyTypeOK
<1>2. ProxyIInv /\ IproxyTypeOK /\ [IproxyNext]_proxyVars => IproxyTypeOK'
  BY IproxyTypesStep
<1> QED
  BY IproxyInvariant, <1>1, <1>2, PTL DEF IproxySpec

-----------------------------------------------------------------------------
(* The image mounter (ImageMounter): only a whole image is mounted.        *)

\* Where the copy is: nothing is read before it starts, what was read is what was
\* written but for the amount in hand, and only a read of nothing ends it.
ImCopied == uploaded = imageLength \/ readFailed
ImCopyProgress ==
  /\ imPc \in {"lockdown", "mounter", "afc", "unlock", "signature", "staging"} =>
       readAt = 0 /\ uploaded = 0
  /\ imPc = "read" => uploaded = readAt
  /\ imPc = "write" => uploaded + amount = readAt /\ (amount = 0 => readAt = imageLength \/ readFailed)
  /\ imPc = "mount" => ImCopied

\* An image that was asked to be mounted is behind the tool.
ImAsked == mountAsked => imPc \in {"mount_result", "hangup", "leave", "exit"} /\ ImCopied

ImIInv == ImTypeOK /\ ImCopyProgress /\ ImAsked

LEMMA ReadStaysInside ==
  ASSUME NEW length \in Nat, NEW at \in 0 .. length, NEW n \in 0 .. (length - at)
  PROVE  at + n \in 0 .. length
OBVIOUS

LEMMA ImInitial == ImInit => ImIInv
<1> SUFFICES ASSUME ImInit PROVE ImIInv
  OBVIOUS
<1>1. imageLength \in Nat /\ ReadSize \in Nat
  BY ImageBounds DEF ImInit
<1>2. ImTypeOK
  <2>1. 0 \in 0 .. imageLength /\ 0 \in 0 .. ReadSize
    BY <1>1
  <2> QED
    BY <2>1, Zenon DEF ImInit, ImTypeOK
<1>3. ImCopyProgress /\ ImAsked
  BY DEF ImInit, ImCopyProgress, ImAsked
<1> QED
  BY <1>2, <1>3 DEF ImIInv

LEMMA ImTypeStep == ImIInv /\ [ImNext]_imVars => ImTypeOK'
<1> SUFFICES ASSUME ImIInv, [ImNext]_imVars PROVE ImTypeOK'
  OBVIOUS
<1> USE DEF ImIInv, ImTypeOK, ImCopyProgress, ImGoto, imCopy
<1>1. imageLength \in Nat /\ ReadSize \in Nat \ {0}
  BY ImageBounds
<1>2. CASE ConnectLockdown
  BY <1>2 DEF ConnectLockdown
<1>3. CASE StartMounter
  BY <1>3 DEF StartMounter
<1>4. CASE StartAfc
  BY <1>4 DEF StartAfc
<1>5. CASE FreeLockdown
  BY <1>5 DEF FreeLockdown
<1>6. CASE OpenFiles
  BY <1>6 DEF OpenFiles
<1>7. CASE OpenTarget
  BY <1>7 DEF OpenTarget
<1>8. CASE ReadImage
  <2>1. readAt \in 0 .. imageLength /\ imPc' = "write" /\ readAt' = readAt + amount'
    BY <1>8 DEF ReadImage
  <2>2. amount' \in 0 .. ReadSize /\ amount' \in 0 .. (imageLength - readAt)
    BY <1>1, <1>8, <2>1 DEF ReadImage, Smaller
  <2>3. readAt' \in 0 .. imageLength
    BY <1>1, <2>1, <2>2, ReadStaysInside
  <2>4. readFailed' \in BOOLEAN
    BY <1>8, Zenon DEF ReadImage
  <2> QED
    BY <1>8, <2>1, <2>2, <2>3, <2>4 DEF ReadImage
<1>9. CASE WriteImage
  BY <1>1, <1>9 DEF WriteImage, AfterFailedWrite
<1>10. CASE LookupImage
  BY <1>10 DEF LookupImage
<1>11. CASE MountImage
  BY <1>11 DEF MountImage
<1>12. CASE MountResult
  BY <1>12 DEF MountResult
<1>13. CASE Hangup
  BY <1>13 DEF Hangup
<1>14. CASE LeaveMounter
  BY <1>14 DEF LeaveMounter
<1>15. CASE UNCHANGED imVars
  BY <1>15 DEF imVars
<1> QED
  BY <1>2, <1>3, <1>4, <1>5, <1>6, <1>7, <1>8, <1>9, <1>10, <1>11, <1>12, <1>13, <1>14, <1>15 DEF ImNext

LEMMA ImProgressStep == ImIInv /\ [ImNext]_imVars => ImCopyProgress'
<1> SUFFICES ASSUME ImIInv, [ImNext]_imVars PROVE ImCopyProgress'
  OBVIOUS
<1> USE DEF ImIInv, ImTypeOK, ImCopyProgress, ImCopied, ImGoto, imCopy
<1>1. imageLength \in Nat /\ ReadSize \in Nat \ {0}
  BY ImageBounds
<1>2. CASE ConnectLockdown
  BY <1>2 DEF ConnectLockdown
<1>3. CASE StartMounter
  BY <1>3 DEF StartMounter
<1>4. CASE StartAfc
  BY <1>4 DEF StartAfc
<1>5. CASE FreeLockdown
  BY <1>5 DEF FreeLockdown
<1>6. CASE OpenFiles
  BY <1>6 DEF OpenFiles
<1>7. CASE OpenTarget
  BY <1>7 DEF OpenTarget
<1>8. CASE ReadImage
  <2>1. /\ readAt \in 0 .. imageLength /\ imPc = "read" /\ imPc' = "write"
        /\ readAt' = readAt + amount' /\ uploaded' = uploaded /\ imageLength' = imageLength
    BY <1>8 DEF ReadImage
  <2>2. /\ amount' \in Nat
        /\ amount' = 0 => Smaller(ReadSize, imageLength - readAt) = 0 \/ readFailed'
    <3>1. amount' \in Nat
      BY <1>1, <1>8, <2>1 DEF ReadImage, Smaller
    <3>2. amount' # Smaller(ReadSize, imageLength - readAt) => readFailed'
      BY <1>8, Zenon DEF ReadImage
    <3> QED
      BY <3>1, <3>2
  <2>3. Smaller(ReadSize, imageLength - readAt) = 0 => readAt = imageLength
    BY <1>1, <2>1 DEF Smaller
  <2>4. uploaded' + amount' = readAt'
    BY <2>1, <2>2
  <2>5. amount' = 0 => readAt' = imageLength' \/ readFailed'
    BY <2>1, <2>2, <2>3
  <2> QED
    BY <2>1, <2>4, <2>5
<1>9. CASE WriteImage
  BY <1>1, <1>9 DEF WriteImage, AfterFailedWrite
<1>10. CASE LookupImage
  BY <1>10 DEF LookupImage
<1>11. CASE MountImage
  BY <1>11 DEF MountImage
<1>12. CASE MountResult
  BY <1>12 DEF MountResult
<1>13. CASE Hangup
  BY <1>13 DEF Hangup
<1>14. CASE LeaveMounter
  BY <1>14 DEF LeaveMounter
<1>15. CASE UNCHANGED imVars
  BY <1>15 DEF imVars
<1> QED
  BY <1>2, <1>3, <1>4, <1>5, <1>6, <1>7, <1>8, <1>9, <1>10, <1>11, <1>12, <1>13, <1>14, <1>15 DEF ImNext

LEMMA ImAskedStep == ImIInv /\ [ImNext]_imVars => ImAsked'
<1> SUFFICES ASSUME ImIInv, [ImNext]_imVars PROVE ImAsked'
  OBVIOUS
<1> USE DEF ImIInv, ImCopyProgress, ImAsked, ImCopied, ImGoto, imCopy
<1>2. CASE ConnectLockdown
  BY <1>2 DEF ConnectLockdown
<1>3. CASE StartMounter
  BY <1>3 DEF StartMounter
<1>4. CASE StartAfc
  BY <1>4 DEF StartAfc
<1>5. CASE FreeLockdown
  BY <1>5 DEF FreeLockdown
<1>6. CASE OpenFiles
  BY <1>6 DEF OpenFiles
<1>7. CASE OpenTarget
  BY <1>7 DEF OpenTarget
<1>8. CASE ReadImage
  BY <1>8 DEF ReadImage
<1>9. CASE WriteImage
  BY <1>9 DEF WriteImage, AfterFailedWrite
<1>10. CASE LookupImage \/ MountImage
  BY <1>10 DEF LookupImage, MountImage
<1>12. CASE MountResult
  BY <1>12 DEF MountResult
<1>13. CASE Hangup
  BY <1>13 DEF Hangup
<1>14. CASE LeaveMounter
  BY <1>14 DEF LeaveMounter
<1>15. CASE UNCHANGED imVars
  BY <1>15 DEF imVars
<1> QED
  BY <1>2, <1>3, <1>4, <1>5, <1>6, <1>7, <1>8, <1>9, <1>10, <1>12, <1>13, <1>14, <1>15 DEF ImNext

\* The invariant of every behaviour of the tool.
THEOREM ImInvariant == ImSpec => []ImIInv
<1>1. ImIInv /\ [ImNext]_imVars => ImIInv'
  BY ImTypeStep, ImProgressStep, ImAskedStep DEF ImIInv
<1> QED
  BY ImInitial, <1>1, PTL DEF ImSpec

\* ideviceimagemounter asks for a mount only once all of the image is in the
\* staging directory, unless it could not read it to its end (main).
THEOREM MountsWhole == ImSpec => []MountAfterUpload
<1>1. ImIInv => MountAfterUpload
  BY DEF ImIInv, ImAsked, ImCopied, MountAfterUpload
<1> QED
  BY ImInvariant, <1>1, PTL

-----------------------------------------------------------------------------
(* Installer: ideviceinstaller, from its first connection to its clean-up.  *)

InstHandles == {"client", "np", "ipc", "afc"}

\* The positions of main in the first round, before its command and after it.
AheadOfCommand == {"list", "list_archives", "install", "upload", "command", "uninstall",
                   "restore", "remove_archive", "archive", "archive_command"}
InArchive == {"archive", "archive_command", "archive_wait", "copy", "copying", "copied"}
MainPositions == AheadOfCommand \cup InArchive
                   \cup {"connect", "run_again", "unneeded", "wait", "cleanup", "exit"}

\* A pointer is set to NULL wherever it is freed.
InstKept ==
  /\ InstTypeOK /\ mainPc \in MainPositions
  /\ handles \in [InstHandles -> {"none", "live"}] /\ doubleFree = FALSE

\* Only a copy leads to a second round, and the archive's positions belong to
\* the first.
Copied == options.copy /\ options.remove /\ copied = stated /\ stated # 0
InstRounds ==
  /\ round = 0 => mainPc \in {"connect", "run_again", "cleanup", "exit"}
  /\ mainPc = "connect" => round = 0
  /\ mainPc \in InArchive => round = 1
  /\ mainPc \in {"copying", "copied"} => options.copy /\ stated # 0
  /\ mainPc = "run_again" => round = 0 \/ (round = 1 /\ Copied /\ mode = "remove_archive")
  /\ round = 2 => Copied /\ mode = "remove_archive"
  /\ removing => round = 2

\* In the first round the flags tell of the first operation.
FlagsTell ==
  /\ round <= 1 => /\ opCompleted => operation[1] = "complete"
                   /\ errOccured => operation[1] = "error"
                   /\ operation[2] = "none"
  /\ round = 0 \/ (round = 1 /\ mainPc \in AheadOfCommand) => operation[1] = "none"
  /\ operation[1] = "running" => waitForOp

\* What a wait has been for.
InstWaited ==
  /\ mainPc \in {"copy", "copying", "copied", "run_again", "cleanup"} /\ round = 1
  /\ operation[1] = "running"
  => notified \/ ticks >= WaitTicks

InstIInv == InstKept /\ InstRounds /\ FlagsTell /\ InstWaited

LEMMA InstInitial == InstInit => InstIInv
<1> SUFFICES ASSUME InstInit PROVE InstIInv
  OBVIOUS
<1>1. InstKept
  BY TicksAreNaturals DEF InstInit, InstKept, InstTypeOK, Rounds, InstHandles, MainPositions
<1>2. InstRounds
  BY DEF InstInit, InstRounds, InArchive
<1>3. FlagsTell /\ InstWaited
  BY DEF InstInit, FlagsTell, InstWaited, Rounds
<1> QED
  BY <1>1, <1>2, <1>3 DEF InstIInv

\* A handle that is not dangling can be used.
LEMMA NoDoubleFree ==
  ASSUME InstKept, NEW h \in InstHandles, Touches(h)
  PROVE  doubleFree' = FALSE
<1>1. handles[h] # "freed"
  BY DEF InstKept
<1> QED
  BY <1>1 DEF InstKept, Touches

\* Opening AFC leaves its handle and the lockdownd client live or not there.
LEMMA OpenAfcKeeps ==
  ASSUME InstKept, NEW from, NEW to \in MainPositions, OpenAfc(from, to)
  PROVE  /\ handles' \in [InstHandles -> {"none", "live"}] /\ doubleFree' = FALSE
         /\ mainPc' \in MainPositions
         /\ UNCHANGED <<mode, options, round, instFlags, ticks, operation, stated, copied, removing>>
<1>1. handles' \in [InstHandles -> {"none", "live"}]
  BY DEF InstKept, OpenAfc, InstHandles
<1>2. doubleFree' = FALSE
  BY NoDoubleFree DEF OpenAfc, InstHandles
<1>3. mainPc' \in MainPositions
  BY DEF OpenAfc, MainGoto, MainPositions
<1> QED
  BY <1>1, <1>2, <1>3 DEF OpenAfc

LEMMA OpensAfc ==
  ASSUME InstKept, PrepareInstall \/ OpenAfc("archive", "archive_command")
  PROVE  InstKept'
<1>1. "upload" \in MainPositions /\ "archive_command" \in MainPositions
  BY DEF MainPositions, AheadOfCommand, InArchive
<1>2. /\ handles' \in [InstHandles -> {"none", "live"}] /\ doubleFree' = FALSE
      /\ mainPc' \in MainPositions
      /\ UNCHANGED <<mode, options, round, instFlags, ticks, operation, stated, copied, removing>>
  BY <1>1, OpenAfcKeeps DEF PrepareInstall
<1>3. InstTypeOK'
  BY <1>2 DEF InstKept, InstTypeOK, InstHandles
<1> QED
  BY <1>2, <1>3 DEF InstKept

LEMMA InstKeptStep == InstIInv /\ [InstNext]_instVars => InstKept'
<1> SUFFICES ASSUME InstIInv, [InstNext]_instVars PROVE InstKept'
  OBVIOUS
<1> USE DEF InstIInv, InstKept, InstTypeOK, InstRounds, MainPositions, AheadOfCommand, InArchive, InstHandles, Rounds, MainGoto, SetHandle, Touches, instFlags, Modes
<1>1. WaitTicks \in Nat /\ NotifyTicks \in 0 .. WaitTicks /\ FileSizes \subseteq Nat
  BY TicksAreNaturals, SizesAreNaturals
<1>2. CASE Connect
  BY <1>2 DEF Connect
<1>3. CASE StartProxy
  <2>1. round' \in 0 .. 2 /\ mainPc' \in MainPositions
    BY <1>3 DEF StartProxy
  <2>2. handles' \in [InstHandles -> {"none", "live"}]
    BY <1>3 DEF StartProxy
  <2>3. doubleFree' = FALSE
    BY <1>3 DEF StartProxy
  <2> QED
    BY <1>3, <2>1, <2>2, <2>3 DEF StartProxy
<1>4. CASE ListApps
  BY <1>4 DEF ListApps, ListEnds
<1>5. CASE ListArchives
  BY <1>5 DEF ListArchives, ListEnds
<1>6. CASE PrepareInstall
  BY <1>6, OpensAfc
<1>7. CASE Upload
  BY <1>7 DEF Upload
<1>8. CASE Install
  BY <1>8 DEF Install, Command
<1>9. CASE UninstallOrRestore
  BY <1>9 DEF UninstallOrRestore, Command
<1>10. CASE ArchiveOptions
  <2>1. CASE OpenAfc("archive", "archive_command")
    BY <2>1, OpensAfc
  <2>2. CASE ~options.copy
    BY <1>10, <2>2 DEF ArchiveOptions
  <2> QED
    BY <1>10, <2>1, <2>2 DEF ArchiveOptions
<1>11. CASE Archive
  <2>1. ticks' = 0 /\ 0 \in 0 .. WaitTicks /\ mainPc' \in MainPositions
    BY <1>1, <1>11 DEF Archive
  <2>2. operation' \in [Rounds -> {"none", "running", "complete", "error"}]
    BY <1>11 DEF Archive, Command
  <2> QED
    BY <1>11, <2>1, <2>2 DEF Archive
<1>12. CASE LeaveLockdown
  <2>1. ticks' = 0 /\ 0 \in 0 .. WaitTicks /\ mainPc' \in MainPositions
    BY <1>1, <1>12 DEF LeaveLockdown
  <2>2. handles' \in [InstHandles -> {"none", "live"}] /\ doubleFree' = FALSE
    BY <1>12 DEF LeaveLockdown
  <2> QED
    BY <1>12, <2>1, <2>2 DEF LeaveLockdown
<1>13. CASE Waits
  <2>1. mainPc' \in MainPositions
    BY <1>13 DEF Waits
  <2>2. ticks' = ticks \/ (ticks' = ticks + 1 /\ (ticks < WaitTicks \/ ticks < NotifyTicks))
    BY <1>13 DEF Waits, AwaitsOperation, AwaitsNotification
  <2>3. ticks' \in 0 .. WaitTicks
    BY <1>1, <2>2
  <2> QED
    BY <1>13, <2>1, <2>3 DEF Waits
<1>14. CASE CopyStarts
  <2>1. mainPc' \in MainPositions
    BY <1>14 DEF CopyStarts
  <2>2. stated' \in Nat
    BY <1>1, <1>14 DEF CopyStarts
  <2>3. handles' \in [InstHandles -> {"none", "live"}]
    BY <1>14 DEF CopyStarts
  <2>4. doubleFree' = FALSE
    BY <1>14, NoDoubleFree DEF CopyStarts
  <2> QED
    BY <1>14, <2>1, <2>2, <2>3, <2>4 DEF CopyStarts
<1>15. CASE CopyChunk
  <2>1. mainPc' \in MainPositions /\ doubleFree' = FALSE
    BY <1>15 DEF CopyChunk
  <2>2. copied' = copied \/ \E n \in FileSizes \ {0} : copied' = copied + n
    BY <1>15 DEF CopyChunk
  <2>3. copied' \in Nat
    BY <1>1, <2>2
  <2> QED
    BY <1>15, <2>1, <2>3 DEF CopyChunk
<1>16. CASE CopyEnds
  BY <1>16 DEF CopyEnds
<1>17. CASE Cleanup
  BY <1>17 DEF Cleanup
<1>18. CASE Notifier
  BY <1>18 DEF Notifier
<1>19. ASSUME NEW r \in Rounds, StatusCallback(r) PROVE InstKept'
  BY <1>19 DEF StatusCallback
<1>20. CASE UNCHANGED instVars
  BY <1>20 DEF instVars
<1> QED
  BY <1>2, <1>3, <1>4, <1>5, <1>6, <1>7, <1>8, <1>9, <1>10, <1>11, <1>12, <1>13,
     <1>14, <1>15, <1>16, <1>17, <1>18, <1>19, <1>20 DEF InstNext, MainStep

LEMMA InstRoundsStep == InstIInv /\ [InstNext]_instVars => InstRounds'
<1> SUFFICES ASSUME InstIInv, [InstNext]_instVars PROVE InstRounds'
  OBVIOUS
<1> USE DEF InstIInv, InstKept, InstTypeOK, InstRounds, Copied, AheadOfCommand, InArchive, MainGoto, instFlags, Modes
<1>1. CASE Connect
  BY <1>1 DEF Connect
<1>2. CASE StartProxy
  BY <1>2 DEF StartProxy
<1>3. CASE ListApps
  BY <1>3 DEF ListApps, ListEnds
<1>4. CASE ListArchives
  BY <1>4 DEF ListArchives, ListEnds
<1>5. CASE PrepareInstall
  BY <1>5 DEF PrepareInstall, OpenAfc
<1>6. CASE Upload
  BY <1>6 DEF Upload
<1>7. CASE Install
  BY <1>7 DEF Install, Command
<1>8. CASE UninstallOrRestore
  BY <1>8 DEF UninstallOrRestore, Command
<1>9. CASE ArchiveOptions
  BY <1>9 DEF ArchiveOptions, OpenAfc
<1>10. CASE Archive
  BY <1>10 DEF Archive, Command
<1>11. CASE LeaveLockdown
  BY <1>11 DEF LeaveLockdown
<1>12. CASE Waits
  BY <1>12 DEF Waits, AwaitsOperation, AwaitsNotification
<1>13. CASE CopyStarts
  BY <1>13 DEF CopyStarts
<1>14. CASE CopyChunk
  BY <1>14 DEF CopyChunk
<1>15. CASE CopyEnds
  BY <1>15 DEF CopyEnds
<1>16. CASE Cleanup
  BY <1>16 DEF Cleanup
<1>17. CASE Notifier
  BY <1>17 DEF Notifier
<1>18. ASSUME NEW r \in Rounds, StatusCallback(r) PROVE InstRounds'
  BY <1>18 DEF StatusCallback
<1>19. CASE UNCHANGED instVars
  BY <1>19 DEF instVars
<1> QED
  BY <1>1, <1>2, <1>3, <1>4, <1>5, <1>6, <1>7, <1>8, <1>9, <1>10, <1>11, <1>12,
     <1>13, <1>14, <1>15, <1>16, <1>17, <1>18, <1>19 DEF InstNext, MainStep

LEMMA FlagsTellStep == InstIInv /\ [InstNext]_instVars => FlagsTell'
<1> SUFFICES ASSUME InstIInv, [InstNext]_instVars PROVE FlagsTell'
  OBVIOUS
<1> USE DEF InstIInv, InstKept, InstTypeOK, InstRounds, FlagsTell, Copied, AheadOfCommand, InArchive, Rounds, MainGoto, instFlags, Modes
<1>1. CASE Connect
  BY <1>1 DEF Connect
<1>2. CASE StartProxy
  BY <1>2 DEF StartProxy
<1>3. CASE ListApps
  BY <1>3 DEF ListApps, ListEnds
<1>4. CASE ListArchives
  BY <1>4 DEF ListArchives, ListEnds
<1>5. CASE PrepareInstall
  BY <1>5 DEF PrepareInstall, OpenAfc
<1>6. CASE Upload
  BY <1>6 DEF Upload
<1>7. CASE Install
  BY <1>7 DEF Install, Command
<1>8. CASE UninstallOrRestore
  BY <1>8 DEF UninstallOrRestore, Command
<1>9. CASE ArchiveOptions
  BY <1>9 DEF ArchiveOptions, OpenAfc
<1>10. CASE Archive
  BY <1>10 DEF Archive, Command
<1>11. CASE LeaveLockdown
  BY <1>11 DEF LeaveLockdown
<1>12. CASE Waits
  BY <1>12 DEF Waits, AwaitsOperation, AwaitsNotification
<1>13. CASE CopyStarts
  BY <1>13 DEF CopyStarts
<1>14. CASE CopyChunk
  BY <1>14 DEF CopyChunk
<1>15. CASE CopyEnds
  BY <1>15 DEF CopyEnds
<1>16. CASE Cleanup
  BY <1>16 DEF Cleanup
<1>17. CASE Notifier
  BY <1>17 DEF Notifier
<1>18. ASSUME NEW r \in Rounds, StatusCallback(r) PROVE FlagsTell'
  BY <1>18 DEF StatusCallback
<1>19. CASE UNCHANGED instVars
  BY <1>19 DEF instVars
<1> QED
  BY <1>1, <1>2, <1>3, <1>4, <1>5, <1>6, <1>7, <1>8, <1>9, <1>10, <1>11, <1>12,
     <1>13, <1>14, <1>15, <1>16, <1>17, <1>18, <1>19 DEF InstNext, MainStep

LEMMA InstWaitedStep == InstIInv /\ [InstNext]_instVars => InstWaited'
<1> SUFFICES ASSUME InstIInv, [InstNext]_instVars PROVE InstWaited'
  OBVIOUS
<1> USE DEF InstIInv, InstKept, InstTypeOK, InstRounds, FlagsTell, InstWaited, Copied, AheadOfCommand, InArchive, Rounds, MainGoto, instFlags, Modes
<1>1. WaitTicks \in Nat
  BY TicksAreNaturals
<1>2. CASE Connect
  BY <1>2 DEF Connect
<1>3. CASE StartProxy
  BY <1>3 DEF StartProxy
<1>4. CASE ListApps
  BY <1>4 DEF ListApps, ListEnds
<1>5. CASE ListArchives
  BY <1>5 DEF ListArchives, ListEnds
<1>6. CASE PrepareInstall
  BY <1>6 DEF PrepareInstall, OpenAfc
<1>7. CASE Upload
  BY <1>7 DEF Upload
<1>8. CASE Install
  BY <1>8 DEF Install, Command
<1>9. CASE UninstallOrRestore
  BY <1>9 DEF UninstallOrRestore, Command
<1>10. CASE ArchiveOptions
  BY <1>10 DEF ArchiveOptions, OpenAfc
<1>11. CASE Archive
  BY <1>11 DEF Archive, Command
<1>12. CASE LeaveLockdown
  BY <1>12 DEF LeaveLockdown
<1>13. CASE Waits
  <2>1. /\ mainPc \in {"wait", "archive_wait"} /\ UNCHANGED <<round, operation, notified>>
        /\ mainPc' = mainPc \/ (~AwaitsOperation /\ ticks' = ticks)
    BY <1>13, Zenon DEF Waits
  <2>2. SUFFICES ASSUME mainPc' # mainPc, round = 1, operation[1] = "running"
                 PROVE  notified \/ ticks >= WaitTicks
    BY <2>1
  <2>3. waitForOp /\ ~opCompleted /\ ~errOccured
    BY <2>2
  <2>4. notified \/ ~(ticks < WaitTicks)
    BY <2>1, <2>2, <2>3, Zenon DEF AwaitsOperation
  <2> QED
    BY <1>1, <2>4
<1>14. CASE CopyStarts
  BY <1>14 DEF CopyStarts
<1>15. CASE CopyChunk
  BY <1>15 DEF CopyChunk
<1>16. CASE CopyEnds
  BY <1>16 DEF CopyEnds
<1>17. CASE Cleanup
  BY <1>17 DEF Cleanup
<1>18. CASE Notifier
  BY <1>18 DEF Notifier
<1>19. ASSUME NEW r \in Rounds, StatusCallback(r) PROVE InstWaited'
  BY <1>19 DEF StatusCallback
<1>20. CASE UNCHANGED instVars
  BY <1>20 DEF instVars
<1> QED
  BY <1>2, <1>3, <1>4, <1>5, <1>6, <1>7, <1>8, <1>9, <1>10, <1>11, <1>12, <1>13,
     <1>14, <1>15, <1>16, <1>17, <1>18, <1>19, <1>20 DEF InstNext, MainStep

\* The invariant of every behaviour of the tool.
THEOREM InstInvariant == InstSpec => []InstIInv
<1>1. InstIInv /\ [InstNext]_instVars => InstIInv'
  BY InstKeptStep, InstRoundsStep, FlagsTellStep, InstWaitedStep DEF InstIInv
<1> QED
  BY InstInitial, <1>1, PTL DEF InstSpec

\* ideviceinstaller removes an archive from the device only after a copy as long
\* as the device had stated, and main never uses a pointer that it has freed on
\* the way through run_again.
THEOREM RemovesWhatItCopied == InstSpec => []RemovalAfterCopy
<1>1. InstIInv => RemovalAfterCopy
  BY DEF InstIInv, InstKept, InstRounds, Copied, RemovalAfterCopy
<1> QED
  BY InstInvariant, <1>1, PTL

\* In its first round the tool does not disconnect under a running operation
\* unless it was notified or has waited for all its half seconds
\* (do_wait_when_needed).
THEOREM FirstRoundWaits == InstSpec => []WaitsForFirstRound
<1>1. InstIInv => WaitsForFirstRound
  BY DEF InstIInv, InstWaited, WaitsForFirstRound
<1> QED
  BY InstInvariant, <1>1, PTL

-----------------------------------------------------------------------------
(* MobileSync: the two directions of a session.                            *)

SyncRequests == {"start", "get", "acknowledge", "last_changes", "changes", "clear", "finish",
                 "cancel", "ping"}
\* Requests that neither begin nor end a session.
Quiet == SyncRequests \ {"start", "finish", "cancel"}

SyncShape ==
  /\ SyncTypeOK /\ cancelled \in BOOLEAN /\ lost \in BOOLEAN /\ readied \in BOOLEAN
  /\ syncCalls \in Nat /\ syncCalls <= MaxSyncCalls /\ sessions <= syncCalls
  /\ requests \in Seq(SyncRequests) /\ answers \in Seq(SyncMessages)

\* A session is over for the client that has asked for its end or given it up.
SyncEnded == syncPc = "finish" \/ (dataClass = FALSE /\ syncPc # "start")

\* The data class and the direction when a call waits.
SyncWaiting ==
  /\ dataClass = FALSE => direction = "from_device"
  /\ syncPc = "start" => dataClass = FALSE /\ sessions # 0
  /\ syncPc \in {"finish", "clear", "changes", "ready", "remap"} => dataClass = TRUE
  /\ syncPc = "ready" => direction = "from_device"
  /\ sessions = 0 => /\ dataClass = FALSE /\ syncDevice = "idle"
                     /\ requests = <<>> /\ answers = <<>>

\* In the first session its start is the first request, an end that is on its way
\* was asked for, and a device that has said it is ready is, or has cancelled
\* after that.
StartComesFirst ==
  \A i \in 1 .. Len(requests) : requests[i] = "start" =>
    /\ i = 1 /\ syncDevice = "idle" /\ direction = "from_device"
    /\ \A j \in 1 .. Len(answers) : answers[j] # "ready"
EndsAreMeant ==
  \A i \in 1 .. Len(requests) : requests[i] \in {"finish", "cancel"} => SyncEnded
CancelsAfter(i) == \E j \in i + 1 .. Len(answers) : answers[j] = "cancel"
ReadyIsMeant ==
  \A i \in 1 .. Len(answers) : answers[i] = "ready" =>
    syncDevice = "receiving" \/ CancelsAfter(i) \/ SyncEnded
FirstSession == sessions = 1 => StartComesFirst /\ EndsAreMeant /\ ReadyIsMeant

\* A device that has said it is ready has become so.
ReadySaid ==
  /\ \A i \in 1 .. Len(answers) : answers[i] = "ready" => readied
  /\ direction = "to_device" => readied

SyncIInv == SyncShape /\ SyncWaiting /\ FirstSession /\ ReadySaid /\ DirectionFollowsDevice

LEMMA SyncInitial == SyncInit => SyncIInv
<1> SUFFICES ASSUME SyncInit PROVE SyncIInv
  OBVIOUS
<1>1. 0 \in 0 .. MaxSyncCalls /\ 0 <= MaxSyncCalls
  BY SyncCallsAreCounted
<1>2. SyncShape
  <2>1. requests \in Seq(SyncRequests) /\ answers \in Seq(SyncMessages)
    BY DEF SyncInit
  <2>2. SyncTypeOK
    BY <1>1 DEF SyncInit, SyncTypeOK
  <2>3. syncCalls \in Nat /\ syncCalls <= MaxSyncCalls /\ sessions <= syncCalls
    BY <1>1 DEF SyncInit
  <2>4. cancelled \in BOOLEAN /\ lost \in BOOLEAN /\ readied \in BOOLEAN
    BY DEF SyncInit
  <2> QED
    BY <2>1, <2>2, <2>3, <2>4 DEF SyncShape
<1> QED
  BY <1>2 DEF SyncInit, SyncIInv, SyncWaiting, FirstSession, ReadySaid, DirectionFollowsDevice

\* A call that begins without an effect on the session.
QuietCall ==
  \/ ClearAllRecords \/ GetRecords \/ AcknowledgeChanges \/ SendChanges
  \/ ReceiveChanges \/ ReadyToSendChanges \/ RemapIdentifiers
LEMMA QuietCalls ==
  ASSUME SyncShape, QuietCall
  PROVE  /\ syncPc = "idle" /\ dataClass /\ syncCalls < MaxSyncCalls /\ syncCalls' = syncCalls + 1
         /\ syncPc' \in {"idle", "clear", "changes", "ready", "remap"}
         /\ syncPc' = "ready" => direction = "from_device"
         /\ UNCHANGED <<dataClass, direction, sessions, cancelled, answers, syncDevice, lost, readied>>
         /\ requests' = requests \/ \E m \in Quiet : requests' = Append(requests, m)
<1> USE DEF SyncCall, Send, Quiet, SyncRequests, MaySendChanges
<1>1. CASE ClearAllRecords
  BY <1>1, Zenon DEF ClearAllRecords
<1>2. CASE GetRecords
  BY <1>2, Zenon DEF GetRecords
<1>3. CASE AcknowledgeChanges
  BY <1>3, Zenon DEF AcknowledgeChanges
<1>4. CASE SendChanges
  BY <1>4, Zenon DEF SendChanges
<1>5. CASE ReceiveChanges
  BY <1>5, Zenon DEF ReceiveChanges
<1>6. CASE ReadyToSendChanges
  BY <1>6, Zenon DEF ReadyToSendChanges
<1>7. CASE RemapIdentifiers
  BY <1>7, Zenon DEF RemapIdentifiers
<1> QED
  BY <1>1, <1>2, <1>3, <1>4, <1>5, <1>6, <1>7 DEF QuietCall

\* What the device makes of a request.
LEMMA HandledRequest ==
  ASSUME SyncDeviceHandles
  PROVE  /\ requests # <<>> /\ requests' = Tail(requests)
         /\ UNCHANGED <<syncPc, dataClass, direction, sessions, cancelled, syncCalls, lost>>
         /\ readied' = (readied \/ syncDevice' = "receiving")
         /\ \/ /\ Head(requests) = "start" /\ syncDevice' \in {"sending", "idle"}
               /\ \E m \in {"sync", "refuse", "cancel"} : answers' = Append(answers, m)
            \/ /\ Head(requests) \in {"finish", "cancel"} /\ syncDevice' = "idle"
               /\ answers' = answers \/ answers' = Append(answers, "finished")
            \/ /\ syncDevice' = "receiving" /\ syncDevice = "sending"
               /\ answers' = Append(answers, "ready")
            \/ /\ syncDevice' = syncDevice
               /\ \/ answers' = answers
                  \/ \E m \in {"changes", "remap", "will_clear"} : answers' = Append(answers, m)
<1> USE DEF SyncReply
<1>1. /\ requests # <<>> /\ requests' = Tail(requests)
      /\ UNCHANGED <<syncPc, dataClass, direction, sessions, cancelled, syncCalls, lost>>
      /\ readied' = (readied \/ syncDevice' = "receiving")
  BY DEF SyncDeviceHandles
<1>2. CASE Head(requests) = "start"
  BY <1>1, <1>2 DEF SyncDeviceHandles
<1>3. CASE Head(requests) = "get" /\ syncDevice = "sending"
  BY <1>1, <1>3 DEF SyncDeviceHandles
<1>4. CASE Head(requests) = "acknowledge" /\ syncDevice = "sending"
  BY <1>1, <1>4 DEF SyncDeviceHandles
<1>5. CASE Head(requests) = "last_changes" /\ syncDevice = "receiving"
  BY <1>1, <1>5 DEF SyncDeviceHandles
<1>6. CASE Head(requests) = "clear" /\ syncDevice # "idle"
  BY <1>1, <1>6 DEF SyncDeviceHandles
<1>7. CASE Head(requests) = "finish"
  BY <1>1, <1>7 DEF SyncDeviceHandles
<1>8. CASE Head(requests) = "cancel"
  BY <1>1, <1>8 DEF SyncDeviceHandles
<1> QED
  BY <1>1, <1>2, <1>3, <1>4, <1>5, <1>6, <1>7, <1>8 DEF SyncDeviceHandles

LEMMA SyncShapeStep == SyncIInv /\ [SyncNext]_syncVars => SyncShape'
<1> SUFFICES ASSUME SyncIInv, [SyncNext]_syncVars PROVE SyncShape'
  OBVIOUS
<1> USE DEF SyncIInv, SyncShape, SyncTypeOK
<1>1. MaxSyncCalls \in Nat
  BY SyncCallsAreCounted
<1>2. CASE SyncClientNew
  BY <1>2 DEF SyncClientNew
<1>3. CASE SyncClientFree
  BY <1>3 DEF SyncClientFree
<1>4. CASE Start
  <2>1. requests' = requests \/ requests' = Append(requests, "start")
    BY <1>4 DEF Start, Send
  <2>2. requests' \in Seq(SyncRequests)
    BY <2>1, IntoQueue DEF SyncRequests
  <2>3. /\ syncCalls < MaxSyncCalls /\ syncCalls' = syncCalls + 1
        /\ sessions' \in {sessions, sessions + 1}
    BY <1>4 DEF Start, SyncCall
  <2>4. /\ sessions' \in 0 .. MaxSyncCalls /\ syncCalls' \in Nat /\ syncCalls' <= MaxSyncCalls
        /\ sessions' <= syncCalls'
    BY <1>1, <2>3
  <2> QED
    BY <1>4, <2>2, <2>4 DEF Start, SyncCall
<1>5. CASE FinishSession
  <2>1. requests' = requests \/ requests' = Append(requests, "finish")
    BY <1>5 DEF FinishSession, Send
  <2>2. requests' \in Seq(SyncRequests)
    BY <2>1, IntoQueue DEF SyncRequests
  <2>3. /\ syncCalls < MaxSyncCalls /\ syncCalls' = syncCalls + 1
        /\ sessions' \in {sessions, sessions + 1}
    BY <1>5 DEF FinishSession, SyncCall
  <2>4. /\ sessions' \in 0 .. MaxSyncCalls /\ syncCalls' \in Nat /\ syncCalls' <= MaxSyncCalls
        /\ sessions' <= syncCalls'
    BY <1>1, <2>3
  <2> QED
    BY <1>5, <2>2, <2>4 DEF FinishSession, SyncCall, EndSession
<1>6. CASE CancelSession
  <2>1. requests' = requests \/ requests' = Append(requests, "cancel")
    BY <1>6 DEF CancelSession, Send
  <2>2. requests' \in Seq(SyncRequests)
    BY <2>1, IntoQueue DEF SyncRequests
  <2>3. /\ syncCalls < MaxSyncCalls /\ syncCalls' = syncCalls + 1
        /\ sessions' \in {sessions, sessions + 1}
    BY <1>6 DEF CancelSession, SyncCall
  <2>4. /\ sessions' \in 0 .. MaxSyncCalls /\ syncCalls' \in Nat /\ syncCalls' <= MaxSyncCalls
        /\ sessions' <= syncCalls'
    BY <1>1, <2>3
  <2> QED
    BY <1>6, <2>2, <2>4 DEF CancelSession, SyncCall, EndSession
<1>7. CASE QuietCall
  <2>1. requests' \in Seq(SyncRequests)
    BY <1>7, QuietCalls, IntoQueue DEF Quiet
  <2> QED
    BY <1>1, <1>7, <2>1, QuietCalls
<1>8. CASE Started
  <2>1. answers' = answers \/ (answers # <<>> /\ answers' = Tail(answers))
    BY <1>8 DEF Started, SyncReceives
  <2>2. answers' \in Seq(SyncMessages)
    BY <2>1, OutOfQueue
  <2>3. lost' \in BOOLEAN
    BY <1>8 DEF Started, SyncReceives
  <2> QED
    BY <1>1, <1>8, <2>2, <2>3 DEF Started
<1>9. CASE Finished
  <2>1. answers' = answers \/ (answers # <<>> /\ answers' = Tail(answers))
    BY <1>9 DEF Finished, SyncReceives
  <2>2. answers' \in Seq(SyncMessages)
    BY <2>1, OutOfQueue
  <2>3. lost' \in BOOLEAN
    BY <1>9 DEF Finished, SyncReceives
  <2> QED
    BY <1>1, <1>9, <2>2, <2>3 DEF Finished, EndSession
<1>10. CASE Answered
  <2>1. answers' = answers \/ (answers # <<>> /\ answers' = Tail(answers))
    BY <1>10 DEF Answered, SyncReceives
  <2>2. answers' \in Seq(SyncMessages)
    BY <2>1, OutOfQueue
  <2>3. lost' \in BOOLEAN
    BY <1>10 DEF Answered, SyncReceives
  <2> QED
    BY <1>1, <1>10, <2>2, <2>3 DEF Answered
<1>11. CASE BecomesReady
  <2>1. requests' = requests \/ requests' = Append(requests, "ping")
    BY <1>11 DEF BecomesReady, Send
  <2>2. requests' \in Seq(SyncRequests)
    BY <2>1, IntoQueue DEF SyncRequests
  <2>3. answers' = answers \/ (answers # <<>> /\ answers' = Tail(answers))
    BY <1>11 DEF BecomesReady, SyncReceives
  <2>4. answers' \in Seq(SyncMessages)
    BY <2>3, OutOfQueue
  <2>5. lost' \in BOOLEAN
    BY <1>11 DEF BecomesReady, SyncReceives
  <2> QED
    BY <1>1, <1>11, <2>2, <2>4, <2>5 DEF BecomesReady
<1>12. CASE SyncDeviceHandles
  <2>1. requests' \in Seq(SyncRequests)
    BY <1>12, HandledRequest, OutOfQueue
  <2>2. answers' \in Seq(SyncMessages)
    <3>1. answers' = answers \/ \E m \in SyncMessages : answers' = Append(answers, m)
      BY <1>12, HandledRequest DEF SyncMessages
    <3> QED
      BY <3>1, IntoQueue
  <2> QED
    BY <1>1, <1>12, <2>1, <2>2, HandledRequest
<1>13. CASE SyncDeviceCancels
  <2>1. answers' \in Seq(SyncMessages)
    BY <1>13, IntoQueue DEF SyncDeviceCancels, SyncReply, SyncMessages
  <2> QED
    BY <1>1, <1>13, <2>1 DEF SyncDeviceCancels
<1>14. CASE UNCHANGED syncVars
  BY <1>14 DEF syncVars
<1> QED
  BY <1>2, <1>3, <1>4, <1>5, <1>6, <1>7, <1>8, <1>9, <1>10, <1>11, <1>12, <1>13,
     <1>14 DEF SyncNext, QuietCall

LEMMA SyncWaitingStep == SyncIInv /\ [SyncNext]_syncVars => SyncWaiting'
<1> SUFFICES ASSUME SyncIInv, [SyncNext]_syncVars PROVE SyncWaiting'
  OBVIOUS
<1> USE DEF SyncIInv, SyncShape, SyncTypeOK, SyncWaiting
<1>1. CASE SyncClientNew
  BY <1>1 DEF SyncClientNew
<1>2. CASE SyncClientFree
  BY <1>2 DEF SyncClientFree
<1>3. CASE Start
  BY <1>3 DEF Start, SyncCall
<1>4. CASE FinishSession
  BY <1>4 DEF FinishSession, SyncCall, Send, EndSession
<1>5. CASE CancelSession
  BY <1>5 DEF CancelSession, SyncCall, Send, EndSession
<1>6. CASE QuietCall
  BY QuietCalls, <1>6 DEF QuietCall
<1>7. CASE Started
  BY <1>7 DEF Started
<1>8. CASE Finished
  BY <1>8 DEF Finished, EndSession
<1>9. CASE Answered
  BY <1>9 DEF Answered
<1>10. CASE BecomesReady
  BY <1>10 DEF BecomesReady
<1>11. CASE SyncDeviceHandles
  <2>1. sessions # 0
    BY <1>11, HandledRequest
  <2> QED
    BY <1>11, <2>1, HandledRequest
<1>12. CASE SyncDeviceCancels
  BY <1>12 DEF SyncDeviceCancels, SyncReply
<1>13. CASE UNCHANGED syncVars
  BY <1>13 DEF syncVars
<1> QED
  BY <1>1, <1>2, <1>3, <1>4, <1>5, <1>6, <1>7, <1>8, <1>9, <1>10, <1>11, <1>12,
     <1>13 DEF SyncNext, QuietCall

\* The first session goes on.
LEMMA FirstSessionKept ==
  ASSUME SyncShape, FirstSession, sessions' = sessions, syncDevice' = syncDevice,
         direction' = direction \/ (direction' = "to_device" /\ answers # <<>> /\ Head(answers) = "ready"),
         requests' = requests \/ \E m \in Quiet : requests' = Append(requests, m),
         answers' = answers \/ (answers # <<>> /\ answers' = Tail(answers)),
         SyncEnded => SyncEnded'
  PROVE  FirstSession'
<1> SUFFICES ASSUME sessions = 1 PROVE StartComesFirst' /\ EndsAreMeant' /\ ReadyIsMeant'
  BY DEF FirstSession
<1> USE DEF FirstSession, SyncShape, SyncTypeOK
<1>1. /\ Len(requests) \in Nat /\ Len(requests') \in Nat
      /\ \A i \in 1 .. Len(requests') :
           \/ i \in 1 .. Len(requests) /\ requests'[i] = requests[i]
           \/ requests'[i] \notin {"start", "finish", "cancel"}
  BY IntoQueue DEF Quiet, SyncRequests
<1>2. \/ Len(answers) \in Nat /\ answers' = answers
      \/ /\ Len(answers) \in Nat /\ Len(answers') = Len(answers) - 1
         /\ \A i \in 1 .. Len(answers') : answers'[i] = answers[i + 1]
  BY OutOfQueue
<1>3. StartComesFirst'
  <2> SUFFICES ASSUME NEW i \in 1 .. Len(requests'), requests'[i] = "start"
               PROVE  /\ i = 1 /\ syncDevice' = "idle" /\ direction' = "from_device"
                      /\ \A j \in 1 .. Len(answers') : answers'[j] # "ready"
    BY DEF StartComesFirst
  <2>1. /\ i = 1 /\ syncDevice = "idle" /\ direction = "from_device"
        /\ \A j \in 1 .. Len(answers) : answers[j] # "ready"
    BY <1>1 DEF StartComesFirst
  <2>2. \A j \in 1 .. Len(answers') : answers'[j] # "ready"
    <3>1. CASE answers' = answers
      BY <2>1, <3>1
    <3>2. CASE answers' # answers
      <4>1. /\ Len(answers) \in Nat /\ Len(answers') = Len(answers) - 1
            /\ \A j \in 1 .. Len(answers') : answers'[j] = answers[j + 1]
        BY <1>2, <3>2
      <4>2. \A j \in 1 .. Len(answers') : j + 1 \in 1 .. Len(answers)
        BY <4>1
      <4> QED
        BY <2>1, <4>1, <4>2
    <3> QED
      BY <3>1, <3>2
  <2>3. direction' = direction
    BY <2>1, OutOfQueue
  <2> QED
    BY <2>1, <2>2, <2>3
<1>4. EndsAreMeant'
  BY <1>1 DEF EndsAreMeant
<1>5. ReadyIsMeant'
  <2> SUFFICES ASSUME NEW i \in 1 .. Len(answers'), answers'[i] = "ready"
               PROVE  syncDevice' = "receiving" \/ CancelsAfter(i)' \/ SyncEnded'
    BY DEF ReadyIsMeant
  <2>1. CASE answers' = answers
    BY <2>1 DEF ReadyIsMeant, CancelsAfter
  <2>2. CASE answers' # answers
    <3>1. i + 1 \in 1 .. Len(answers) /\ answers[i + 1] = "ready"
      BY <1>2, <2>2
    <3>2. ASSUME CancelsAfter(i + 1) PROVE CancelsAfter(i)'
      <4>1. PICK j \in i + 1 + 1 .. Len(answers) : answers[j] = "cancel"
        BY <3>2 DEF CancelsAfter
      <4>2. j - 1 \in i + 1 .. Len(answers') /\ (j - 1) + 1 = j
        BY <1>2, <2>2, <4>1
      <4>3. answers'[j - 1] = answers[j]
        BY <1>2, <2>2, <4>2
      <4> QED
        BY <4>1, <4>2, <4>3 DEF CancelsAfter
    <3> QED
      BY <3>1, <3>2 DEF ReadyIsMeant
  <2> QED
    BY <2>1, <2>2
<1> QED
  BY <1>3, <1>4, <1>5

LEMMA FirstSessionStep == SyncIInv /\ [SyncNext]_syncVars => FirstSession'
<1> SUFFICES ASSUME SyncIInv, [SyncNext]_syncVars PROVE FirstSession'
  OBVIOUS
<1> USE DEF SyncIInv
<1>1. CASE SyncClientNew
  <2>1. SyncEnded => SyncEnded'
    BY <1>1 DEF SyncClientNew, SyncEnded
  <2> QED
    BY <1>1, <2>1, FirstSessionKept DEF SyncClientNew
<1>2. CASE SyncClientFree
  <2>1. Len(requests') = 0 /\ Len(answers') = 0
    BY <1>2 DEF SyncClientFree
  <2> QED
    BY <2>1 DEF FirstSession, StartComesFirst, EndsAreMeant, ReadyIsMeant
<1>3. CASE Start
  <2> SUFFICES ASSUME sessions' = 1 PROVE StartComesFirst' /\ EndsAreMeant' /\ ReadyIsMeant'
    BY DEF FirstSession
  <2>1. sessions' = sessions + 1 /\ sessions \in Nat /\ answers' = answers /\ syncDevice' = syncDevice
    BY <1>3, SyncCallsAreCounted DEF Start, SyncShape, SyncTypeOK
  <2>2. requests = <<>> /\ answers = <<>> /\ syncDevice = "idle" /\ direction = "from_device"
    BY <2>1 DEF SyncWaiting
  <2>3. direction' = "from_device" /\ (requests' = requests \/ requests' = Append(requests, "start"))
    BY <1>3, <2>2 DEF Start, Send
  <2>4. \A i \in 1 .. Len(requests') : i = 1 /\ requests'[i] = "start"
    <3>1. CASE requests' = requests
      BY <2>2, <3>1
    <3>2. CASE requests' = Append(requests, "start")
      <4>1. Len(requests') = 1 /\ requests'[1] = "start"
        BY <2>2, <3>2
      <4> QED
        BY <4>1
    <3> QED
      BY <2>3, <3>1, <3>2
  <2>5. Len(answers') = 0
    BY <2>1, <2>2
  <2> QED
    BY <2>1, <2>2, <2>3, <2>4, <2>5 DEF StartComesFirst, EndsAreMeant, ReadyIsMeant
<1>4. CASE FinishSession
  <2> SUFFICES ASSUME sessions = 1 PROVE StartComesFirst' /\ EndsAreMeant' /\ ReadyIsMeant'
    BY <1>4 DEF FirstSession, FinishSession
  <2>1. /\ SyncEnded' /\ direction' \in {direction, "from_device"}
        /\ UNCHANGED <<answers, syncDevice>>
    BY <1>4 DEF FinishSession, SyncCall, EndSession, SyncEnded
  <2>2. requests' = requests \/ requests' = Append(requests, "finish")
    BY <1>4 DEF FinishSession, Send
  <2>3. Len(requests) \in Nat /\ \A i \in 1 .. Len(requests') :
           requests'[i] = "start" => i \in 1 .. Len(requests) /\ requests[i] = "start"
    BY <2>2, IntoQueue DEF SyncShape, SyncRequests
  <2>4. StartComesFirst'
    BY <2>1, <2>3 DEF FirstSession, StartComesFirst
  <2> QED
    BY <2>1, <2>4 DEF EndsAreMeant, ReadyIsMeant
<1>5. CASE CancelSession
  <2> SUFFICES ASSUME sessions = 1 PROVE StartComesFirst' /\ EndsAreMeant' /\ ReadyIsMeant'
    BY <1>5 DEF FirstSession, CancelSession
  <2>1. /\ SyncEnded' /\ direction' \in {direction, "from_device"}
        /\ UNCHANGED <<answers, syncDevice>>
    BY <1>5 DEF CancelSession, SyncCall, EndSession, SyncEnded
  <2>2. requests' = requests \/ requests' = Append(requests, "cancel")
    BY <1>5 DEF CancelSession, Send
  <2>3. Len(requests) \in Nat /\ \A i \in 1 .. Len(requests') :
           requests'[i] = "start" => i \in 1 .. Len(requests) /\ requests[i] = "start"
    BY <2>2, IntoQueue DEF SyncShape, SyncRequests
  <2>4. StartComesFirst'
    BY <2>1, <2>3 DEF FirstSession, StartComesFirst
  <2> QED
    BY <2>1, <2>4 DEF EndsAreMeant, ReadyIsMeant
<1>6. CASE QuietCall
  <2>1. SyncEnded => SyncEnded'
    BY <1>6, QuietCalls DEF SyncEnded, SyncShape, SyncTypeOK
  <2> QED
    BY <1>6, <2>1, QuietCalls, FirstSessionKept
<1>7. CASE Started
  <2>1. SyncEnded = FALSE
    BY <1>7 DEF Started, SyncEnded, SyncWaiting
  <2>2. direction' = direction
    BY <1>7 DEF Started, SyncWaiting
  <2> QED
    BY <1>7, <2>1, <2>2, FirstSessionKept DEF Started, SyncReceives
<1>8. CASE Finished
  <2> SUFFICES ASSUME sessions = 1 PROVE StartComesFirst' /\ EndsAreMeant' /\ ReadyIsMeant'
    BY <1>8 DEF FirstSession, Finished
  <2>1. SyncEnded' /\ direction' = "from_device" /\ UNCHANGED <<requests, syncDevice, sessions>>
    BY <1>8 DEF Finished, EndSession, SyncEnded
  <2>2. answers' = answers \/ (answers # <<>> /\ answers' = Tail(answers))
    BY <1>8 DEF Finished, SyncReceives
  <2>3. \A i \in 1 .. Len(answers') : \E j \in 1 .. Len(answers) : answers'[i] = answers[j]
    <3>1. CASE answers' = answers
      BY <3>1
    <3>2. CASE answers # <<>> /\ answers' = Tail(answers)
      BY <3>2, OutOfQueue DEF SyncShape
    <3> QED
      BY <2>2, <3>1, <3>2
  <2>4. StartComesFirst'
    BY <2>1, <2>3 DEF FirstSession, StartComesFirst
  <2> QED
    BY <2>1, <2>4 DEF EndsAreMeant, ReadyIsMeant
<1>9. CASE Answered
  <2>1. SyncEnded = FALSE
    BY <1>9 DEF Answered, SyncEnded, SyncWaiting
  <2> QED
    BY <1>9, <2>1, FirstSessionKept DEF Answered, SyncReceives
<1>10. CASE BecomesReady
  <2>1. SyncEnded = FALSE
    BY <1>10 DEF BecomesReady, SyncEnded, SyncWaiting
  <2>2. PICK m \in SyncMessages :
          /\ SyncReceives(m)
          /\ \/ m = "ready" /\ direction' = "to_device" /\ Send("ping")
             \/ UNCHANGED <<direction, requests>>
    BY <1>10 DEF BecomesReady
  <2>3. answers' = answers \/ (answers # <<>> /\ answers' = Tail(answers))
    BY <2>2 DEF SyncReceives
  <2>4. direction' = direction \/ (direction' = "to_device" /\ answers # <<>> /\ Head(answers) = "ready")
    BY <2>2 DEF SyncReceives
  <2>5. requests' = requests \/ \E n \in Quiet : requests' = Append(requests, n)
    BY <2>2 DEF Send, Quiet, SyncRequests
  <2>6. UNCHANGED <<sessions, syncDevice>>
    BY <1>10 DEF BecomesReady
  <2> QED
    BY <2>1, <2>3, <2>4, <2>5, <2>6, FirstSessionKept
<1>11. CASE SyncDeviceHandles
  <2> SUFFICES ASSUME sessions = 1 PROVE StartComesFirst' /\ EndsAreMeant' /\ ReadyIsMeant'
    BY <1>11, HandledRequest DEF FirstSession
  <2>1. /\ requests # <<>> /\ requests' = Tail(requests) /\ requests \in Seq(SyncRequests)
        /\ UNCHANGED <<syncPc, dataClass, direction>>
    BY <1>11, HandledRequest DEF SyncShape
  <2>2. /\ Len(requests) \in Nat \ {0} /\ Len(requests') = Len(requests) - 1
        /\ Head(requests) = requests[1]
        /\ \A i \in 1 .. Len(requests') : requests'[i] = requests[i + 1] /\ requests'[i] # "start"
    <3>1. \A i \in 1 .. Len(requests') : requests'[i] = requests[i + 1]
      BY <2>1, OutOfQueue
    <3>2. Len(requests) \in Nat \ {0} /\ Len(requests') = Len(requests) - 1 /\ Head(requests) = requests[1]
      BY <2>1, OutOfQueue
    <3>3. \A i \in 1 .. Len(requests') : requests[i + 1] # "start"
      BY <3>2 DEF FirstSession, StartComesFirst
    <3> QED
      BY <3>1, <3>2, <3>3
  <2>3. StartComesFirst'
    BY <2>2 DEF StartComesFirst
  <2>4. SyncEnded' = SyncEnded
    BY <2>1 DEF SyncEnded
  <2>5. EndsAreMeant'
    <3> SUFFICES ASSUME NEW i \in 1 .. Len(requests'), requests'[i] \in {"finish", "cancel"} PROVE SyncEnded
      BY <2>4 DEF EndsAreMeant
    <3>1. i + 1 \in 1 .. Len(requests) /\ requests[i + 1] = requests'[i]
      BY <2>2
    <3> QED
      BY <3>1 DEF FirstSession, EndsAreMeant
  <2>6. answers \in Seq(SyncMessages)
    BY DEF SyncShape
  <2>7. ReadyIsMeant'
    <3>1. CASE Head(requests) = "start" /\ \E m \in {"sync", "refuse", "cancel"} : answers' = Append(answers, m)
      <4>1. \A i \in 1 .. Len(answers) : answers[i] # "ready"
        BY <2>2, <3>1 DEF FirstSession, StartComesFirst
      <4>2. \A i \in 1 .. Len(answers') : answers'[i] # "ready"
        BY <2>6, <3>1, <4>1, IntoQueue DEF SyncMessages
      <4> QED
        BY <4>2 DEF ReadyIsMeant
    <3>2. CASE Head(requests) \in {"finish", "cancel"}
      <4>1. SyncEnded
        BY <2>2, <3>2 DEF FirstSession, EndsAreMeant
      <4> QED
        BY <2>4, <4>1 DEF ReadyIsMeant
    <3>3. CASE syncDevice' = "receiving"
      BY <3>3 DEF ReadyIsMeant
    <3>4. CASE /\ syncDevice' = syncDevice
               /\ \/ answers' = answers
                  \/ \E m \in {"changes", "remap", "will_clear"} : answers' = Append(answers, m)
      <4>1. /\ Len(answers) \in Nat /\ Len(answers') \in Nat /\ Len(answers) <= Len(answers')
            /\ \A i \in 1 .. Len(answers) : answers'[i] = answers[i]
            /\ \A i \in 1 .. Len(answers') : answers'[i] = "ready" => i \in 1 .. Len(answers)
        BY <2>6, <3>4, IntoQueue DEF SyncMessages
      <4> SUFFICES ASSUME NEW i \in 1 .. Len(answers'), answers'[i] = "ready"
                   PROVE  syncDevice' = "receiving" \/ CancelsAfter(i)' \/ SyncEnded'
        BY DEF ReadyIsMeant
      <4>2. i \in 1 .. Len(answers) /\ answers[i] = "ready"
        BY <4>1
      <4>3. CancelsAfter(i) => CancelsAfter(i)'
        BY <4>1, <4>2 DEF CancelsAfter
      <4> QED
        BY <2>4, <3>4, <4>2, <4>3 DEF FirstSession, ReadyIsMeant
    <3> QED
      BY <1>11, HandledRequest, <3>1, <3>2, <3>3, <3>4
  <2> QED
    BY <2>3, <2>5, <2>7
<1>12. CASE SyncDeviceCancels
  <2> SUFFICES ASSUME sessions = 1 PROVE StartComesFirst' /\ EndsAreMeant' /\ ReadyIsMeant'
    BY <1>12 DEF FirstSession, SyncDeviceCancels
  <2>1. /\ syncDevice # "idle" /\ answers' = Append(answers, "cancel") /\ requests' = requests
        /\ UNCHANGED <<syncPc, dataClass>> /\ answers \in Seq(SyncMessages)
    BY <1>12 DEF SyncDeviceCancels, SyncReply, SyncShape
  <2>2. StartComesFirst'
    BY <2>1 DEF FirstSession, StartComesFirst
  <2>3. EndsAreMeant'
    BY <2>1 DEF FirstSession, EndsAreMeant, SyncEnded
  <2>4. /\ Len(answers) \in Nat /\ Len(answers') = Len(answers) + 1 /\ answers'[Len(answers')] = "cancel"
    BY <2>1, IntoQueue DEF SyncMessages
  <2>5. \A i \in 1 .. Len(answers') : answers'[i] = "ready" => CancelsAfter(i)'
    BY <2>4 DEF CancelsAfter
  <2> QED
    BY <2>2, <2>3, <2>5 DEF ReadyIsMeant
<1>13. CASE UNCHANGED syncVars
  <2>1. SyncEnded' = SyncEnded
    BY <1>13 DEF syncVars, SyncEnded
  <2> QED
    BY <1>13, <2>1, FirstSessionKept DEF syncVars
<1> QED
  BY <1>1, <1>2, <1>3, <1>4, <1>5, <1>6, <1>7, <1>8, <1>9, <1>10, <1>11, <1>12,
     <1>13 DEF SyncNext, QuietCall

\* Only the device says that it is ready, and only a client that has read it
\* changes the direction.
LEMMA ReadySaidStep == SyncIInv /\ [SyncNext]_syncVars => ReadySaid'
<1> SUFFICES ASSUME SyncIInv, [SyncNext]_syncVars PROVE ReadySaid'
  OBVIOUS
<1> USE DEF SyncIInv
<1>1. /\ answers \in Seq(SyncMessages) /\ Len(answers) \in Nat
      /\ readied \in BOOLEAN /\ (readied => readied')
  <2>1. readied => readied'
    BY QuietCalls, HandledRequest DEF SyncNext, QuietCall, SyncClientNew, SyncClientFree, Start,
       FinishSession, CancelSession, Started, Finished, Answered, BecomesReady, SyncDeviceCancels,
       syncVars
  <2> QED
    BY <2>1 DEF SyncShape
<1>2. ASSUME answers' = answers \/ (answers # <<>> /\ answers' = Tail(answers)) \/ answers' = <<>>,
             direction' \in {direction, "from_device"} \/ (answers # <<>> /\ Head(answers) = "ready")
      PROVE  ReadySaid'
  <2>1. direction' = "to_device" => readied
    BY <1>1, <1>2, OutOfQueue DEF ReadySaid
  <2>2. \A i \in 1 .. Len(answers') : answers'[i] = "ready" => readied
    <3>1. CASE answers' = answers
      BY <3>1 DEF ReadySaid
    <3>2. CASE answers # <<>> /\ answers' = Tail(answers)
      <4>1. \A i \in 1 .. Len(answers') : i + 1 \in 1 .. Len(answers) /\ answers'[i] = answers[i + 1]
        BY <1>1, <3>2, OutOfQueue
      <4> QED
        BY <4>1 DEF ReadySaid
    <3>3. CASE answers' = <<>>
      BY <3>3
    <3> QED
      BY <1>2, <3>1, <3>2, <3>3
  <2> QED
    BY <1>1, <2>1, <2>2 DEF ReadySaid
<1>3. ASSUME NEW m \in SyncMessages, answers' = Append(answers, m), m = "ready" => readied',
             direction' = direction
      PROVE  ReadySaid'
  BY <1>1, <1>3, IntoQueue DEF ReadySaid
<1>4. CASE SyncClientNew \/ SyncClientFree \/ Start \/ FinishSession \/ CancelSession
  BY <1>2, <1>4 DEF SyncClientNew, SyncClientFree, Start, FinishSession, CancelSession, EndSession
<1>5. CASE QuietCall
  BY <1>2, <1>5, QuietCalls
<1>6. CASE Started \/ Finished \/ Answered
  BY <1>2, <1>6 DEF Started, Finished, Answered, SyncReceives, EndSession
<1>7. CASE BecomesReady
  BY <1>2, <1>7 DEF BecomesReady, SyncReceives
<1>8. CASE SyncDeviceHandles
  <2>1. direction' = direction /\ readied' = (readied \/ syncDevice' = "receiving")
    BY <1>8, HandledRequest
  <2>2. answers' = answers \/ \E m \in SyncMessages : answers' = Append(answers, m) /\ (m = "ready" => readied')
    BY <1>8, <2>1, HandledRequest DEF SyncMessages
  <2> QED
    BY <1>2, <1>3, <2>1, <2>2
<1>9. CASE SyncDeviceCancels
  BY <1>3, <1>9 DEF SyncDeviceCancels, SyncReply, SyncMessages
<1>10. CASE UNCHANGED syncVars
  BY <1>2, <1>10 DEF syncVars
<1> QED
  BY <1>4, <1>5, <1>6, <1>7, <1>8, <1>9, <1>10 DEF SyncNext, QuietCall

\* The rest of the property, for an invariant that tells when a device is ready.
Obedient ==
  direction = "to_device" =>
    /\ dataClass
    /\ sessions = 1 /\ ~cancelled /\ ~lost =>
         \/ syncDevice = "receiving"
         \/ \E i \in DOMAIN answers : answers[i] = "cancel"
         \/ syncPc = "finish" \/ syncPc = "freed"

LEMMA SyncDirectionStep == SyncIInv /\ [SyncNext]_syncVars => DirectionFollowsDevice'
<1> SUFFICES ASSUME SyncIInv, [SyncNext]_syncVars PROVE Obedient'
  BY ReadySaidStep DEF Obedient, ReadySaid, DirectionFollowsDevice
<1>14. Obedient
  BY DEF SyncIInv, DirectionFollowsDevice, Obedient
<1> USE <1>14 DEF SyncIInv, Obedient
<1>1. CASE SyncClientNew
  BY <1>1 DEF SyncClientNew
<1>2. CASE SyncClientFree
  BY <1>2 DEF SyncClientFree
<1>3. CASE Start
  <2>1. direction' = "from_device"
    BY <1>3 DEF Start, SyncWaiting
  <2> QED
    BY <2>1
<1>4. CASE FinishSession
  <2>1. (syncPc' = "finish" /\ dataClass' = TRUE) \/ direction' = "from_device"
    BY <1>4 DEF FinishSession, EndSession, SyncShape, SyncTypeOK
  <2> QED
    BY <2>1
<1>5. CASE CancelSession
  BY <1>5 DEF CancelSession, EndSession
<1>6. CASE QuietCall
  BY <1>6, QuietCalls
<1>7. CASE Started
  BY <1>7 DEF Started
<1>8. CASE Finished
  BY <1>8 DEF Finished, EndSession
<1>9. CASE Answered
  <2>1. PICK m \in SyncMessages : SyncReceives(m) /\ cancelled' = (cancelled \/ m = "cancel")
    BY <1>9 DEF Answered
  <2>2. /\ UNCHANGED <<dataClass, direction, sessions, syncDevice>>
        /\ syncPc \in {"clear", "changes", "remap"}
    BY <1>9 DEF Answered
  <2> SUFFICES ASSUME direction = "to_device", sessions = 1, ~cancelled', ~lost'
               PROVE  syncDevice = "receiving" \/ \E i \in DOMAIN answers' : answers'[i] = "cancel"
    BY <2>2, Zenon DEF Obedient, SyncShape
  <2>3. ~cancelled /\ m # "cancel" /\ ~lost
    BY <2>1 DEF SyncShape, SyncReceives
  <2>4. CASE syncDevice = "receiving"
    BY <2>4
  <2>5. CASE syncDevice # "receiving"
    <3>1. PICK i \in DOMAIN answers : answers[i] = "cancel"
      BY <2>2, <2>3, <2>5
    <3>2. CASE answers' = answers
      BY <3>1, <3>2
    <3>3. CASE answers # <<>> /\ m = Head(answers) /\ answers' = Tail(answers)
      <4>1. /\ Head(answers) = answers[1] /\ answers \in Seq(SyncMessages) /\ Len(answers) \in Nat
            /\ answers' \in Seq(SyncMessages) /\ Len(answers') = Len(answers) - 1
            /\ \A k \in 1 .. Len(answers') : answers'[k] = answers[k + 1]
        BY <3>3, OutOfQueue DEF SyncShape
      <4>2. i \in 1 .. Len(answers) /\ i # 1
        BY <2>3, <3>1, <3>3, <4>1
      <4>3. i - 1 \in 1 .. Len(answers') /\ answers'[i - 1] = "cancel"
        BY <3>1, <4>1, <4>2
      <4> QED
        BY <4>1, <4>3
    <3> QED
      BY <2>1, <3>2, <3>3 DEF SyncReceives
  <2> QED
    BY <2>4, <2>5
<1>10. CASE BecomesReady
  <2>1. PICK m \in SyncMessages :
          /\ SyncReceives(m) /\ cancelled' = (cancelled \/ m = "cancel")
          /\ \/ m = "ready" /\ direction' = "to_device" /\ Send("ping")
             \/ UNCHANGED <<direction, requests>>
    BY <1>10 DEF BecomesReady
  <2>2. UNCHANGED <<dataClass, sessions, syncDevice>> /\ syncPc = "ready" /\ dataClass = TRUE
    BY <1>10 DEF BecomesReady, SyncWaiting
  <2> SUFFICES ASSUME direction' = "to_device", sessions = 1, ~cancelled'
               PROVE  syncDevice = "receiving" \/ \E i \in DOMAIN answers' : answers'[i] = "cancel"
    BY <2>2, Zenon DEF Obedient, SyncShape
  <2>3. CASE m = "ready" /\ direction' = "to_device"
    <3>1. answers # <<>> /\ Head(answers) = "ready" /\ answers' = Tail(answers)
      BY <2>1, <2>3 DEF SyncReceives
    <3>2. /\ answers[1] = "ready" /\ Len(answers) \in Nat \ {0} /\ Len(answers') = Len(answers) - 1
          /\ answers' \in Seq(SyncMessages) /\ \A k \in 1 .. Len(answers') : answers'[k] = answers[k + 1]
      BY <3>1, OutOfQueue DEF SyncShape
    <3>3. SyncEnded = FALSE
      BY <2>2 DEF SyncEnded
    <3>4. syncDevice = "receiving" \/ CancelsAfter(1)
      BY <3>2, <3>3 DEF FirstSession, ReadyIsMeant
    <3>5. ASSUME NEW j \in 1 + 1 .. Len(answers), answers[j] = "cancel"
          PROVE  j - 1 \in DOMAIN answers' /\ answers'[j - 1] = "cancel"
      BY <3>2, <3>5
    <3> QED
      BY <3>4, <3>5 DEF CancelsAfter
  <2>4. CASE direction' = direction
    BY <2>2, <2>4 DEF SyncWaiting
  <2> QED
    BY <2>1, <2>3, <2>4
<1>11. CASE SyncDeviceHandles
  <2>1. UNCHANGED <<dataClass, direction, sessions, cancelled, syncPc, lost>>
    BY <1>11, HandledRequest
  <2> SUFFICES ASSUME direction = "to_device", sessions = 1, syncPc # "finish"
               PROVE  /\ syncDevice = "receiving" => syncDevice' = "receiving"
                      /\ \A i \in DOMAIN answers : i \in DOMAIN answers' /\ answers'[i] = answers[i]
    BY <2>1
  <2>2. requests # <<>> /\ Len(requests) \in Nat \ {0} /\ Head(requests) = requests[1]
    BY <1>11, HandledRequest, OutOfQueue DEF SyncShape
  <2>3. Head(requests) # "start"
    BY <2>2 DEF FirstSession, StartComesFirst
  <2>4. Head(requests) \notin {"finish", "cancel"}
    BY <2>2 DEF FirstSession, EndsAreMeant, SyncEnded, SyncWaiting
  <2>5. syncDevice = "receiving" => syncDevice' = "receiving"
    BY <1>11, <2>3, <2>4, HandledRequest
  <2>6. answers \in Seq(SyncMessages) /\ (answers' = answers \/ \E m \in SyncMessages : answers' = Append(answers, m))
    BY <1>11, HandledRequest DEF SyncShape, SyncMessages
  <2>7. \A i \in DOMAIN answers : i \in DOMAIN answers' /\ answers'[i] = answers[i]
    BY <2>6, IntoQueue
  <2> QED
    BY <2>5, <2>7
<1>12. CASE SyncDeviceCancels
  <2>1. /\ UNCHANGED <<dataClass, direction>> /\ answers' = Append(answers, "cancel")
        /\ answers \in Seq(SyncMessages)
    BY <1>12 DEF SyncDeviceCancels, SyncReply, SyncShape
  <2>2. Len(answers) + 1 \in DOMAIN answers' /\ answers'[Len(answers) + 1] = "cancel"
    BY <2>1, IntoQueue DEF SyncMessages
  <2> QED
    BY <2>1, <2>2
<1>13. CASE UNCHANGED syncVars
  BY <1>13 DEF syncVars
<1> QED
  BY <1>1, <1>2, <1>3, <1>4, <1>5, <1>6, <1>7, <1>8, <1>9, <1>10, <1>11, <1>12,
     <1>13 DEF SyncNext, QuietCall

\* The invariant of every behaviour of the client and the device.
THEOREM SyncInvariant == SyncSpec => []SyncIInv
<1>1. SyncIInv /\ [SyncNext]_syncVars => SyncIInv'
  BY SyncShapeStep, SyncWaitingStep, FirstSessionStep, ReadySaidStep, SyncDirectionStep DEF SyncIInv
<1> QED
  BY SyncInitial, <1>1, PTL DEF SyncSpec

\* A mobilesync client that has changed direction is in a session, on a
\* connection on which the device was ready, whatever was lost; in its first
\* the device is receiving or its cancellation is still to be read, unless a
\* receive that failed has eaten a message
\* (mobilesync_ready_to_send_changes_from_computer).
THEOREM SyncDirection == SyncSpec => []DirectionFollowsDevice
<1>1. SyncIInv => DirectionFollowsDevice
  BY DEF SyncIInv
<1> QED
  BY SyncInvariant, <1>1, PTL

-----------------------------------------------------------------------------
(* InstallationProxy: who owns the status updater.                         *)

IpPositions == {"idle", "lock", "send", "await", "create", "assign", "perform", "free", "null",
                "test", "join", "destroy", "freed"}
IpStatuses == {"status", "complete", "error"}
\* An updater that may still write the client's field.
Active == {"lock", "receive", "callback", "cleanup"}
\* The caller is in an operation that has not started its updater.
InOperation == ipPc \in {"lock", "send", "create", "perform"} /\ ipCall \in Operations

IpShape ==
  /\ IpTypeOK /\ ipPc \in IpPositions
  /\ statuses \in Seq(IpStatuses) /\ Len(statuses) <= ipSent
  /\ ipSent \in Nat /\ ipSent <= MaxStatuses /\ ipCalls \in Nat /\ ipCalls <= MaxCommands

\* What the caller does at each of its positions.
IpCaller ==
  /\ ipPc \in {"create", "assign"} => ipCall = "async"
  /\ ipPc = "perform" => ipCall = "sync"
  /\ ipPc \in {"lock", "send"} => ipCall \in Operations \cup Queries
  /\ ipPc = "await" => ipCall \in Queries
  /\ performer[0] \in (IF ipPc = "perform" THEN {"lock", "receive", "callback"} ELSE {"unborn"})
  /\ ipFreed => ipPc = "freed"

\* Updaters are born one after the other, each in a call of its own.
IpBirths ==
  /\ ipBorn <= ipCalls
  /\ ipPc \in {"lock", "send", "create"} => ipBorn < ipCalls
  /\ \A k \in Updaters : ipBorn < k => performer[k] = "unborn"

\* The field names the updater that may still write it, unless its creator has
\* not stored it yet; none is left when the client is destroyed.
OneUpdater ==
  /\ \A k \in Updaters : performer[k] \in Active =>
       statusUpdater = k \/ (ipPc = "assign" /\ k = ipBorn)
  /\ InOperation \/ ipPc = "assign" => statusUpdater = 0
  /\ ipPc \in {"destroy", "freed"} => \A k \in Updaters : performer[k] \notin Active

IpIInv == IpShape /\ IpCaller /\ IpBirths /\ OneUpdater

\* What a receive may come to.
LEMMA IpReceived ==
  ASSUME NEW k \in Performers, PerformReceive(k)
  PROVE  /\ performer[k] = "receive" /\ ipMutex' = "free" /\ ipCrashed' \in BOOLEAN
         /\ UNCHANGED <<ipParent, statusUpdater, ipBorn, ipSent, ipCalls, ipFreed>>
         /\ \E to \in {"callback", Left(k)} : performer' = [performer EXCEPT ![k] = to]
         /\ statuses' = statuses \/ (statuses # <<>> /\ statuses' = Tail(statuses))
         /\ IF k = 0 /\ performer'[0] = "unborn"
            THEN ipPc = "perform" /\ ipPc' = "idle" /\ ipCall' = "none"
            ELSE UNCHANGED <<ipPc, ipCall>>
<1>1. /\ performer[k] = "receive" /\ ipMutex' = "free" /\ ipCrashed' \in BOOLEAN
      /\ UNCHANGED <<ipParent, statusUpdater, ipBorn, ipSent, ipCalls, ipFreed>>
  BY DEF PerformReceive, Performs, MayCrash
<1>2. \E to \in {"callback", Left(k)} : performer' = [performer EXCEPT ![k] = to]
  BY DEF PerformReceive, Performs
<1>3. statuses' = statuses \/ (statuses # <<>> /\ statuses' = Tail(statuses))
  BY DEF PerformReceive, IpArrives
<1>4. IF k = 0 /\ performer'[0] = "unborn"
      THEN ipPc = "perform" /\ ipPc' = "idle" /\ ipCall' = "none"
      ELSE UNCHANGED <<ipPc, ipCall>>
  BY DEF PerformReceive, IpReturn, IpGoto
<1> QED
  BY <1>1, <1>2, <1>3, <1>4

LEMMA IpInitial == IpInit => IpIInv
<1> SUFFICES ASSUME IpInit PROVE IpIInv
  OBVIOUS
<1>1. 0 \in Performers /\ 0 <= MaxStatuses /\ 0 <= MaxCommands /\ Updaters \subseteq Performers
  BY CommandsAreCounted DEF Performers, Updaters
<1>2. performer \in [Performers -> {"unborn"}]
  BY DEF IpInit
<1>3. IpTypeOK
  <2>1. Len(statuses) = 0
    BY DEF IpInit
  <2> QED
    BY <1>1, <1>2, <2>1 DEF IpInit, IpTypeOK
<1>4. statuses \in Seq(IpStatuses) /\ Len(statuses) = 0
  BY DEF IpInit
<1>5. IpShape
  BY <1>1, <1>3, <1>4 DEF IpInit, IpShape, IpPositions
<1>6. IpCaller /\ IpBirths /\ OneUpdater
  BY <1>1, <1>2 DEF IpInit, IpCaller, IpBirths, OneUpdater, InOperation, Active
<1> QED
  BY <1>5, <1>6 DEF IpIInv

LEMMA IpShapeStep == IpIInv /\ [IpNext]_ipVars => IpShape'
<1> SUFFICES ASSUME IpIInv, [IpNext]_ipVars PROVE IpShape'
  OBVIOUS
<1> USE DEF IpIInv, IpShape, IpTypeOK, IpPositions, IpGoto, MayCrash, ipThreads, ipWire, Operations, Queries
<1>1. /\ 0 \in Performers /\ 0 \notin Updaters /\ Updaters \subseteq Performers
      /\ MaxCommands \in Nat /\ MaxStatuses \in Nat
  BY CommandsAreCounted DEF Performers, Updaters
<1>2. ASSUME NEW c \in Operations \cup Queries \cup {"free"}, IpBegin(c) PROVE IpShape'
  <2>1. ipCalls' \in Nat /\ ipCalls' <= MaxCommands
    BY <1>1, <1>2 DEF IpBegin
  <2>2. ipPc' \in IpPositions
    BY <1>2 DEF IpBegin
  <2> QED
    BY <2>1, <2>2, <1>2 DEF IpBegin
<1>3. CASE IpLock
  BY <1>3 DEF IpLock
<1>4. CASE IpSendCommand
  BY <1>4 DEF IpSendCommand
<1>5. CASE IpSendFails
  BY <1>5 DEF IpSendFails, IpReturn
<1>6. CASE IpAnswer
  <2>1. statuses' = statuses \/ (statuses # <<>> /\ statuses' = Tail(statuses))
    BY <1>6 DEF IpAnswer, IpArrives
  <2>2. statuses' \in Seq(IpStatuses) /\ Len(statuses') \in Nat /\ Len(statuses') <= Len(statuses)
    BY <2>1, OutOfQueue
  <2>3. Len(statuses') <= ipSent /\ Len(statuses') <= MaxStatuses
    BY <1>1, <2>2
  <2>4. ipPc' \in IpPositions /\ ipMutex' \in {"free", "caller", "updater"}
    BY <1>6 DEF IpAnswer, IpReturn
  <2> QED
    BY <2>2, <2>3, <2>4, <1>6 DEF IpAnswer
<1>7. CASE CreateUpdater
  <2>1. ipBorn' \in Performers
    BY <1>1, <1>7 DEF CreateUpdater, IpBirths, Performers
  <2>2. performer' \in [Performers -> {"unborn", "lock", "receive", "callback", "cleanup", "unlock", "done"}]
    BY <1>7 DEF CreateUpdater
  <2> QED
    BY <2>1, <2>2, <1>7 DEF CreateUpdater
<1>8. CASE CreateFails
  BY <1>1, <1>8 DEF CreateFails, IpReturn
<1>9. CASE AssignUpdater
  BY <1>9 DEF AssignUpdater, IpReturn
<1>10. ASSUME NEW k \in Performers, PerformLock(k) PROVE IpShape'
  BY <1>10 DEF PerformLock, Performs
<1>11. ASSUME NEW k \in Performers, PerformReceive(k) PROVE IpShape'
  <2>1. statuses' = statuses \/ (statuses # <<>> /\ statuses' = Tail(statuses))
    BY <1>11, IpReceived
  <2>2. statuses' \in Seq(IpStatuses) /\ Len(statuses') \in Nat /\ Len(statuses') <= Len(statuses)
    BY <2>1, OutOfQueue
  <2>3. Len(statuses') <= ipSent /\ Len(statuses') <= MaxStatuses
    BY <1>1, <2>2
  <2>4. performer' \in [Performers -> {"unborn", "lock", "receive", "callback", "cleanup", "unlock", "done"}]
    BY <1>11, IpReceived DEF Left
  <2>5. ipPc' \in IpPositions
    BY <1>11, IpReceived
  <2> QED
    BY <2>2, <2>3, <2>4, <2>5, <1>11, IpReceived
<1>12. ASSUME NEW k \in Performers, PerformCallback(k) PROVE IpShape'
  BY <1>12 DEF PerformCallback, Performs, IpReturn, Left
<1>13. ASSUME NEW k \in Updaters, UpdaterCleanup(k) PROVE IpShape'
  BY <1>1, <1>13 DEF UpdaterCleanup, Performs
<1>14. ASSUME NEW k \in Updaters, UpdaterUnlock(k) PROVE IpShape'
  BY <1>14 DEF UpdaterUnlock, Performs
<1>15. CASE FreeParent
  <2>1. statuses' \in Seq(IpStatuses) /\ Len(statuses') = 0
    BY <1>15 DEF FreeParent
  <2> QED
    BY <1>1, <2>1, <1>15 DEF FreeParent
<1>16. CASE NullParent
  BY <1>16 DEF NullParent
<1>17. CASE TestUpdater
  BY <1>17 DEF TestUpdater
<1>18. CASE JoinUpdater
  BY <1>18 DEF JoinUpdater
<1>19. CASE DestroyClient
  BY <1>19 DEF DestroyClient
<1>20. ASSUME NEW m \in {"status", "complete", "error"}, DeviceReports(m) PROVE IpShape'
  <2>1. statuses' = Append(statuses, m) /\ m \in IpStatuses /\ ipSent' = ipSent + 1 /\ ipSent < MaxStatuses
    BY <1>20 DEF DeviceReports, IpStatuses
  <2>2. statuses' \in Seq(IpStatuses) /\ Len(statuses') = Len(statuses) + 1 /\ Len(statuses) \in Nat
    BY <2>1, IntoQueue
  <2>3. /\ Len(statuses') <= ipSent' /\ Len(statuses') <= MaxStatuses
        /\ ipSent' \in Nat /\ ipSent' <= MaxStatuses
    BY <1>1, <2>1, <2>2
  <2> QED
    BY <2>2, <2>3, <1>20 DEF DeviceReports
<1>21. CASE UNCHANGED ipVars
  BY <1>21 DEF ipVars
<1> QED
  BY <1>2, <1>3, <1>4, <1>5, <1>6, <1>7, <1>8, <1>9, <1>10, <1>11, <1>12, <1>13,
     <1>14, <1>15, <1>16, <1>17, <1>18, <1>19, <1>20, <1>21 DEF IpNext, PerformStep,
     FreeStep

LEMMA IpCallerStep == IpIInv /\ [IpNext]_ipVars => IpCaller'
<1> SUFFICES ASSUME IpIInv, [IpNext]_ipVars PROVE IpCaller'
  OBVIOUS
<1> USE DEF IpIInv, IpShape, IpTypeOK, IpPositions, IpCaller, IpGoto, MayCrash, ipThreads, ipWire, Operations, Queries
<1>1. /\ 0 \in Performers /\ 0 \notin Updaters /\ Updaters \subseteq Performers
      /\ MaxCommands \in Nat /\ MaxStatuses \in Nat
  BY CommandsAreCounted DEF Performers, Updaters
<1>2. ASSUME NEW c \in Operations \cup Queries \cup {"free"}, IpBegin(c) PROVE IpCaller'
  BY <1>2 DEF IpBegin
<1>3. CASE IpLock
  BY <1>3 DEF IpLock
<1>4. CASE IpSendCommand
  <2>1. /\ ipPc = "send" /\ ipCall \in Operations \cup Queries /\ ipCall' = ipCall /\ ipFreed' = ipFreed
        /\ ipPc' = IF ipCall \in Queries THEN "await" ELSE IF ipCall = "async" THEN "create" ELSE "perform"
        /\ performer' = IF ipCall = "sync" THEN [performer EXCEPT ![0] = "lock"] ELSE performer
    BY <1>4 DEF IpSendCommand
  <2>2. CASE ipCall = "sync"
    BY <1>1, <2>1, <2>2
  <2>3. CASE ipCall # "sync"
    BY <1>1, <2>1, <2>3
  <2> QED
    BY <2>2, <2>3
<1>5. CASE IpSendFails
  BY <1>5 DEF IpSendFails, IpReturn
<1>6. CASE IpAnswer
  BY <1>6 DEF IpAnswer, IpReturn, IpArrives
<1>7. CASE CreateUpdater
  BY <1>7 DEF CreateUpdater
<1>8. CASE CreateFails
  BY <1>8 DEF CreateFails, IpReturn
<1>9. CASE AssignUpdater
  BY <1>9 DEF AssignUpdater, IpReturn
<1>10. ASSUME NEW k \in Performers, PerformLock(k) PROVE IpCaller'
  BY <1>10 DEF PerformLock, Performs
<1>11. ASSUME NEW k \in Performers, PerformReceive(k) PROVE IpCaller'
  <2>1. CASE k = 0
    <3>1. /\ ipPc = "perform" /\ Left(k) = "unborn" /\ ipFreed' = ipFreed
          /\ performer'[0] \in {"callback", "unborn"}
          /\ IF performer'[0] = "unborn" THEN ipPc' = "idle" ELSE UNCHANGED <<ipPc, ipCall>>
      BY <1>1, <1>11, <2>1, IpReceived DEF Left
    <3> QED
      BY <3>1
  <2>2. CASE k # 0
    <3>1. UNCHANGED <<ipPc, ipCall, ipFreed>> /\ performer'[0] = performer[0]
      BY <1>1, <1>11, <2>2, IpReceived
    <3> QED
      BY <3>1
  <2> QED
    BY <2>1, <2>2
<1>12. ASSUME NEW k \in Performers, PerformCallback(k) PROVE IpCaller'
  BY <1>12 DEF PerformCallback, Performs, IpReturn, Left
<1>13. ASSUME NEW k \in Updaters, UpdaterCleanup(k) PROVE IpCaller'
  BY <1>13 DEF UpdaterCleanup, Performs
<1>14. ASSUME NEW k \in Updaters, UpdaterUnlock(k) PROVE IpCaller'
  BY <1>14 DEF UpdaterUnlock, Performs
<1>15. CASE FreeParent
  BY <1>15 DEF FreeParent
<1>16. CASE NullParent
  BY <1>16 DEF NullParent
<1>17. CASE TestUpdater
  BY <1>17 DEF TestUpdater
<1>18. CASE JoinUpdater
  BY <1>18 DEF JoinUpdater
<1>19. CASE DestroyClient
  BY <1>19 DEF DestroyClient
<1>20. ASSUME NEW m \in {"status", "complete", "error"}, DeviceReports(m) PROVE IpCaller'
  BY <1>20 DEF DeviceReports
<1>21. CASE UNCHANGED ipVars
  BY <1>21 DEF ipVars
<1> QED
  BY <1>2, <1>3, <1>4, <1>5, <1>6, <1>7, <1>8, <1>9, <1>10, <1>11, <1>12, <1>13,
     <1>14, <1>15, <1>16, <1>17, <1>18, <1>19, <1>20, <1>21 DEF IpNext, PerformStep,
     FreeStep

LEMMA IpBirthsStep == IpIInv /\ [IpNext]_ipVars => IpBirths'
<1> SUFFICES ASSUME IpIInv, [IpNext]_ipVars PROVE IpBirths'
  OBVIOUS
<1> USE DEF IpIInv, IpShape, IpTypeOK, IpCaller, IpBirths, IpGoto, MayCrash, ipThreads, ipWire, Operations, Queries
<1>1. /\ 0 \in Performers /\ 0 \notin Updaters /\ Updaters \subseteq Performers
      /\ MaxCommands \in Nat /\ MaxStatuses \in Nat
  BY CommandsAreCounted DEF Performers, Updaters
<1>2. ASSUME NEW c \in Operations \cup Queries \cup {"free"}, IpBegin(c) PROVE IpBirths'
  BY <1>2 DEF IpBegin
<1>3. CASE IpLock
  BY <1>3 DEF IpLock
<1>4. CASE IpSendCommand
  <2>1. /\ ipPc = "send" /\ ipPc' \in {"await", "create", "perform"}
        /\ ipBorn' = ipBorn /\ ipCalls' = ipCalls
    BY <1>4 DEF IpSendCommand
  <2>2. \A j \in Updaters : performer'[j] = performer[j]
    BY <1>1, <1>4 DEF IpSendCommand
  <2> QED
    BY <2>1, <2>2
<1>5. CASE IpSendFails
  BY <1>5 DEF IpSendFails, IpReturn
<1>6. CASE IpAnswer
  BY <1>6 DEF IpAnswer, IpReturn, IpArrives
<1>7. CASE CreateUpdater
  <2>1. ipBorn' = ipBorn + 1 /\ ipPc' = "assign" /\ ipCalls' = ipCalls /\ ipBorn \in Nat /\ ipBorn < ipCalls
    BY <1>1, <1>7 DEF CreateUpdater, Performers
  <2>2. \A j \in Updaters : j # ipBorn + 1 => performer'[j] = performer[j]
    BY <1>1, <1>7 DEF CreateUpdater
  <2>3. ASSUME NEW j \in Updaters, ipBorn' < j PROVE performer'[j] = "unborn"
    BY <2>1, <2>2, <2>3 DEF Updaters
  <2> QED
    BY <2>1, <2>3
<1>8. CASE CreateFails
  BY <1>8 DEF CreateFails, IpReturn
<1>9. CASE AssignUpdater
  BY <1>9 DEF AssignUpdater, IpReturn
<1>10. ASSUME NEW k \in Performers, PerformLock(k) PROVE IpBirths'
  BY <1>10 DEF PerformLock, Performs
<1>11. ASSUME NEW k \in Performers, PerformReceive(k) PROVE IpBirths'
  <2>1. UNCHANGED <<ipBorn, ipCalls>> /\ (ipPc' = ipPc \/ ipPc' = "idle")
    BY <1>11, IpReceived
  <2>2. performer[k] # "unborn" /\ \A j \in Performers \ {k} : performer'[j] = performer[j]
    BY <1>11, IpReceived
  <2> QED
    BY <1>1, <2>1, <2>2
<1>12. ASSUME NEW k \in Performers, PerformCallback(k) PROVE IpBirths'
  BY <1>12 DEF PerformCallback, Performs, IpReturn, Left
<1>13. ASSUME NEW k \in Updaters, UpdaterCleanup(k) PROVE IpBirths'
  BY <1>13 DEF UpdaterCleanup, Performs
<1>14. ASSUME NEW k \in Updaters, UpdaterUnlock(k) PROVE IpBirths'
  BY <1>14 DEF UpdaterUnlock, Performs
<1>15. CASE FreeParent
  BY <1>15 DEF FreeParent
<1>16. CASE NullParent
  BY <1>16 DEF NullParent
<1>17. CASE TestUpdater
  BY <1>17 DEF TestUpdater
<1>18. CASE JoinUpdater
  BY <1>18 DEF JoinUpdater
<1>19. CASE DestroyClient
  BY <1>19 DEF DestroyClient
<1>20. ASSUME NEW m \in {"status", "complete", "error"}, DeviceReports(m) PROVE IpBirths'
  BY <1>20 DEF DeviceReports
<1>21. CASE UNCHANGED ipVars
  BY <1>21 DEF ipVars
<1> QED
  BY <1>2, <1>3, <1>4, <1>5, <1>6, <1>7, <1>8, <1>9, <1>10, <1>11, <1>12, <1>13,
     <1>14, <1>15, <1>16, <1>17, <1>18, <1>19, <1>20, <1>21 DEF IpNext, PerformStep,
     FreeStep

LEMMA OneUpdaterStep == IpIInv /\ [IpNext]_ipVars => OneUpdater'
<1> SUFFICES ASSUME IpIInv, [IpNext]_ipVars PROVE OneUpdater'
  OBVIOUS
<1> USE DEF IpIInv, IpShape, IpTypeOK, IpCaller, OneUpdater, InOperation, Active, IpGoto, MayCrash, ipThreads, ipWire, Operations, Queries
<1>1. /\ 0 \in Performers /\ 0 \notin Updaters /\ Updaters \subseteq Performers
      /\ MaxCommands \in Nat /\ MaxStatuses \in Nat
  BY CommandsAreCounted DEF Performers, Updaters
<1>2. ASSUME NEW c \in Operations \cup Queries \cup {"free"}, IpBegin(c) PROVE OneUpdater'
  BY <1>2 DEF IpBegin
<1>3. CASE IpLock
  BY <1>3 DEF IpLock
<1>4. CASE IpSendCommand
  BY <1>4 DEF IpSendCommand
<1>5. CASE IpSendFails
  BY <1>5 DEF IpSendFails, IpReturn
<1>6. CASE IpAnswer
  BY <1>6 DEF IpAnswer, IpReturn, IpArrives
<1>7. CASE CreateUpdater
  BY <1>7 DEF CreateUpdater
<1>8. CASE CreateFails
  BY <1>8 DEF CreateFails, IpReturn
<1>9. CASE AssignUpdater
  BY <1>9 DEF AssignUpdater, IpReturn
<1>10. ASSUME NEW k \in Performers, PerformLock(k) PROVE OneUpdater'
  BY <1>10 DEF PerformLock, Performs
<1>11. ASSUME NEW k \in Performers, PerformReceive(k) PROVE OneUpdater'
  <2>1. UNCHANGED <<statusUpdater, ipBorn>> /\ (UNCHANGED <<ipPc, ipCall>> \/ ipPc' = "idle")
    BY <1>11, IpReceived
  <2>2. performer[k] = "receive" /\ \A j \in Performers \ {k} : performer'[j] = performer[j]
    BY <1>11, IpReceived
  <2>3. \A j \in Updaters : performer'[j] \in Active => performer[j] \in Active
    BY <1>1, <2>2
  <2>4. ipPc = "assign" => ipPc' = "assign"
    BY <1>11, IpReceived
  <2> QED
    BY <1>1, <2>1, <2>3, <2>4
<1>12. ASSUME NEW k \in Performers, PerformCallback(k) PROVE OneUpdater'
  BY <1>12 DEF PerformCallback, Performs, IpReturn, Left
<1>13. ASSUME NEW k \in Updaters, UpdaterCleanup(k) PROVE OneUpdater'
  BY <1>13 DEF UpdaterCleanup, Performs
<1>14. ASSUME NEW k \in Updaters, UpdaterUnlock(k) PROVE OneUpdater'
  BY <1>14 DEF UpdaterUnlock, Performs
<1>15. CASE FreeParent
  BY <1>15 DEF FreeParent
<1>16. CASE NullParent
  BY <1>16 DEF NullParent
<1>17. CASE TestUpdater
  BY <1>17 DEF TestUpdater
<1>18. CASE JoinUpdater
  BY <1>18 DEF JoinUpdater
<1>19. CASE DestroyClient
  BY <1>19 DEF DestroyClient
<1>20. ASSUME NEW m \in {"status", "complete", "error"}, DeviceReports(m) PROVE OneUpdater'
  BY <1>20 DEF DeviceReports
<1>21. CASE UNCHANGED ipVars
  BY <1>21 DEF ipVars
<1> QED
  BY <1>2, <1>3, <1>4, <1>5, <1>6, <1>7, <1>8, <1>9, <1>10, <1>11, <1>12, <1>13,
     <1>14, <1>15, <1>16, <1>17, <1>18, <1>19, <1>20, <1>21 DEF IpNext, PerformStep,
     FreeStep

\* The invariant of every behaviour of the client.
THEOREM IpInvariant == IpSpec => []IpIInv
<1>1. IpIInv /\ [IpNext]_ipVars => IpIInv'
  BY IpShapeStep, IpCallerStep, IpBirthsStep, OneUpdaterStep DEF IpIInv
<1> QED
  BY IpInitial, <1>1, PTL DEF IpSpec

\* Two updaters never share the connection, one that may call back is the one
\* that instproxy_client_free will join, and none is when that has returned,
\* though status_updater is tested and written without the mutex.
THEOREM UpdaterHasOwner == IpSpec => []UpdaterOwned
<1>1. IpIInv => UpdaterOwned
  <2> SUFFICES ASSUME IpIInv PROVE UpdaterOwned
    OBVIOUS
  <2>1. /\ Performers = Updaters \cup {0} /\ 0 \notin Updaters
    BY CommandsAreCounted DEF Performers, Updaters
  <2>2. \A k \in Performing : k \in Updaters \cup {0} /\ (k # 0 => performer[k] \in Active)
    BY <2>1 DEF Performing, Active
  <2>3. \A k \in Performing \ {0} : statusUpdater = k \/ (ipPc = "assign" /\ k = ipBorn)
    BY <2>2 DEF IpIInv, OneUpdater
  <2>4. 0 \in Performing => ipPc = "perform" /\ ipCall \in Operations /\ statusUpdater = 0
    BY DEF IpIInv, IpCaller, OneUpdater, InOperation, Operations, Performing
  <2>5. \A j, k \in Performing : j = k
    <3>1. ASSUME NEW k \in Performing \ {0} PROVE 0 \notin Performing
      BY <2>3, <2>4
    <3>2. ASSUME NEW j \in Performing \ {0}, NEW k \in Performing \ {0} PROVE j = k
      <4>1. ipPc = "assign" => statusUpdater = 0
        BY DEF IpIInv, OneUpdater
      <4>2. j # 0 /\ k # 0
        OBVIOUS
      <4> QED
        BY <2>3, <4>1, <4>2
    <3> QED
      BY <3>1, <3>2
  <2>6. Cardinality(Performing) <= 1
    <3>1. CASE Performing = {}
      BY <3>1, FS_EmptySet
    <3>2. CASE Performing # {}
      <4>1. PICK k : k \in Performing
        BY <3>2
      <4>2. Performing = {k}
        BY <2>5, <4>1
      <4>3. Cardinality({k}) = 1
        BY FS_Singleton, Zenon
      <4> QED
        BY <4>2, <4>3
    <3> QED
      BY <3>1, <3>2
  <2>7. ipFreed => Performing = {}
    <3>1. ipFreed => 0 \notin Performing
      BY <2>4 DEF IpIInv, IpCaller
    <3>2. ipFreed => \A k \in Updaters : k \notin Performing
      BY DEF IpIInv, IpCaller, OneUpdater, Active, Performing
    <3> QED
      BY <2>2, <3>1, <3>2
  <2> QED
    BY <2>3, <2>6, <2>7 DEF UpdaterOwned
<1> QED
  BY IpInvariant, <1>1, PTL

-----------------------------------------------------------------------------
(* Backup2: the lock of a synchronisation, and the stream of files.        *)

\* The lock of the synchronisation: who has it, and what main has in "lockfile", at
\* each of its positions.
NoLockYet == syncLock # "ours" /\ syncHeld = FALSE
LockedAsKnown == lockfile = "open" /\ syncLock = "ours" /\ syncHeld = TRUE
LockInvariant ==
  /\ b2Pc \in {"connect", "quitCheck", "lockCheck", "locking", "checkpoint"} => requestSent = FALSE
  /\ b2Pc \notin {"cleanup", "exit"} => syncFinished = FALSE
  /\ b2Pc \in {"connect", "quitCheck"} => NoLockYet /\ lockfile = "unset"
  /\ b2Pc = "lockCheck" => NoLockYet /\ lockfile = "none"
  /\ b2Pc = "locking" => NoLockYet /\ lockfile \in {"open", "none"}
  /\ b2Pc = "locking" /\ lockfile = "open" => b2Cmd = "backup"
  /\ b2Pc \in {"checkpoint", "unlock"} =>
       LockedAsKnown \/ (NoLockYet /\ lockfile # "open")
  /\ b2Pc \in {"checkpoint", "unlock"} /\ lockfile = "unset" => b2Cmd = "leave"
  /\ b2Pc = "checkpoint" /\ lockfile = "open" => b2Cmd = "backup"
  /\ b2Pc \in {"loop", "receive", "leftovers", "report"} =>
       requestSent = TRUE /\ ((LockedAsKnown /\ b2Cmd = "backup") \/ (NoLockYet /\ lockfile = "none"))
  /\ b2Pc = "unlock" /\ lockfile = "open" => (b2Cmd = "backup" <=> requestSent = TRUE)
  /\ b2Pc \in {"cleanup", "exit"} =>
       syncLock # "ours" /\ (syncFinished = TRUE => syncHeld = TRUE /\ requestSent = TRUE)

\* The stream of files, until something has failed: the tool reads what the device
\* sends, and data only for a file it could open.
FilesInStep ==
  b2Pc = "receive" /\ ~spoiled => InStep(expects, offers) /\ (offers = "data" => fileOpen = TRUE)

\* The parts of Backup2TypeOK.
B2Places ==
  /\ b2Pc \in {"connect", "quitCheck", "lockCheck", "locking", "checkpoint", "loop", "receive",
               "leftovers", "report", "unlock", "cleanup", "exit"}
  /\ b2Cmd \in Commands /\ infoPlist \in {"none", "bad", "other", "ours"}
  /\ snapshot \in {"unknown", "finished", "new"}
  /\ lockfile \in {"unset", "none", "open"} /\ syncLock \in {"free", "other", "ours"}
  /\ report \in {"none", "successful", "failed", "aborted"}
B2Counts ==
  /\ attempts \in Nat /\ attempts <= LockAttempts
  /\ b2Requests \in Nat /\ b2Requests <= MaxRequests
  /\ units \in Nat /\ units <= MaxUnits
B2Flags ==
  /\ quitFlag \in BOOLEAN /\ syncHeld \in BOOLEAN /\ syncFinished \in BOOLEAN
  /\ requestSent \in BOOLEAN /\ fileOpen \in BOOLEAN /\ spoiled \in BOOLEAN
  /\ misled \in BOOLEAN /\ operationOk \in BOOLEAN
B2Stream == expects \in Units \cup {"code"} /\ offers \in Units

B2IInv == Backup2TypeOK /\ LockInvariant /\ FilesInStep

LEMMA B2TypeParts == Backup2TypeOK <=> B2Places /\ B2Counts /\ B2Flags /\ B2Stream
<1>1. /\ attempts \in 0 .. LockAttempts <=> attempts \in Nat /\ attempts <= LockAttempts
      /\ b2Requests \in 0 .. MaxRequests <=> b2Requests \in Nat /\ b2Requests <= MaxRequests
      /\ units \in 0 .. MaxUnits <=> units \in Nat /\ units <= MaxUnits
  BY Backup2Bounds
<1>2. {quitFlag, syncHeld, syncFinished, requestSent, fileOpen, spoiled, misled, operationOk}
        \subseteq BOOLEAN <=> B2Flags
  BY Zenon DEF B2Flags
<1> QED
  BY <1>1, <1>2, Zenon DEF Backup2TypeOK, B2Places, B2Counts, B2Stream

LEMMA B2Initial == Backup2Init => B2IInv
<1> SUFFICES ASSUME Backup2Init PROVE B2IInv
  OBVIOUS
<1>1. 0 \in 0 .. LockAttempts /\ 0 \in 0 .. MaxRequests /\ 0 \in 0 .. MaxUnits
  BY Backup2Bounds
<1>2. Backup2TypeOK
  BY <1>1, Zenon DEF Backup2Init, Backup2TypeOK, Units, Commands
<1>3. LockInvariant /\ FilesInStep
  BY DEF Backup2Init, LockInvariant, NoLockYet, FilesInStep
<1> QED
  BY <1>2, <1>3 DEF B2IInv

\* The device has something done to the files of the backup.
FileCommand == ListDirectory \/ MakeDirectory \/ MoveFiles \/ RemoveFiles \/ CopyItem
LEMMA FileCommands ==
  ASSUME FileCommand
  PROVE  /\ DeviceAsks /\ Again /\ LoopUnchanged
         /\ UNCHANGED <<snapshot, expects, offers, fileOpen, units, spoiled, operationOk>>
         /\ misled' \in BOOLEAN
<1>1. PICK failed \in BOOLEAN, status \in {"ok", "error"} : FileOperation(failed, status)
  <2>1. CASE ListDirectory
    BY <2>1, Zenon DEF ListDirectory
  <2>2. CASE MakeDirectory
    BY <2>2, Zenon DEF MakeDirectory
  <2>3. CASE MoveFiles
    <3>1. PICK moved \in 0 .. 2 : FileOperation(moved < 2, IF moved < 2 THEN "error" ELSE "ok")
      BY <2>3, Zenon DEF MoveFiles
    <3>2. (moved < 2) \in BOOLEAN
      OBVIOUS
    <3>3. (IF moved < 2 THEN "error" ELSE "ok") \in {"ok", "error"}
      OBVIOUS
    <3> QED
      BY <3>1, <3>2, <3>3, Zenon
  <2>4. CASE RemoveFiles
    <3>1. PICK failures \in SUBSET {1, 2} :
            FileOperation(failures # {}, IF failures = {} THEN "ok" ELSE "error")
      BY <2>4, Zenon DEF RemoveFiles
    <3>2. (failures # {}) \in BOOLEAN /\ (IF failures = {} THEN "ok" ELSE "error") \in {"ok", "error"}
      OBVIOUS
    <3> QED
      BY <3>1, <3>2, Zenon
  <2>5. CASE CopyItem
    BY <2>5, Zenon DEF CopyItem
  <2> QED
    BY <2>1, <2>2, <2>3, <2>4, <2>5 DEF FileCommand
<1> QED
  BY <1>1, Zenon DEF FileOperation

LEMMA B2PlacesStep == B2IInv /\ [Backup2Next]_b2Vars => B2Places'
<1> SUFFICES ASSUME B2IInv, [Backup2Next]_b2Vars PROVE B2Places'
  OBVIOUS
<1> USE DEF B2Places, Commands, B2Goto, DeviceAsks, wireVars, LoopUnchanged, lockVars
<1>1. B2Places
  BY B2TypeParts DEF B2IInv
<1>2. CASE B2Connect
  BY <1>1, <1>2 DEF B2Connect
<1>3. CASE CheckInfo
  BY <1>1, <1>3 DEF CheckInfo
<1>4. CASE OpenLockfile
  BY <1>1, <1>4 DEF OpenLockfile
<1>5. CASE TryLock
  BY <1>1, <1>5 DEF TryLock
<1>6. CASE LockTimeout
  BY <1>1, <1>6 DEF LockTimeout
<1>7. CASE PostCrashes
  BY <1>1, <1>7 DEF PostCrashes
<1>8. CASE SendRequest2
  BY <1>1, <1>8 DEF SendRequest2
<1>9. CASE NotReady
  BY <1>1, <1>9 DEF NotReady, Again
<1>10. CASE SendFiles
  BY <1>1, <1>10 DEF SendFiles, DeviceAsks, Again
<1>11. CASE FileCommand
  BY <1>1, FileCommands, <1>11 DEF DeviceAsks, Again
<1>12. CASE ReceiveFiles
  BY <1>1, <1>12 DEF ReceiveFiles, DeviceAsks
<1>13. CASE ReadUnit
  BY <1>1, <1>13 DEF ReadUnit
<1>14. CASE ReceiveEnds
  BY <1>1, <1>14 DEF ReceiveEnds
<1>15. CASE FilesReceived
  BY <1>1, <1>15 DEF FilesReceived, Again
<1>16. CASE OperationEnds
  BY <1>1, <1>16 DEF OperationEnds, DeviceAsks
<1>17. CASE Report
  BY <1>1, <1>17 DEF Report
<1>18. CASE Unlock2
  BY <1>1, <1>18 DEF Unlock2
<1>19. CASE B2Cleanup
  BY <1>1, <1>19 DEF B2Cleanup
<1>20. CASE RaiseQuit
  BY <1>1, <1>20 DEF RaiseQuit
<1>21. CASE OtherUnlocks
  BY <1>1, <1>21 DEF OtherUnlocks
<1>22. CASE UNCHANGED b2Vars
  BY <1>1, <1>22 DEF b2Vars
<1> QED
  BY <1>2, <1>3, <1>4, <1>5, <1>6, <1>7, <1>8, <1>9, <1>10, <1>11, <1>12, <1>13, <1>14,
     <1>15, <1>16, <1>17, <1>18, <1>19, <1>20, <1>21, <1>22 DEF Backup2Next, FileCommand

LEMMA B2CountsStep == B2IInv /\ [Backup2Next]_b2Vars => B2Counts'
<1> SUFFICES ASSUME B2IInv, [Backup2Next]_b2Vars PROVE B2Counts'
  OBVIOUS
<1> USE DEF B2Counts, B2Goto, DeviceAsks, wireVars, LoopUnchanged, lockVars
<1>1. B2Counts /\ LockAttempts \in Nat /\ MaxRequests \in Nat /\ MaxUnits \in Nat
  BY Backup2Bounds, B2TypeParts DEF B2IInv
<1>2. CASE B2Connect
  BY <1>1, <1>2 DEF B2Connect
<1>3. CASE CheckInfo
  BY <1>1, <1>3 DEF CheckInfo
<1>4. CASE OpenLockfile
  BY <1>1, <1>4 DEF OpenLockfile
<1>5. CASE TryLock
  BY <1>1, <1>5 DEF TryLock
<1>6. CASE LockTimeout
  BY <1>1, <1>6 DEF LockTimeout
<1>7. CASE PostCrashes
  BY <1>1, <1>7 DEF PostCrashes
<1>8. CASE SendRequest2
  BY <1>1, <1>8 DEF SendRequest2
<1>9. CASE NotReady
  BY <1>1, <1>9 DEF NotReady, Again
<1>10. CASE SendFiles
  BY <1>1, <1>10 DEF SendFiles, DeviceAsks, Again
<1>11. CASE FileCommand
  BY <1>1, FileCommands, <1>11 DEF DeviceAsks, Again
<1>12. CASE ReceiveFiles
  BY <1>1, <1>12 DEF ReceiveFiles, DeviceAsks
<1>13. CASE ReadUnit
  BY <1>1, <1>13 DEF ReadUnit
<1>14. CASE ReceiveEnds
  BY <1>1, <1>14 DEF ReceiveEnds
<1>15. CASE FilesReceived
  BY <1>1, <1>15 DEF FilesReceived, Again
<1>16. CASE OperationEnds
  BY <1>1, <1>16 DEF OperationEnds, DeviceAsks
<1>17. CASE Report
  BY <1>1, <1>17 DEF Report
<1>18. CASE Unlock2
  BY <1>1, <1>18 DEF Unlock2
<1>19. CASE B2Cleanup
  BY <1>1, <1>19 DEF B2Cleanup
<1>20. CASE RaiseQuit
  BY <1>1, <1>20 DEF RaiseQuit
<1>21. CASE OtherUnlocks
  BY <1>1, <1>21 DEF OtherUnlocks
<1>22. CASE UNCHANGED b2Vars
  BY <1>1, <1>22 DEF b2Vars
<1> QED
  BY <1>2, <1>3, <1>4, <1>5, <1>6, <1>7, <1>8, <1>9, <1>10, <1>11, <1>12, <1>13, <1>14,
     <1>15, <1>16, <1>17, <1>18, <1>19, <1>20, <1>21, <1>22 DEF Backup2Next, FileCommand

LEMMA B2FlagsStep == B2IInv /\ [Backup2Next]_b2Vars => B2Flags'
<1> SUFFICES ASSUME B2IInv, [Backup2Next]_b2Vars PROVE B2Flags'
  OBVIOUS
<1> USE DEF B2Flags, B2Goto, DeviceAsks, wireVars, LoopUnchanged, lockVars
<1>1. B2Flags
  BY B2TypeParts DEF B2IInv
<1>2. CASE B2Connect
  BY <1>1, <1>2 DEF B2Connect
<1>3. CASE CheckInfo
  BY <1>1, <1>3 DEF CheckInfo
<1>4. CASE OpenLockfile
  BY <1>1, <1>4 DEF OpenLockfile
<1>5. CASE TryLock
  BY <1>1, <1>5 DEF TryLock
<1>6. CASE LockTimeout
  BY <1>1, <1>6 DEF LockTimeout
<1>7. CASE PostCrashes
  BY <1>1, <1>7 DEF PostCrashes
<1>8. CASE SendRequest2
  BY <1>1, <1>8 DEF SendRequest2
<1>9. CASE NotReady
  BY <1>1, <1>9 DEF NotReady, Again
<1>10. CASE SendFiles
  BY <1>1, <1>10 DEF SendFiles, DeviceAsks, Again
<1>11. CASE FileCommand
  BY <1>1, FileCommands, <1>11 DEF DeviceAsks, Again
<1>12. CASE ReceiveFiles
  BY <1>1, <1>12 DEF ReceiveFiles, DeviceAsks
<1>13. CASE ReadUnit
  BY <1>1, <1>13 DEF ReadUnit
<1>14. CASE ReceiveEnds
  BY <1>1, <1>14 DEF ReceiveEnds
<1>15. CASE FilesReceived
  BY <1>1, <1>15 DEF FilesReceived, Again
<1>16. CASE OperationEnds
  BY <1>1, <1>16 DEF OperationEnds, DeviceAsks
<1>17. CASE Report
  BY <1>1, <1>17 DEF Report
<1>18. CASE Unlock2
  <2>1. syncFinished' \in BOOLEAN
    BY <1>1, <1>18, Zenon DEF Unlock2, Posts
  <2>2. UNCHANGED <<quitFlag, syncHeld, requestSent, fileOpen, spoiled, misled, operationOk>>
    BY <1>18 DEF Unlock2
  <2> QED
    BY <1>1, <2>1, <2>2
<1>19. CASE B2Cleanup
  BY <1>1, <1>19 DEF B2Cleanup
<1>20. CASE RaiseQuit
  BY <1>1, <1>20 DEF RaiseQuit
<1>21. CASE OtherUnlocks
  BY <1>1, <1>21 DEF OtherUnlocks
<1>22. CASE UNCHANGED b2Vars
  BY <1>1, <1>22 DEF b2Vars
<1> QED
  BY <1>2, <1>3, <1>4, <1>5, <1>6, <1>7, <1>8, <1>9, <1>10, <1>11, <1>12, <1>13, <1>14,
     <1>15, <1>16, <1>17, <1>18, <1>19, <1>20, <1>21, <1>22 DEF Backup2Next, FileCommand

LEMMA B2StreamStep == B2IInv /\ [Backup2Next]_b2Vars => B2Stream'
<1> SUFFICES ASSUME B2IInv, [Backup2Next]_b2Vars PROVE B2Stream'
  OBVIOUS
<1> USE DEF B2Stream, Units, B2Goto, DeviceAsks, wireVars, LoopUnchanged, lockVars
<1>1. B2Stream
  BY B2TypeParts DEF B2IInv
<1>2. CASE B2Connect
  BY <1>1, <1>2 DEF B2Connect
<1>3. CASE CheckInfo
  BY <1>1, <1>3 DEF CheckInfo
<1>4. CASE OpenLockfile
  BY <1>1, <1>4 DEF OpenLockfile
<1>5. CASE TryLock
  BY <1>1, <1>5 DEF TryLock
<1>6. CASE LockTimeout
  BY <1>1, <1>6 DEF LockTimeout
<1>7. CASE PostCrashes
  BY <1>1, <1>7 DEF PostCrashes
<1>8. CASE SendRequest2
  BY <1>1, <1>8 DEF SendRequest2
<1>9. CASE NotReady
  BY <1>1, <1>9 DEF NotReady, Again
<1>10. CASE SendFiles
  BY <1>1, <1>10 DEF SendFiles, DeviceAsks, Again
<1>11. CASE FileCommand
  BY <1>1, FileCommands, <1>11 DEF DeviceAsks, Again
<1>12. CASE ReceiveFiles
  BY <1>1, <1>12 DEF ReceiveFiles, DeviceAsks
<1>13. CASE ReadUnit
  <2>1. expects' \in {"dname", "fname", "code", "data", "message"}
    BY <1>13 DEF ReadUnit, ReadsNext
  <2>2. Follows(offers) \subseteq Units
    BY DEF Follows
  <2>3. offers' \in Follows(offers)
    BY <1>13 DEF ReadUnit
  <2> QED
    BY <2>1, <2>2, <2>3
<1>14. CASE ReceiveEnds
  BY <1>1, <1>14 DEF ReceiveEnds
<1>15. CASE FilesReceived
  BY <1>1, <1>15 DEF FilesReceived, Again
<1>16. CASE OperationEnds
  BY <1>1, <1>16 DEF OperationEnds, DeviceAsks
<1>17. CASE Report
  BY <1>1, <1>17 DEF Report
<1>18. CASE Unlock2
  BY <1>1, <1>18 DEF Unlock2
<1>19. CASE B2Cleanup
  BY <1>1, <1>19 DEF B2Cleanup
<1>20. CASE RaiseQuit
  BY <1>1, <1>20 DEF RaiseQuit
<1>21. CASE OtherUnlocks
  BY <1>1, <1>21 DEF OtherUnlocks
<1>22. CASE UNCHANGED b2Vars
  BY <1>1, <1>22 DEF b2Vars
<1> QED
  BY <1>2, <1>3, <1>4, <1>5, <1>6, <1>7, <1>8, <1>9, <1>10, <1>11, <1>12, <1>13, <1>14,
     <1>15, <1>16, <1>17, <1>18, <1>19, <1>20, <1>21, <1>22 DEF Backup2Next, FileCommand

LEMMA B2LockStep == B2IInv /\ [Backup2Next]_b2Vars => LockInvariant'
<1> SUFFICES ASSUME B2IInv, [Backup2Next]_b2Vars PROVE LockInvariant'
  OBVIOUS
<1> USE DEF B2IInv, LockInvariant, NoLockYet, LockedAsKnown, B2Goto, wireVars, LoopUnchanged, lockVars
<1>1. CASE B2Connect
  BY <1>1 DEF B2Connect
<1>2. CASE CheckInfo
  BY <1>2 DEF CheckInfo
<1>3. CASE OpenLockfile
  BY <1>3 DEF OpenLockfile
<1>4. CASE TryLock
  BY <1>4 DEF TryLock
<1>5. CASE LockTimeout
  BY <1>5 DEF LockTimeout
<1>6. CASE PostCrashes
  BY <1>6 DEF PostCrashes
<1>7. CASE SendRequest2
  <2>1. /\ b2Pc = "checkpoint" /\ UNCHANGED <<lockfile, syncLock, syncHeld, syncFinished>>
        /\ \/ b2Pc' = "unlock" /\ b2Cmd' = "leave" /\ requestSent' = requestSent
           \/ b2Pc' = "loop" /\ requestSent' = TRUE /\ b2Cmd' = b2Cmd /\ b2Cmd # "leave"
    BY <1>7 DEF SendRequest2
  <2>2. CASE b2Pc' = "unlock" /\ b2Cmd' = "leave" /\ requestSent' = requestSent
    BY <2>1, <2>2
  <2>3. CASE b2Pc' = "loop" /\ requestSent' = TRUE /\ b2Cmd' = b2Cmd /\ b2Cmd # "leave"
    <3>1. lockfile # "unset" /\ lockfile \in {"unset", "none", "open"}
      BY <2>1, <2>3 DEF Backup2TypeOK
    <3> QED
      BY <2>1, <2>3, <3>1
  <2> QED
    BY <2>1, <2>2, <2>3
<1>8. CASE NotReady
  BY <1>8 DEF NotReady, Again
<1>9. CASE SendFiles
  BY <1>9 DEF SendFiles, DeviceAsks, Again
<1>10. CASE FileCommand
  BY FileCommands, <1>10 DEF DeviceAsks, Again
<1>11. CASE ReceiveFiles
  BY <1>11 DEF ReceiveFiles, DeviceAsks
<1>12. CASE ReadUnit
  BY <1>12 DEF ReadUnit
<1>13. CASE ReceiveEnds
  BY <1>13 DEF ReceiveEnds
<1>14. CASE FilesReceived
  BY <1>14 DEF FilesReceived, Again
<1>15. CASE OperationEnds
  BY <1>15 DEF OperationEnds, DeviceAsks
<1>16. CASE Report
  BY <1>16 DEF Report
<1>17. CASE Unlock2
  <2>1. /\ b2Pc = "unlock" /\ b2Pc' = "cleanup" /\ UNCHANGED <<syncHeld, requestSent>>
        /\ syncFinished = FALSE
    BY <1>17 DEF Unlock2
  <2>2. CASE lockfile = "open"
    <3>1. LockedAsKnown /\ (b2Cmd = "backup" <=> requestSent = TRUE)
      BY <2>1, <2>2
    <3>2. syncLock' = "free" /\ (b2Cmd # "backup" => syncFinished' = syncFinished)
      BY <1>17, <2>2, <3>1 DEF Unlock2
    <3>3. syncFinished' = TRUE => b2Cmd = "backup"
      BY <2>1, <3>2, Zenon
    <3> QED
      BY <2>1, <3>1, <3>2, <3>3
  <2>3. CASE lockfile # "open"
    <3>1. syncLock # "ours" /\ syncHeld = FALSE /\ syncHeld' = FALSE /\ syncLock' = syncLock
      BY <1>17, <2>1, <2>3 DEF Unlock2
    <3>2. CASE lockfile = "unset"
      <4>1. b2Cmd = "leave"
        BY <2>1, <3>2
      <4>2. syncFinished' = FALSE
        BY <1>17, <2>1, <3>2, <4>1 DEF Unlock2
      <4> QED
        BY <2>1, <3>1, <4>2
    <3>3. CASE lockfile = "none"
      <4>1. syncFinished' = FALSE
        BY <1>17, <2>1, <3>3 DEF Unlock2
      <4> QED
        BY <2>1, <3>1, <4>1
    <3> QED
      BY <2>3, <3>2, <3>3 DEF Backup2TypeOK
  <2> QED
    BY <2>2, <2>3
<1>18. CASE B2Cleanup
  BY <1>18 DEF B2Cleanup
<1>19. CASE RaiseQuit
  BY <1>19 DEF RaiseQuit
<1>20. CASE OtherUnlocks
  BY <1>20 DEF OtherUnlocks
<1>21. CASE UNCHANGED b2Vars
  BY <1>21 DEF b2Vars
<1> QED
  BY <1>1, <1>2, <1>3, <1>4, <1>5, <1>6, <1>7, <1>8, <1>9, <1>10, <1>11, <1>12, <1>13,
     <1>14, <1>15, <1>16, <1>17, <1>18, <1>19, <1>20, <1>21 DEF Backup2Next, FileCommand

LEMMA B2FilesStep == B2IInv /\ [Backup2Next]_b2Vars => FilesInStep'
<1> SUFFICES ASSUME B2IInv, [Backup2Next]_b2Vars PROVE FilesInStep'
  OBVIOUS
<1> USE DEF B2IInv, FilesInStep, B2Goto, wireVars, LoopUnchanged, lockVars
<1>1. CASE B2Connect
  BY <1>1 DEF B2Connect
<1>2. CASE CheckInfo
  BY <1>2 DEF CheckInfo
<1>3. CASE OpenLockfile
  BY <1>3 DEF OpenLockfile
<1>4. CASE TryLock
  BY <1>4 DEF TryLock
<1>5. CASE LockTimeout
  BY <1>5 DEF LockTimeout
<1>6. CASE PostCrashes
  BY <1>6 DEF PostCrashes
<1>7. CASE SendRequest2
  BY <1>7 DEF SendRequest2
<1>8. CASE NotReady
  BY <1>8 DEF NotReady, Again
<1>9. CASE SendFiles
  BY <1>9 DEF SendFiles, DeviceAsks, Again
<1>10. CASE FileCommand
  BY FileCommands, <1>10 DEF DeviceAsks, Again
<1>11. CASE ReceiveFiles
  <2>1. expects' = "dname" /\ offers' \in {"dname", "end"}
    BY <1>11 DEF ReceiveFiles
  <2>2. InStep(expects, offers)'
    BY <2>1 DEF InStep
  <2> QED
    BY <2>1, <2>2
<1>12. CASE ReadUnit
  <2> SUFFICES ASSUME ~spoiled' PROVE InStep(expects, offers)' /\ (offers' = "data" => fileOpen' = TRUE)
    OBVIOUS
  <2>1. /\ b2Pc = "receive" /\ InStep(expects, offers) /\ offers # "end" /\ fileOpen' \in BOOLEAN
        /\ spoiled' = (spoiled \/ (offers = "code_data" /\ ~fileOpen'))
        /\ expects' = ReadsNext(offers, fileOpen') /\ offers' \in Follows(offers)
        /\ fileOpen \in BOOLEAN /\ offers \in Units
    <3>1. fileOpen \in BOOLEAN /\ fileOpen' \in BOOLEAN
      BY <1>12, B2TypeParts, B2FlagsStep DEF B2Flags, B2IInv
    <3> QED
      BY <1>12, <3>1 DEF ReadUnit, Backup2TypeOK
  <2>2. ~spoiled /\ (offers = "code_data" => fileOpen' = TRUE)
    BY <2>1, Zenon
  <2>3. offers = "data" => expects = "data" /\ fileOpen = TRUE
    BY <2>1, <2>2 DEF InStep
  <2>4. offers = "data" => fileOpen' = TRUE
    BY <1>12, <2>3 DEF ReadUnit
  <2>5. CASE offers \in {"dname", "fname", "code_data", "data", "code_error"}
    <3>1. \/ expects' = offers'
          \/ expects' = "code" /\ offers' \in {"code_data", "code_success", "code_error"}
      BY <2>1, <2>2, <2>4, <2>5 DEF ReadsNext, Follows
    <3>2. offers' = "data" => offers = "code_data"
      BY <2>1, <2>5 DEF Follows
    <3> QED
      BY <2>2, <3>1, <3>2 DEF InStep
  <2>6. CASE offers \notin {"dname", "fname", "code_data", "data", "code_error"}
    <3>1. expects' = "dname" /\ offers' \in {"dname", "end"}
      BY <2>1, <2>6 DEF ReadsNext, Follows
    <3> QED
      BY <3>1 DEF InStep
  <2> QED
    BY <2>5, <2>6
<1>13. CASE ReceiveEnds
  BY <1>13 DEF ReceiveEnds
<1>14. CASE FilesReceived
  BY <1>14 DEF FilesReceived, Again
<1>15. CASE OperationEnds
  BY <1>15 DEF OperationEnds, DeviceAsks
<1>16. CASE Report
  BY <1>16 DEF Report
<1>17. CASE Unlock2
  BY <1>17 DEF Unlock2
<1>18. CASE B2Cleanup
  BY <1>18 DEF B2Cleanup
<1>19. CASE RaiseQuit
  BY <1>19 DEF RaiseQuit
<1>20. CASE OtherUnlocks
  BY <1>20 DEF OtherUnlocks
<1>21. CASE UNCHANGED b2Vars
  BY <1>21 DEF b2Vars
<1> QED
  BY <1>1, <1>2, <1>3, <1>4, <1>5, <1>6, <1>7, <1>8, <1>9, <1>10, <1>11, <1>12, <1>13,
     <1>14, <1>15, <1>16, <1>17, <1>18, <1>19, <1>20, <1>21 DEF Backup2Next, FileCommand

LEMMA B2Primed == (B2Places /\ B2Counts /\ B2Flags /\ B2Stream)' => Backup2TypeOK'
<1>1. (B2Places /\ B2Counts /\ B2Flags /\ B2Stream => Backup2TypeOK)'
  BY B2TypeParts, PTL
<1> QED
  BY <1>1, Zenon

\* The invariant of every behaviour of the tool.
THEOREM B2Invariant == Backup2Spec => []B2IInv
<1>1. B2IInv /\ [Backup2Next]_b2Vars => B2IInv'
  BY B2PlacesStep, B2CountsStep, B2FlagsStep, B2StreamStep, B2LockStep, B2FilesStep, B2Primed DEF B2IInv
<1> QED
  BY B2Initial, <1>1, PTL DEF Backup2Spec

\* On every path through main the tool gives the device's sync lock back before it
\* takes its connections down, asks for a backup under it where the lock file
\* opened, and has the device hear of an end only of a backup under the lock.
THEOREM LockGivenBack == Backup2Spec => []LockReleased
<1>1. B2IInv => LockReleased
  BY DEF B2IInv, Backup2TypeOK, LockInvariant, NoLockYet, LockedAsKnown, LockReleased
<1> QED
  BY B2Invariant, <1>1, PTL

\* The tool reads the unit the device sends as long as nothing has failed
\* (mb2_handle_receive_files).
THEOREM StreamsInStep == Backup2Spec => []StreamInStep
<1>1. B2IInv => StreamInStep
  BY DEF B2IInv, FilesInStep, StreamInStep
<1> QED
  BY B2Invariant, <1>1, PTL

-----------------------------------------------------------------------------
(* Asr: the filesystem is sent whole.                                      *)

AsrPlaces ==
  /\ asrPc \in {"connect", "initiate", "announce", "validate", "open", "payload", "done"}
  /\ asrResult \in {"none", "error", "crashed", "success"}
  /\ asrWire \in {"none", "whole", "split", "rest"}
  /\ asrAsked \in {"none", "initiate", "oob", "payload", "other"}
  /\ deviceAwaits \in {"connection", "nothing", "info", "data", "payload"}
  /\ asrResult = "none" <=> asrPc # "done"
AsrCounts ==
  /\ fileLength \in FileLengths /\ sentBytes \in Nat
  /\ tries \in Nat /\ tries <= (IF asrPc = "connect" THEN ConnectAttempts ELSE ConnectAttempts + PacketTries)
  /\ asrPc \in {"validate", "announce", "initiate"} => tries <= PacketTries
  /\ remaining \in Int /\ -WordSize <= remaining /\ remaining <= WordSize
  /\ askedCount \in Nat /\ askedCount <= MaxAsked

\* The device waits for the payload from when it has asked for it.
PayloadAwaited ==
  /\ asrPc = "connect" => asrAsked = "none" /\ deviceAwaits = "connection"
  /\ asrPc \in {"connect", "initiate", "announce"} =>
       asrAsked = "none" \/ (asrAsked = "initiate" /\ deviceAwaits # "nothing")
  /\ asrAsked = "payload" => deviceAwaits = "payload"
  /\ asrPc \in {"open", "payload"} \/ asrResult = "success" => deviceAwaits = "payload"

\* What was sent and what is left make the image, until nothing is left.
Countable == fileLength < WordSize \div 2
PayloadCounted ==
  /\ asrPc \in {"connect", "initiate", "announce", "validate", "open"} => sentBytes = 0
  /\ asrPc = "payload" /\ Countable =>
       \/ sentBytes + remaining = fileLength /\ remaining >= 0
       \/ sentBytes = fileLength /\ remaining <= 0
  /\ asrResult = "success" /\ Countable => sentBytes = fileLength

AsrIInv == AsrPlaces /\ AsrCounts /\ PayloadAwaited /\ PayloadCounted

LEMMA AsrInitial == AsrInit => AsrIInv
<1> SUFFICES ASSUME AsrInit PROVE AsrIInv
  OBVIOUS
<1>1. /\ ConnectAttempts \in Nat \ {0} /\ WordSize \in Nat /\ MaxAsked \in Nat
  BY AsrBounds
<1>2. AsrPlaces
  BY DEF AsrInit, AsrPlaces
<1>3. AsrCounts
  BY <1>1 DEF AsrInit, AsrCounts
<1>4. PayloadAwaited /\ PayloadCounted
  BY DEF AsrInit, PayloadAwaited, PayloadCounted
<1> QED
  BY <1>2, <1>3, <1>4 DEF AsrIInv

\* A length below half a word is its own value as an int.
LEMMA WordIsLength ==
  ASSUME NEW length \in Nat
  PROVE  /\ AsInt(Word(length)) \in Int
         /\ -WordSize <= AsInt(Word(length)) /\ AsInt(Word(length)) <= WordSize
         /\ length < WordSize \div 2 => AsInt(Word(length)) = length
<1>1. WordSize \in Nat \ {0}
  BY AsrBounds
<1>2. length % WordSize \in 0 .. WordSize - 1
  BY <1>1
<1>3. WordSize \div 2 \in Nat /\ WordSize \div 2 < WordSize
  BY <1>1
<1>4. length < WordSize => length % WordSize = length
  BY <1>1
<1>5. CASE length % WordSize >= WordSize \div 2
  <2>1. AsInt(Word(length)) = (length % WordSize) - WordSize
    BY <1>5 DEF AsInt, Word
  <2>2. ~(length < WordSize \div 2)
    BY <1>1, <1>3, <1>4, <1>5
  <2> QED
    BY <1>1, <1>2, <2>1, <2>2
<1>6. CASE ~(length % WordSize >= WordSize \div 2)
  <2>1. AsInt(Word(length)) = length % WordSize
    BY <1>6 DEF AsInt, Word
  <2>2. length < WordSize \div 2 => length % WordSize = length
    BY <1>1, <1>3, <1>4
  <2> QED
    BY <1>1, <1>2, <2>1, <2>2
<1> QED
  BY <1>5, <1>6

LEMMA AsrPlacesStep == AsrIInv /\ [AsrNext]_asrVars => AsrPlaces'
<1> SUFFICES ASSUME AsrIInv, [AsrNext]_asrVars PROVE AsrPlaces'
  OBVIOUS
<1> USE DEF AsrIInv, AsrPlaces, OutOfBand, AsrReturn, AsrGoto, asrDevice
<1>1. CASE AsrConnect
  BY <1>1 DEF AsrConnect
<1>2. CASE ReceiveInitiate
  BY <1>2 DEF ReceiveInitiate, AsrReceived
<1>3. CASE AnnounceImage
  BY <1>3 DEF AnnounceImage
<1>4. CASE ValidationPacket
  BY <1>4 DEF ValidationPacket, AsrReceived
<1>5. CASE OpenPayload
  BY <1>5 DEF OpenPayload
<1>6. CASE PayloadChunk
  BY <1>6 DEF PayloadChunk
<1>7. CASE PayloadEnds
  BY <1>7 DEF PayloadEnds
<1>8. CASE AsrInitiates
  BY <1>8 DEF AsrInitiates, DeviceMessage
<1>9. CASE AsrAsks
  BY <1>9 DEF AsrAsks, DeviceMessage
<1>10. CASE UNCHANGED asrVars
  BY <1>10 DEF asrVars
<1> QED
  BY <1>1, <1>2, <1>3, <1>4, <1>5, <1>6, <1>7, <1>8, <1>9, <1>10 DEF AsrNext

LEMMA AsrCountsStep == AsrIInv /\ [AsrNext]_asrVars => AsrCounts'
<1> SUFFICES ASSUME AsrIInv, [AsrNext]_asrVars PROVE AsrCounts'
  OBVIOUS
<1> USE DEF AsrIInv, AsrPlaces, AsrCounts, OutOfBand, AsrReturn, AsrGoto, asrDevice
<1>1. /\ ConnectAttempts \in Nat \ {0} /\ PacketTries \in Nat /\ WordSize \in Nat \ {0}
      /\ ChunkSize \in 1 .. WordSize /\ MaxAsked \in Nat /\ FileLengths \subseteq Nat
  BY AsrBounds
<1>2. CASE AsrConnect
  BY <1>1, <1>2 DEF AsrConnect
<1>3. CASE ReceiveInitiate
  BY <1>1, <1>3 DEF ReceiveInitiate, AsrReceived
<1>4. CASE AnnounceImage
  BY <1>1, <1>4 DEF AnnounceImage
<1>5. CASE ValidationPacket
  BY <1>1, <1>5 DEF ValidationPacket, AsrReceived
<1>6. CASE OpenPayload
  <2>1. fileLength \in Nat
    BY AsrBounds
  <2>2. remaining' = remaining \/ remaining' = AsInt(Word(fileLength))
    BY <1>6 DEF OpenPayload
  <2>3. remaining' \in Int /\ -WordSize <= remaining' /\ remaining' <= WordSize
    BY <2>1, <2>2, WordIsLength
  <2>4. tries <= ConnectAttempts + PacketTries /\ asrPc' \in {"done", "payload"}
    BY <1>6 DEF OpenPayload
  <2> QED
    BY <2>3, <2>4, <1>6 DEF OpenPayload
<1>7. CASE PayloadChunk
  <2>1. remaining' = remaining \/ (remaining > 0 /\ remaining' = remaining - ChunkSize)
    BY <1>7 DEF PayloadChunk, MorePayload
  <2>2. remaining' \in Int /\ -WordSize <= remaining' /\ remaining' <= WordSize
    BY <1>1, <2>1
  <2>3. sentBytes' \in Nat
    BY <1>1, <1>7 DEF PayloadChunk, ChunkOf, MorePayload
  <2>4. tries <= ConnectAttempts + PacketTries /\ asrPc' \in {"done", "payload"}
    BY <1>7 DEF PayloadChunk
  <2> QED
    BY <2>2, <2>3, <2>4, <1>7 DEF PayloadChunk
<1>8. CASE PayloadEnds
  BY <1>1, <1>8 DEF PayloadEnds
<1>9. CASE AsrInitiates
  BY <1>1, <1>9 DEF AsrInitiates, DeviceMessage
<1>10. CASE AsrAsks
  BY <1>1, <1>10 DEF AsrAsks, DeviceMessage
<1>11. CASE UNCHANGED asrVars
  BY <1>1, <1>11 DEF asrVars
<1> QED
  BY <1>2, <1>3, <1>4, <1>5, <1>6, <1>7, <1>8, <1>9, <1>10, <1>11 DEF AsrNext

LEMMA AsrAwaitedStep == AsrIInv /\ [AsrNext]_asrVars => PayloadAwaited'
<1> SUFFICES ASSUME AsrIInv, [AsrNext]_asrVars PROVE PayloadAwaited'
  OBVIOUS
<1> USE DEF AsrIInv, AsrPlaces, PayloadAwaited, AsrReturn, AsrGoto, asrDevice
<1>1. CASE AsrConnect
  BY <1>1 DEF AsrConnect
<1>2. CASE ReceiveInitiate
  BY <1>2 DEF ReceiveInitiate, AsrReceived
<1>3. CASE AnnounceImage
  BY <1>3 DEF AnnounceImage
<1>4. CASE ValidationPacket
  BY <1>4 DEF ValidationPacket, AsrReceived
<1>5. CASE OpenPayload
  BY <1>5 DEF OpenPayload
<1>6. CASE PayloadChunk
  BY <1>6 DEF PayloadChunk
<1>7. CASE PayloadEnds
  BY <1>7 DEF PayloadEnds
<1>8. CASE AsrInitiates
  BY <1>8 DEF AsrInitiates, DeviceMessage
<1>9. CASE AsrAsks
  BY <1>9 DEF AsrAsks, DeviceMessage
<1>10. CASE UNCHANGED asrVars
  BY <1>10 DEF asrVars
<1> QED
  BY <1>1, <1>2, <1>3, <1>4, <1>5, <1>6, <1>7, <1>8, <1>9, <1>10 DEF AsrNext

LEMMA AsrCountedStep == AsrIInv /\ [AsrNext]_asrVars => PayloadCounted'
<1> SUFFICES ASSUME AsrIInv, [AsrNext]_asrVars PROVE PayloadCounted'
  OBVIOUS
<1> USE DEF AsrIInv, PayloadCounted, Countable, AsrReturn, AsrGoto, asrDevice
<1>1. CASE AsrConnect
  BY <1>1 DEF AsrConnect
<1>2. CASE ReceiveInitiate
  BY <1>2 DEF ReceiveInitiate, AsrReceived
<1>3. CASE AnnounceImage
  BY <1>3 DEF AnnounceImage
<1>4. CASE ValidationPacket
  BY <1>4 DEF ValidationPacket, AsrReceived
<1>5. CASE OpenPayload
  <2>1. fileLength \in Nat
    BY AsrBounds DEF AsrCounts
  <2>2. UNCHANGED <<fileLength, sentBytes>> /\ sentBytes = 0 /\ asrResult' # "success"
    BY <1>5 DEF OpenPayload, AsrPlaces
  <2>3. asrPc' = "payload" => remaining' = AsInt(Word(fileLength))
    BY <1>5 DEF OpenPayload
  <2>4. asrPc' = "payload" /\ Countable => remaining' = fileLength
    BY <2>1, <2>3, WordIsLength DEF Countable
  <2>5. asrPc' \in {"payload", "done"}
    BY <1>5 DEF OpenPayload
  <2> QED
    BY <2>1, <2>2, <2>4, <2>5
<1>6. CASE PayloadChunk
  <2>1. /\ fileLength \in Nat /\ ChunkSize \in Nat \ {0} /\ remaining \in Int /\ sentBytes \in Nat
    BY AsrBounds DEF AsrCounts
  <2>2. /\ asrPc = "payload" /\ fileLength' = fileLength /\ remaining > 0 /\ asrResult' # "success"
        /\ asrPc' \in {"payload", "done"}
    BY <1>6 DEF PayloadChunk, MorePayload, AsrPlaces
  <2>3. asrPc' = "payload" => sentBytes' = sentBytes + ChunkOf(remaining) /\ remaining' = remaining - ChunkSize
    BY <1>6 DEF PayloadChunk
  <2>4. asrPc' = "payload" /\ Countable =>
          \/ sentBytes' + remaining' = fileLength /\ remaining' >= 0
          \/ sentBytes' = fileLength /\ remaining' <= 0
    BY <2>1, <2>2, <2>3 DEF ChunkOf
  <2> QED
    BY <2>2, <2>4 DEF Countable
<1>7. CASE PayloadEnds
  <2>1. /\ fileLength \in Nat /\ remaining \in Int /\ sentBytes \in Nat
    BY AsrBounds DEF AsrCounts
  <2>2. /\ asrPc = "payload" /\ UNCHANGED <<fileLength, sentBytes>> /\ ~(remaining > 0) /\ asrPc' = "done"
    BY <1>7 DEF PayloadEnds, MorePayload
  <2>3. Countable => sentBytes = fileLength
    BY <2>1, <2>2
  <2> QED
    BY <2>2, <2>3 DEF Countable
<1>8. CASE AsrInitiates
  BY <1>8 DEF AsrInitiates, DeviceMessage
<1>9. CASE AsrAsks
  BY <1>9 DEF AsrAsks, DeviceMessage
<1>10. CASE UNCHANGED asrVars
  BY <1>10 DEF asrVars
<1> QED
  BY <1>1, <1>2, <1>3, <1>4, <1>5, <1>6, <1>7, <1>8, <1>9, <1>10 DEF AsrNext

\* The invariant of every behaviour of the restore's part.
THEOREM AsrInvariant == AsrSpec => []AsrIInv
<1>1. AsrIInv /\ [AsrNext]_asrVars => AsrIInv'
  BY AsrPlacesStep, AsrCountsStep, AsrAwaitedStep, AsrCountedStep DEF AsrIInv
<1> QED
  BY AsrInitial, <1>1, PTL DEF AsrSpec

\* A restore that reports the filesystem as sent has sent every byte of it, to a
\* device that had asked for it.
THEOREM ImageArrives == AsrSpec => []ImageSentWhole
<1>1. AsrIInv => ImageSentWhole
  BY DEF AsrIInv, PayloadAwaited, PayloadCounted, Countable, ImageSentWhole
<1> QED
  BY AsrInvariant, <1>1, PTL

-----------------------------------------------------------------------------
(* IBoot: what is sent in packets arrives whole.                           *)

\* The bytes of the first packets.
Moved(i, length, packet) == IF i < Packets(length, packet) THEN i * packet ELSE length

IbPlaces ==
  /\ ibPc \in {"idle", "open", "script", "send", "receive"}
  /\ context \in {"none", "live", "exited"} /\ ibClient \in {"none", "open"}
  /\ ibMode \in IbModes /\ handleGood \in BOOLEAN /\ finish \in BOOLEAN
  /\ plugged \in IbModes \cup {"none"} /\ ibOp \in {"send", "receive", "other"}
  /\ ibPc = "send" => ibOp = "send"
  /\ ibPc = "receive" => ibOp = "receive"
  /\ ibPc \in {"open", "script"} => ibOp = "other"
  /\ ibPc \in {"script", "send", "receive"} => ibClient = "open"
IbCallbacks ==
  /\ callbacks \subseteq IbEvents
  /\ ibClient = "none" /\ ibPc = "idle" => callbacks = {}
IbCounts ==
  /\ ibCalls \in Nat /\ ibCalls <= MaxIbCalls
  /\ attemptsLeft \in Nat /\ attemptsLeft <= OpenAttempts
  /\ ibPc = "open" => attemptsLeft # 0
  /\ lines \in 0 .. 2

\* A transfer has moved the packets it has counted.
IbPackets ==
  /\ ibLength \in BufferLengths \cup {0} /\ ibCount \in Nat
  /\ devGot \in Nat /\ hostGot \in Nat
  /\ ibCount <= Packets(ibLength, PacketSize)
  /\ ibPc = "send" => devGot = Moved(ibCount, ibLength, PacketSize)
  /\ ibPc = "receive" => /\ ibCount <= Packets(ibLength, ReceiveSize)
                         /\ hostGot = Moved(ibCount, ibLength, ReceiveSize)

IbIInv == IbPlaces /\ IbCallbacks /\ IbCounts /\ IbPackets /\ UploadHonest

LEMMA IbSizes ==
  ASSUME NEW length \in BufferLengths \cup {0}
  PROVE  length \in Nat /\ PacketSize \in Nat \ {0} /\ ReceiveSize \in Nat \ {0}
                         /\ ReceiveSize \in {PacketSize, 4 * PacketSize}
BY IBootBounds DEF ReceiveSize

LEMMA Quotient ==
  ASSUME NEW n \in Nat, NEW p \in Nat \ {0}
  PROVE  \E q \in Nat, r \in 0 .. p - 1 : n \div p = q /\ n % p = r /\ n = q * p + r
<1>1. n - p * (n \div p) = n % p /\ n \div p \in Nat /\ n % p \in 0 .. p - 1
  BY TRUE
<1>2. PICK q \in Nat, r \in 0 .. p - 1 : n \div p = q /\ n % p = r
  BY <1>1
<1>3. n - p * q = r
  BY <1>1, <1>2
<1>4. p * q \in Nat /\ p * q = q * p
  OBVIOUS
<1>5. n = q * p + r
  BY <1>3, <1>4
<1> QED
  BY <1>2, <1>5

\* One more packet, up to the last, which is what the others leave.
LEMMA PacketsAddUp ==
  ASSUME NEW length \in Nat, NEW packet \in Nat \ {0}
  PROVE  /\ Packets(length, packet) \in Nat
         /\ Moved(0, length, packet) = 0
         /\ Moved(Packets(length, packet), length, packet) = length
         /\ \A i \in Nat : i < Packets(length, packet) =>
              /\ PacketBytes(i, length, packet) \in Nat
              /\ Moved(i + 1, length, packet) = Moved(i, length, packet) + PacketBytes(i, length, packet)
<1>1. PICK q \in Nat, r \in 0 .. packet - 1 :
        length \div packet = q /\ length % packet = r /\ length = q * packet + r
  BY Quotient
<1>2. /\ Packets(length, packet) = (IF r # 0 THEN q + 1 ELSE q)
      /\ Last(length, packet) = (IF r # 0 THEN r ELSE packet)
  BY <1>1 DEF Packets, Last
<1>3. 0 * packet = 0 /\ \A i \in Nat : i * packet \in Nat /\ (i + 1) * packet = i * packet + packet
  BY Products
<1>4. Packets(length, packet) \in Nat
  BY <1>2
<1>5. Moved(0, length, packet) = 0
  <2>1. CASE 0 < Packets(length, packet)
    BY <1>3, <2>1 DEF Moved
  <2>2. CASE ~(0 < Packets(length, packet))
    <3>1. q = 0 /\ r = 0
      BY <1>2, <2>2
    <3> QED
      BY <1>1, <1>3, <2>2, <3>1 DEF Moved
  <2> QED
    BY <2>1, <2>2
<1>6. Moved(Packets(length, packet), length, packet) = length
  BY <1>4 DEF Moved
<1>7. ASSUME NEW i \in Nat, i < Packets(length, packet)
      PROVE  /\ PacketBytes(i, length, packet) \in Nat
             /\ Moved(i + 1, length, packet) = Moved(i, length, packet) + PacketBytes(i, length, packet)
  <2>1. Moved(i, length, packet) = i * packet
    BY <1>7 DEF Moved
  <2>2. CASE i + 1 < Packets(length, packet)
    <3>1. PacketBytes(i, length, packet) = packet /\ Moved(i + 1, length, packet) = (i + 1) * packet
      BY <2>2 DEF PacketBytes, Moved
    <3>2. (i + 1) * packet = i * packet + packet
      BY <1>3
    <3> QED
      BY <2>1, <3>1, <3>2
  <2>3. CASE ~(i + 1 < Packets(length, packet))
    <3>1. PacketBytes(i, length, packet) = Last(length, packet) /\ Moved(i + 1, length, packet) = length
      BY <2>3 DEF PacketBytes, Moved
    <3>2. i + 1 = Packets(length, packet)
      BY <1>4, <1>7, <2>3
    <3>3. CASE r # 0
      <4>1. i = q
        BY <1>2, <3>2, <3>3
      <4>2. length = i * packet + r /\ Last(length, packet) = r
        BY <1>1, <1>2, <3>3, <4>1
      <4> QED
        BY <2>1, <3>1, <4>2
    <3>4. CASE r = 0
      <4>1. q = i + 1
        BY <1>2, <3>2, <3>4
      <4>2. length = (i + 1) * packet /\ Last(length, packet) = packet
        <5>1. length = q * packet
          <6>1. q * packet \in Nat
            BY <1>3
          <6> QED
            BY <1>1, <3>4, <6>1
        <5> QED
          BY <1>2, <3>4, <4>1, <5>1
      <4>3. (i + 1) * packet = i * packet + packet
        BY <1>3
      <4> QED
        BY <2>1, <3>1, <4>2, <4>3
    <3> QED
      BY <3>3, <3>4
  <2> QED
    BY <2>2, <2>3
<1> QED
  BY <1>4, <1>5, <1>6, <1>7

\* Larger packets are no more.
LEMMA FewerPackets ==
  ASSUME NEW length \in Nat, NEW packet \in Nat \ {0}
  PROVE  Packets(length, 4 * packet) <= Packets(length, packet)
<1>1. PICK q \in Nat, r \in 0 .. packet - 1 :
        length \div packet = q /\ length % packet = r /\ length = q * packet + r
  BY Quotient
<1>2. PICK s \in Nat, t \in 0 .. 4 * packet - 1 :
        length \div (4 * packet) = s /\ length % (4 * packet) = t /\ length = s * (4 * packet) + t
  BY Quotient
<1>3. /\ Packets(length, packet) = (IF r # 0 THEN q + 1 ELSE q)
      /\ Packets(length, 4 * packet) = (IF t # 0 THEN s + 1 ELSE s)
  BY <1>1, <1>2 DEF Packets
<1>4. s * (4 * packet) = (4 * s) * packet /\ (4 * s) * packet \in Nat /\ q * packet \in Nat
  OBVIOUS
<1>5. (4 * s) * packet <= q * packet + r
  BY <1>1, <1>2, <1>4
<1>6. 4 * s <= q
  <2>1. SUFFICES ASSUME q + 1 <= 4 * s PROVE FALSE
    OBVIOUS
  <2>2. (q + 1) * packet <= (4 * s) * packet
    BY <2>1
  <2>3. (q + 1) * packet = q * packet + packet
    BY Products
  <2> QED
    BY <1>4, <1>5, <2>2, <2>3
<1>7. s = 0 /\ q = 0 /\ t # 0 => r # 0
  BY <1>1, <1>2
<1> QED
  BY <1>3, <1>6, <1>7

\* A call that leaves the client and its transfers as they are.
Answering == IrecvCommand \/ IrecvReceive \/ IrecvGetenv \/ IrecvSetenv \/ IrecvIdentify
LEMMA AnsweringCalls ==
  ASSUME Answering
  PROVE  /\ IbCalls("other") /\ ibPc' = "idle"
         /\ UNCHANGED <<clientVars, handleGood, lines, plugged, transferVars>>
<1>1. \A results : Answers(results) =>
        /\ IbCalls("other") /\ ibPc' = "idle"
        /\ UNCHANGED <<clientVars, handleGood, lines, plugged, transferVars>>
  BY Zenon DEF Answers, IbReturn
<1>2. ASSUME IrecvCommand PROVE \E results : Answers(results)
  <2>1. Answers({"SUCCESS"})
    BY <1>2 DEF IrecvCommand
  <2> QED
    BY <2>1, Zenon
<1>3. ASSUME IrecvReceive PROVE \E results : Answers(results)
  <2>1. Answers({"SUCCESS"})
    BY <1>3 DEF IrecvReceive
  <2> QED
    BY <2>1, Zenon
<1>4. ASSUME IrecvGetenv \/ IrecvSetenv PROVE \E results : Answers(results)
  <2>1. Answers({"SUCCESS", "UNKNOWN_ERROR"})
    BY <1>4 DEF IrecvGetenv, IrecvSetenv
  <2> QED
    BY <2>1, Zenon
<1>5. ASSUME IrecvIdentify PROVE \E results : Answers(results)
  <2> DEFINE named == {"SUCCESS", "UNKNOWN_ERROR"}
          \cup UNION {DevicesOf(chip, board) : chip \in {"8900", "8920", "8950"}, board \in {0, 3}}
  <2>1. Answers(named)
    BY <1>5 DEF IrecvIdentify
  <2> HIDE DEF named
  <2> QED
    BY <2>1, Zenon
<1> QED
  BY <1>1, <1>2, <1>3, <1>4, <1>5, Zenon DEF Answering

LEMMA PacketIsSent ==
  ASSUME SendPacket
  PROVE  /\ ibPc = "send" /\ ibCount < Packets(ibLength, PacketSize)
         /\ UNCHANGED <<ibCalls, ibOp, context, ibClient, ibMode, callbacks, attemptsLeft, handleGood,
                        lines, plugged, ibLength, finish, hostGot>>
         /\ \/ /\ ibPc' = "idle" /\ ibResult' # "SUCCESS" /\ ibCount' = ibCount
               /\ LET size == PacketBytes(ibCount, ibLength, PacketSize)
                  IN devGot' \in {devGot + size} \cup devGot .. devGot + size
            \/ /\ ibPc' = ibPc /\ ibResult' = ibResult /\ ibCount' = ibCount + 1
               /\ devGot' = devGot + PacketBytes(ibCount, ibLength, PacketSize)
<1>1. /\ ibPc = "send" /\ ibCount < Packets(ibLength, PacketSize)
      /\ UNCHANGED <<ibCalls, ibOp, context, ibClient, ibMode, callbacks, attemptsLeft, handleGood,
                     lines, plugged, ibLength, finish, hostGot>>
  BY DEF SendPacket, clientVars
<1> DEFINE size == PacketBytes(ibCount, ibLength, PacketSize)
<1>2. PICK ok \in BOOLEAN, answered \in BOOLEAN, state \in {2, 5} :
        LET dfu == ibMode = "dfu"
            got == GetStatus(answered, state)
        IN /\ devGot' \in (IF ok THEN {devGot + size} ELSE devGot .. devGot + size)
           /\ CASE ~ok -> IbReturn("USB_UPLOAD") /\ UNCHANGED ibCount
                [] ok /\ dfu /\ got.error # "SUCCESS" -> IbReturn(got.error) /\ UNCHANGED ibCount
                [] ok /\ dfu /\ got.error = "SUCCESS" /\ got.status # 5 ->
                     IbReturn("USB_UPLOAD") /\ UNCHANGED ibCount
                [] OTHER -> ibCount' = ibCount + 1 /\ UNCHANGED <<ibPc, ibResult>>
  <2>1. Transfers \subseteq BOOLEAN
    BY DEF Transfers
  <2> QED
    BY <2>1 DEF SendPacket
<1> HIDE DEF size
<1>3. CASE ibPc' = "idle" /\ ibResult' # "SUCCESS" /\ ibCount' = ibCount
  <2>1. devGot' \in {devGot + size} \cup devGot .. devGot + size
    BY <1>2, Zenon
  <2> QED
    BY <1>1, <1>3, <2>1, Zenon DEF size
<1>4. CASE ~(ibPc' = "idle" /\ ibResult' # "SUCCESS" /\ ibCount' = ibCount)
  <2>1. ok /\ ibCount' = ibCount + 1 /\ UNCHANGED <<ibPc, ibResult>>
    BY <1>2, <1>4 DEF IbReturn
  <2>2. devGot' = devGot + size
    BY <1>2, <2>1
  <2> QED
    BY <1>1, <2>1, <2>2 DEF size
<1> QED
  BY <1>3, <1>4

LEMMA PacketIsReceived ==
  ASSUME ReceivePacket
  PROVE  /\ ibPc = "receive" /\ ibCount < Packets(ibLength, ReceiveSize)
         /\ UNCHANGED <<ibCalls, ibOp, context, ibClient, ibMode, callbacks, attemptsLeft, handleGood,
                        lines, plugged, ibLength, finish, devGot>>
         /\ \/ ibPc' = "idle" /\ ibResult' # "SUCCESS" /\ ibCount' = ibCount /\ hostGot' = hostGot
            \/ /\ ibPc' = ibPc /\ ibResult' = ibResult /\ ibCount' = ibCount + 1
               /\ hostGot' = hostGot + PacketBytes(ibCount, ibLength, ReceiveSize)
BY DEF ReceivePacket, clientVars, IbReturn

LEMMA IbInitial == IBootInit => IbIInv
<1> SUFFICES ASSUME IBootInit PROVE IbIInv
  OBVIOUS
<1>1. IbPlaces /\ IbCallbacks
  BY DEF IBootInit, IbPlaces, IbCallbacks, IbModes
<1>2. IbCounts
  BY IBootBounds DEF IBootInit, IbCounts
<1>3. Packets(0, PacketSize) \in Nat
  BY IBootBounds, PacketsAddUp
<1>4. IbPackets
  BY <1>3 DEF IBootInit, IbPackets
<1>5. UploadHonest
  BY DEF IBootInit, UploadHonest
<1> QED
  BY <1>1, <1>2, <1>4, <1>5 DEF IbIInv

LEMMA IbPlacesStep == IbIInv /\ [IBootNext]_ibVars => IbPlaces'
<1> SUFFICES ASSUME IbIInv, [IBootNext]_ibVars PROVE IbPlaces'
  OBVIOUS
<1> USE DEF IbIInv, IbPlaces, IbModes, IbCalls, IbReturn, CheckContext, clientVars, transferVars
<1>1. CASE IrecvInit
  BY <1>1 DEF IrecvInit
<1>2. CASE IrecvExit
  BY <1>2 DEF IrecvExit
<1>3. CASE IrecvOpen
  BY <1>3 DEF IrecvOpen
<1>4. CASE OpenAttempt
  BY <1>4 DEF OpenAttempt
<1>5. CASE IrecvSubscribe
  BY <1>5 DEF IrecvSubscribe
<1>6. CASE IrecvClose
  BY <1>6 DEF IrecvClose
<1>7. CASE IrecvReconnect
  BY <1>7 DEF IrecvReconnect
<1>8. CASE IrecvReset
  BY <1>8 DEF IrecvReset
<1>9. CASE Answering
  BY AnsweringCalls, <1>9 DEF CheckContext
<1>10. CASE IrecvScript
  BY <1>10 DEF IrecvScript
<1>11. CASE ScriptLine
  BY <1>11 DEF ScriptLine
<1>12. CASE IrecvSendBuffer
  BY <1>12 DEF IrecvSendBuffer
<1>13. CASE SendPacket
  BY <1>13, PacketIsSent
<1>14. CASE SendEnds
  BY <1>14 DEF SendEnds
<1>15. CASE IrecvReceiveBuffer
  BY <1>15 DEF IrecvReceiveBuffer
<1>16. CASE ReceivePacket
  BY <1>16, PacketIsReceived
<1>17. CASE ReceiveBufferEnds
  BY <1>17 DEF ReceiveBufferEnds
<1>18. CASE FinishTransfer
  BY <1>18 DEF FinishTransfer
<1>19. CASE Unplug
  BY <1>19 DEF Unplug
<1>20. CASE Plug
  BY <1>20 DEF Plug
<1>21. CASE UNCHANGED ibVars
  BY <1>21 DEF ibVars
<1> QED
  BY <1>1, <1>2, <1>3, <1>4, <1>5, <1>6, <1>7, <1>8, <1>9, <1>10, <1>11, <1>12,
     <1>13, <1>14, <1>15, <1>16, <1>17, <1>18, <1>19, <1>20, <1>21 DEF IBootNext,
     Answering

LEMMA IbCallbacksStep == IbIInv /\ [IBootNext]_ibVars => IbCallbacks'
<1> SUFFICES ASSUME IbIInv, [IBootNext]_ibVars PROVE IbCallbacks'
  OBVIOUS
<1> USE DEF IbIInv, IbPlaces, IbCallbacks, IbCalls, IbReturn, CheckContext, clientVars, transferVars
<1>1. CASE IrecvInit
  BY <1>1 DEF IrecvInit
<1>2. CASE IrecvExit
  BY <1>2 DEF IrecvExit
<1>3. CASE IrecvOpen
  BY <1>3 DEF IrecvOpen
<1>4. CASE OpenAttempt
  BY <1>4 DEF OpenAttempt
<1>5. CASE IrecvSubscribe
  <2>1. PICK event \in IbEvents : callbacks' \in {callbacks \cup FallsTo(event), callbacks \ FallsTo(event)}
    BY <1>5 DEF IrecvSubscribe
  <2>2. FallsTo(event) \subseteq IbEvents
    BY DEF FallsTo, IbEvents
  <2>3. callbacks' \subseteq IbEvents
    BY <2>1, <2>2
  <2>4. ibClient' = "open"
    BY <1>5 DEF IrecvSubscribe
  <2> QED
    BY <2>3, <2>4
<1>6. CASE IrecvClose
  BY <1>6 DEF IrecvClose
<1>7. CASE IrecvReconnect
  BY <1>7 DEF IrecvReconnect
<1>8. CASE IrecvReset
  BY <1>8 DEF IrecvReset
<1>9. CASE Answering
  BY AnsweringCalls, <1>9 DEF CheckContext
<1>10. CASE IrecvScript
  BY <1>10 DEF IrecvScript
<1>11. CASE ScriptLine
  BY <1>11 DEF ScriptLine
<1>12. CASE IrecvSendBuffer
  BY <1>12 DEF IrecvSendBuffer
<1>13. CASE SendPacket
  BY <1>13, PacketIsSent
<1>14. CASE SendEnds
  BY <1>14 DEF SendEnds
<1>15. CASE IrecvReceiveBuffer
  BY <1>15 DEF IrecvReceiveBuffer
<1>16. CASE ReceivePacket
  BY <1>16, PacketIsReceived
<1>17. CASE ReceiveBufferEnds
  BY <1>17 DEF ReceiveBufferEnds
<1>18. CASE FinishTransfer
  BY <1>18 DEF FinishTransfer
<1>19. CASE Unplug
  BY <1>19 DEF Unplug
<1>20. CASE Plug
  BY <1>20 DEF Plug
<1>21. CASE UNCHANGED ibVars
  BY <1>21 DEF ibVars
<1> QED
  BY <1>1, <1>2, <1>3, <1>4, <1>5, <1>6, <1>7, <1>8, <1>9, <1>10, <1>11, <1>12,
     <1>13, <1>14, <1>15, <1>16, <1>17, <1>18, <1>19, <1>20, <1>21 DEF IBootNext,
     Answering

LEMMA IbCountsStep == IbIInv /\ [IBootNext]_ibVars => IbCounts'
<1> SUFFICES ASSUME IbIInv, [IBootNext]_ibVars PROVE IbCounts'
  OBVIOUS
<1> USE DEF IbIInv, IbPlaces, IbCounts, IbCalls, IbReturn, CheckContext, clientVars, transferVars
<1>1. OpenAttempts \in Nat \ {0} /\ MaxIbCalls \in Nat
  BY IBootBounds
<1>2. CASE IrecvInit
  BY <1>1, <1>2 DEF IrecvInit
<1>3. CASE IrecvExit
  BY <1>1, <1>3 DEF IrecvExit
<1>4. CASE IrecvOpen
  BY <1>1, <1>4 DEF IrecvOpen
<1>5. CASE OpenAttempt
  BY <1>1, <1>5 DEF OpenAttempt
<1>6. CASE IrecvSubscribe
  BY <1>1, <1>6 DEF IrecvSubscribe
<1>7. CASE IrecvClose
  BY <1>1, <1>7 DEF IrecvClose
<1>8. CASE IrecvReconnect
  BY <1>1, <1>8 DEF IrecvReconnect
<1>9. CASE IrecvReset
  BY <1>1, <1>9 DEF IrecvReset
<1>10. CASE Answering
  BY <1>1, AnsweringCalls, <1>10 DEF CheckContext
<1>11. CASE IrecvScript
  BY <1>1, <1>11 DEF IrecvScript
<1>12. CASE ScriptLine
  BY <1>1, <1>12 DEF ScriptLine
<1>13. CASE IrecvSendBuffer
  BY <1>1, <1>13 DEF IrecvSendBuffer
<1>14. CASE SendPacket
  BY <1>14, PacketIsSent
<1>15. CASE SendEnds
  BY <1>1, <1>15 DEF SendEnds
<1>16. CASE IrecvReceiveBuffer
  BY <1>1, <1>16 DEF IrecvReceiveBuffer
<1>17. CASE ReceivePacket
  BY <1>17, PacketIsReceived
<1>18. CASE ReceiveBufferEnds
  BY <1>1, <1>18 DEF ReceiveBufferEnds
<1>19. CASE FinishTransfer
  BY <1>1, <1>19 DEF FinishTransfer
<1>20. CASE Unplug
  BY <1>1, <1>20 DEF Unplug
<1>21. CASE Plug
  BY <1>1, <1>21 DEF Plug
<1>22. CASE UNCHANGED ibVars
  BY <1>1, <1>22 DEF ibVars
<1> QED
  BY <1>2, <1>3, <1>4, <1>5, <1>6, <1>7, <1>8, <1>9, <1>10, <1>11, <1>12, <1>13,
     <1>14, <1>15, <1>16, <1>17, <1>18, <1>19, <1>20, <1>21, <1>22 DEF IBootNext,
     Answering

LEMMA IbPacketsStep == IbIInv /\ [IBootNext]_ibVars => IbPackets'
<1> SUFFICES ASSUME IbIInv, [IBootNext]_ibVars PROVE IbPackets'
  OBVIOUS
<1> USE DEF IbIInv, IbPlaces, IbPackets, IbCalls, IbReturn, CheckContext, clientVars, transferVars
<1>1. CASE IrecvInit
  BY <1>1 DEF IrecvInit
<1>2. CASE IrecvExit
  BY <1>2 DEF IrecvExit
<1>3. CASE IrecvOpen
  BY <1>3 DEF IrecvOpen
<1>4. CASE OpenAttempt
  BY <1>4 DEF OpenAttempt
<1>5. CASE IrecvSubscribe
  BY <1>5 DEF IrecvSubscribe
<1>6. CASE IrecvClose
  BY <1>6 DEF IrecvClose
<1>7. CASE IrecvReconnect
  BY <1>7 DEF IrecvReconnect
<1>8. CASE IrecvReset
  BY <1>8 DEF IrecvReset
<1>9. CASE Answering
  BY AnsweringCalls, <1>9 DEF CheckContext
<1>10. CASE IrecvScript
  BY <1>10 DEF IrecvScript
<1>11. CASE ScriptLine
  BY <1>11 DEF ScriptLine
<1>12. CASE IrecvSendBuffer
  <2>1. /\ ibPc' \in {"idle", "send"} /\ ibLength' \in BufferLengths \cup {0} /\ ibCount' = 0
        /\ hostGot' = hostGot /\ devGot' \in {0, devGot} /\ (ibPc' = "send" => devGot' = 0)
    BY <1>12 DEF IrecvSendBuffer
  <2>2. Packets(ibLength', PacketSize) \in Nat /\ Moved(0, ibLength', PacketSize) = 0
    BY <2>1, IbSizes, PacketsAddUp
  <2> QED
    BY <2>1, <2>2
<1>13. CASE SendPacket
  <2>1. ibLength \in Nat /\ PacketSize \in Nat \ {0}
    BY IbSizes
  <2>2. /\ PacketBytes(ibCount, ibLength, PacketSize) \in Nat
        /\ Moved(ibCount + 1, ibLength, PacketSize)
             = Moved(ibCount, ibLength, PacketSize) + PacketBytes(ibCount, ibLength, PacketSize)
        /\ Packets(ibLength, PacketSize) \in Nat
    BY <1>13, <2>1, PacketIsSent, PacketsAddUp
  <2>3. CASE ibPc' = "idle"
    <3>1. devGot' \in Nat
      BY <1>13, <2>2, <2>3, PacketIsSent
    <3>2. ibCount' = ibCount
      BY <1>13, <2>3, PacketIsSent
    <3> QED
      BY <1>13, <2>3, <3>1, <3>2, PacketIsSent
  <2>4. CASE ibPc' # "idle"
    <3>1. /\ ibPc' = "send" /\ ibCount' = ibCount + 1 /\ UNCHANGED <<ibLength, hostGot>>
          /\ devGot' = devGot + PacketBytes(ibCount, ibLength, PacketSize)
      BY <1>13, <2>4, PacketIsSent
    <3>2. ibCount' \in Nat /\ ibCount' <= Packets(ibLength, PacketSize) /\ devGot' \in Nat
      BY <1>13, <2>2, <3>1, PacketIsSent
    <3> QED
      BY <1>13, <2>2, <3>1, <3>2, PacketIsSent
  <2> QED
    BY <2>3, <2>4
<1>14. CASE SendEnds
  BY <1>14 DEF SendEnds
<1>15. CASE IrecvReceiveBuffer
  <2>1. CASE ibPc' = "idle"
    BY <1>15, <2>1 DEF IrecvReceiveBuffer
  <2>2. CASE ibPc' # "idle"
    <3>1. /\ ibPc' = "receive" /\ ibLength' \in BufferLengths \cup {0} /\ ibCount' = 0
          /\ hostGot' = 0 /\ devGot' = devGot /\ ibMode' = ibMode
      BY <1>15, <2>2 DEF IrecvReceiveBuffer
    <3>2. ReceiveSize' = ReceiveSize
      BY <3>1 DEF ReceiveSize
    <3>3. /\ Packets(ibLength', PacketSize) \in Nat /\ Packets(ibLength', ReceiveSize) \in Nat
          /\ Moved(0, ibLength', ReceiveSize) = 0
      BY <3>1, IbSizes, PacketsAddUp
    <3> QED
      BY <3>1, <3>2, <3>3
  <2> QED
    BY <2>1, <2>2
<1>16. CASE ReceivePacket
  <2>1. ibLength \in Nat /\ PacketSize \in Nat \ {0} /\ ReceiveSize \in Nat \ {0}
        /\ ReceiveSize \in {PacketSize, 4 * PacketSize}
    BY IbSizes
  <2>2. /\ PacketBytes(ibCount, ibLength, ReceiveSize) \in Nat
        /\ Moved(ibCount + 1, ibLength, ReceiveSize)
             = Moved(ibCount, ibLength, ReceiveSize) + PacketBytes(ibCount, ibLength, ReceiveSize)
        /\ Packets(ibLength, ReceiveSize) \in Nat /\ Packets(ibLength, PacketSize) \in Nat
    BY <1>16, <2>1, PacketIsReceived, PacketsAddUp
  <2>3. Packets(ibLength, ReceiveSize) <= Packets(ibLength, PacketSize)
    BY <2>1, <2>2, FewerPackets
  <2>4. ReceiveSize' = ReceiveSize
    BY <1>16, PacketIsReceived DEF ReceiveSize
  <2>5. CASE ibPc' = "idle"
    BY <1>16, <2>5, PacketIsReceived
  <2>6. CASE ibPc' # "idle"
    <3>1. /\ ibPc' = "receive" /\ ibCount' = ibCount + 1 /\ UNCHANGED <<ibLength, devGot>>
          /\ hostGot' = hostGot + PacketBytes(ibCount, ibLength, ReceiveSize)
          /\ ibCount < Packets(ibLength, ReceiveSize)
      BY <1>16, <2>6, PacketIsReceived
    <3>2. /\ ibCount' \in Nat /\ ibCount' <= Packets(ibLength, ReceiveSize)
          /\ ibCount' <= Packets(ibLength, PacketSize) /\ hostGot' \in Nat
      BY <2>2, <2>3, <3>1
    <3>3. hostGot' = Moved(ibCount', ibLength, ReceiveSize)
      BY <2>2, <3>1, PacketIsReceived, <1>16
    <3> QED
      BY <2>4, <3>1, <3>2, <3>3
  <2> QED
    BY <2>5, <2>6
<1>17. CASE ReceiveBufferEnds
  BY <1>17 DEF ReceiveBufferEnds
<1>18. CASE FinishTransfer
  BY <1>18 DEF FinishTransfer
<1>19. CASE Unplug
  <2>1. UNCHANGED <<ibPc, ibMode, ibLength, ibCount, devGot, hostGot>>
    BY <1>19 DEF Unplug
  <2>2. ReceiveSize' = ReceiveSize
    BY <2>1 DEF ReceiveSize
  <2> QED
    BY <2>1, <2>2, Zenon
<1>20. CASE Plug
  <2>1. UNCHANGED <<ibPc, ibMode, ibLength, ibCount, devGot, hostGot>>
    BY <1>20 DEF Plug
  <2>2. ReceiveSize' = ReceiveSize
    BY <2>1 DEF ReceiveSize
  <2> QED
    BY <2>1, <2>2, Zenon
<1>21. CASE UNCHANGED ibVars
  <2>1. UNCHANGED <<ibPc, ibMode, ibLength, ibCount, devGot, hostGot>>
    BY <1>21 DEF ibVars
  <2>2. ReceiveSize' = ReceiveSize
    BY <2>1 DEF ReceiveSize
  <2> QED
    BY <2>1, <2>2, Zenon
<1> QED
  BY <1>1, <1>2, <1>3, <1>4, <1>5, <1>6, <1>7, <1>8, <1>9, <1>10, <1>11, <1>12,
     <1>13, <1>14, <1>15, <1>16, <1>17, <1>18, <1>19, <1>20, <1>21 DEF IBootNext,
     Answering

LEMMA IbHonestStep == IbIInv /\ [IBootNext]_ibVars => UploadHonest'
<1> SUFFICES ASSUME IbIInv, [IBootNext]_ibVars PROVE UploadHonest'
  OBVIOUS
<1> USE DEF IbIInv, IbPlaces, UploadHonest, IbCalls, IbReturn, CheckContext, clientVars, transferVars
<1>1. CASE IrecvInit
  BY <1>1 DEF IrecvInit
<1>2. CASE IrecvExit
  BY <1>2 DEF IrecvExit
<1>3. CASE IrecvOpen
  BY <1>3 DEF IrecvOpen
<1>4. CASE OpenAttempt
  BY <1>4 DEF OpenAttempt
<1>5. CASE IrecvSubscribe
  BY <1>5 DEF IrecvSubscribe
<1>6. CASE IrecvClose
  BY <1>6 DEF IrecvClose
<1>7. CASE IrecvReconnect
  BY <1>7 DEF IrecvReconnect
<1>8. CASE IrecvReset
  BY <1>8 DEF IrecvReset
<1>9. CASE Answering
  BY AnsweringCalls, <1>9 DEF CheckContext
<1>10. CASE IrecvScript
  BY <1>10 DEF IrecvScript
<1>11. CASE ScriptLine
  BY <1>11 DEF ScriptLine
<1>12. CASE IrecvSendBuffer
  BY <1>12 DEF IrecvSendBuffer
<1>13. CASE SendPacket
  BY <1>13, PacketIsSent
<1>14. CASE SendEnds
  <2>1. ibLength \in Nat /\ PacketSize \in Nat \ {0}
    BY IbSizes DEF IbPackets
  <2>2. devGot = ibLength
    BY <1>14, <2>1, PacketsAddUp DEF SendEnds, IbPackets
  <2>3. ibOp = "send" /\ UNCHANGED <<ibOp, devGot, ibLength>>
    BY <1>14 DEF SendEnds, IbPlaces
  <2> QED
    BY <2>2, <2>3
<1>15. CASE IrecvReceiveBuffer
  BY <1>15 DEF IrecvReceiveBuffer
<1>16. CASE ReceivePacket
  BY <1>16, PacketIsReceived
<1>17. CASE ReceiveBufferEnds
  <2>1. ibLength \in Nat /\ ReceiveSize \in Nat \ {0}
    BY IbSizes DEF IbPackets
  <2>2. hostGot = ibLength
    BY <1>17, <2>1, PacketsAddUp DEF ReceiveBufferEnds, IbPackets
  <2>3. ibOp = "receive" /\ UNCHANGED <<ibOp, hostGot, ibLength>>
    BY <1>17 DEF ReceiveBufferEnds, IbPlaces
  <2> QED
    BY <2>2, <2>3
<1>18. CASE FinishTransfer
  BY <1>18 DEF FinishTransfer
<1>19. CASE Unplug
  BY <1>19 DEF Unplug
<1>20. CASE Plug
  BY <1>20 DEF Plug
<1>21. CASE UNCHANGED ibVars
  BY <1>21 DEF ibVars
<1> QED
  BY <1>1, <1>2, <1>3, <1>4, <1>5, <1>6, <1>7, <1>8, <1>9, <1>10, <1>11, <1>12,
     <1>13, <1>14, <1>15, <1>16, <1>17, <1>18, <1>19, <1>20, <1>21 DEF IBootNext,
     Answering

\* The invariant of every behaviour of the library and the cable.
THEOREM IbInvariant == IBootSpec => []IbIInv
<1>1. IbIInv /\ [IBootNext]_ibVars => IbIInv'
  BY IbPlacesStep, IbCallbacksStep, IbCountsStep, IbPacketsStep, IbHonestStep DEF IbIInv
<1> QED
  BY IbInitial, <1>1, PTL DEF IBootSpec

\* irecv_send_buffer and irecv_recv_buffer report success only of a buffer that
\* went over whole, in packets of whatever size and whatever was left over from
\* an earlier call.
THEOREM BuffersArrive == IBootSpec => []UploadHonest
<1>1. IbIInv => UploadHonest
  BY DEF IbIInv
<1> QED
  BY IbInvariant, <1>1, PTL

-----------------------------------------------------------------------------
(* MCServices: all of them, one guest at a time.                           *)

\* A behaviour of the guests is one of each: it starts as its component does, and
\* takes its steps or rests.
LEMMA GuestsBehave ==
  GuestSpec => /\ IpSpec /\ InstSpec /\ AfcSpec /\ SyncSpec /\ Backup2Spec
               /\ BackupSpec /\ IBootSpec /\ AsrSpec /\ ImSpec /\ IproxySpec
<1>1. GuestInit => /\ IpInit /\ InstInit /\ AfcInit /\ SyncInit /\ Backup2Init
                   /\ BackupInit /\ IBootInit /\ AsrInit /\ ImInit /\ IproxyInit
  BY Zenon DEF GuestInit
<1>2. [GuestNext]_guestVars => [IpNext]_ipVars
  BY Zenon DEF GuestNext, Resting, guestVars
<1>3. [GuestNext]_guestVars => [InstNext]_instVars
  BY Zenon DEF GuestNext, Resting, guestVars
<1>4. [GuestNext]_guestVars => [AfcNext]_afcVars
  BY Zenon DEF GuestNext, Resting, guestVars
<1>5. [GuestNext]_guestVars => [SyncNext]_syncVars
  BY Zenon DEF GuestNext, Resting, guestVars
<1>6. [GuestNext]_guestVars => [Backup2Next]_b2Vars
  BY Zenon DEF GuestNext, Resting, guestVars
<1>7. [GuestNext]_guestVars => [BackupNext]_bkVars
  BY Zenon DEF GuestNext, Resting, guestVars
<1>8. [GuestNext]_guestVars => [IBootNext]_ibVars
  BY Zenon DEF GuestNext, Resting, guestVars
<1>9. [GuestNext]_guestVars => [AsrNext]_asrVars
  BY Zenon DEF GuestNext, Resting, guestVars
<1>10. [GuestNext]_guestVars => [ImNext]_imVars
  BY Zenon DEF GuestNext, Resting, guestVars
<1>11. [GuestNext]_guestVars => [IproxyNext]_proxyVars
  BY Zenon DEF GuestNext, Resting, guestVars
<1> QED
  BY <1>1, <1>2, <1>3, <1>4, <1>5, <1>6, <1>7, <1>8, <1>9, <1>10, <1>11, PTL
     DEF GuestSpec, IpSpec, InstSpec, AfcSpec, SyncSpec, Backup2Spec, BackupSpec, IBootSpec, AsrSpec,
         ImSpec, IproxySpec

\* Every variable of every client and program keeps its type.
THEOREM ServicesTypeCorrect == GuestSpec => []ServicesTypeOK
<1>1. IpIInv => IpTypeOK
  BY DEF IpIInv, IpShape
<1>2. InstIInv => InstTypeOK
  BY DEF InstIInv, InstKept
<1>3. SyncIInv => SyncTypeOK
  BY DEF SyncIInv, SyncShape
<1>4. B2IInv => Backup2TypeOK
  BY DEF B2IInv
<1>5. IbIInv => IBootTypeOK
  <2> SUFFICES ASSUME IbIInv PROVE IBootTypeOK
    OBVIOUS
  <2>1. ibCalls \in 0 .. MaxIbCalls /\ attemptsLeft \in 0 .. OpenAttempts
    BY IBootBounds DEF IbIInv, IbCounts
  <2>2. ibCount \in 0 .. Packets(ibLength, PacketSize)
    <3>1. ibCount \in Nat /\ ibCount <= Packets(ibLength, PacketSize) /\ ibLength \in BufferLengths \cup {0}
      BY DEF IbIInv, IbPackets
    <3>2. Packets(ibLength, PacketSize) \in Nat
      BY <3>1, IbSizes, PacketsAddUp
    <3> QED
      BY <3>1, <3>2
  <2>3. devGot \in Nat /\ hostGot \in Nat /\ ibLength \in BufferLengths \cup {0} /\ lines \in 0 .. 2
    BY DEF IbIInv, IbPackets, IbCounts
  <2> QED
    BY <2>1, <2>2, <2>3, Zenon DEF IbIInv, IbPlaces, IbCallbacks, IBootTypeOK
<1>6. AsrIInv => AsrTypeOK
  <2> SUFFICES ASSUME AsrIInv PROVE AsrTypeOK
    OBVIOUS
  <2>1. tries \in 0 .. ConnectAttempts + PacketTries /\ askedCount \in 0 .. MaxAsked
        /\ remaining \in -WordSize .. WordSize
    BY AsrBounds DEF AsrIInv, AsrCounts
  <2> QED
    BY <2>1, Zenon DEF AsrIInv, AsrPlaces, AsrCounts, AsrTypeOK
<1>7. ImIInv => ImTypeOK
  BY DEF ImIInv
<1> QED
  BY GuestsBehave, IpInvariant, InstInvariant, AfcTypeCorrect, SyncInvariant, B2Invariant,
     BackupTypeCorrect, IbInvariant, AsrInvariant, ImInvariant, IproxyTypeCorrect,
     <1>1, <1>2, <1>3, <1>4, <1>5, <1>6, <1>7, PTL DEF ServicesTypeOK

\* The tools that copy a file over AFC act on a whole one: ideviceinstaller removes
\* an archive only after a copy as long as the device had stated, and
\* ideviceimagemounter mounts only what it has uploaded.
THEOREM ToolsTransferWhole == GuestSpec => []ToolTransfersWhole
BY GuestsBehave, RemovesWhatItCopied, MountsWhole, PTL DEF ToolTransfersWhole

\* What idevicerestore reports as sent was sent whole, to iBoot in packets of any
\* size (irecv_send_buffer, irecv_recv_buffer) and to ASR in chunks of any size
\* (asr_send_payload), for every length an int can count.
THEOREM RestoreTransfers == GuestSpec => []RestoreTransfersWhole
BY GuestsBehave, BuffersArrive, ImageArrives, PTL DEF RestoreTransfersWhole

================================================================================
