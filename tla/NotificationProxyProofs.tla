----------------------- MODULE NotificationProxyProofs -----------------------
(***************************************************************************)
(* For any threads and bounds of NotificationProxy: at most one notifier   *)
(* runs, and it is the one of the callback registered last (OneCallback);  *)
(* every variable keeps its type (TypeCorrect); and the callbacks see the  *)
(* notifications in order, each at most once (SeenInOrder).                *)
(***************************************************************************)
EXTENDS NotificationProxy, FiniteSetTheorems, TLAPS

\* Positions of a caller inside the mutex, and inside np_client_free.
Holding == {"locked", "answer", "join", "detached"}
Freeing == {"free", "clear", "wait", "gone"}

Shape ==
  /\ pc \in [Callers -> {"idle", "lock"} \cup Holding \cup Freeing]
  /\ call \in [Callers -> Calls \cup {"none"}]
  /\ npc \in [Notifiers -> {"unborn", "loop", "test", "lock", "receive", "call", "done"}]
  /\ created \in Nat

\* The mutex excludes: whoever is inside it is its holder.
Exclusion ==
  /\ \A a \in Callers : pc[a] \in Holding => mutex = a
  /\ \A g \in Notifiers : npc[g] = "receive" => mutex = g

\* Nobody else is in a call on a client that is being freed.
Alone ==
  /\ \A a \in Callers : pc[a] = "idle" <=> call[a] = "none"
  /\ \A a \in Callers : pc[a] \in Freeing <=> call[a] = "free"
  /\ \A a \in Callers : pc[a] \in Freeing =>
       a = Owner /\ \A b \in Callers \ {a} : pc[b] = "idle"

\* A notifier that runs is the client's, and the registered one.
OneNotifier ==
  /\ \A g \in Notifiers : Running(g) => g = notifier /\ g = registered
  /\ \A a \in Callers : pc[a] = "detached" => notifier = NULL
  /\ pc[Owner] = "gone" => \A g \in Notifiers : ~Running(g)

IInv == Shape /\ Exclusion /\ Alone /\ OneNotifier

\* The invariant holds when np_client_new has returned.
LEMMA InitIInv == Init => IInv
BY OwnerCalls DEF Init, IInv, Shape, Exclusion, Alone, OneNotifier, Running, Holding, Freeing,
   Calls

\* A caller is no notifier and no NULL; both kinds of number are told apart.
LEMMA Kinds ==
  /\ \A a \in Callers : a # NULL
  /\ \A a \in Callers, g \in Notifiers : a # g
  /\ \A g \in Notifiers : g # NULL /\ g \in Nat
  /\ NULL \in Nat
BY CallersAreNoNumbers, BoundsAreNaturals DEF Notifiers, NULL

\* Steps of a caller that touch no notifier keep the invariant: what is left
\* is the bookkeeping of pc, call and mutex.
LEMMA CallerMoves ==
  ASSUME IInv, NEW a \in Callers,
         pc[a] # "gone",
         pc' \in [Callers -> {"idle", "lock"} \cup Holding \cup Freeing],
         call' \in [Callers -> Calls \cup {"none"}],
         \A b \in Callers \ {a} : pc'[b] = pc[b] /\ call'[b] = call[b],
         pc'[a] = "idle" <=> call'[a] = "none",
         pc'[a] \in Freeing <=> call'[a] = "free",
         pc'[a] \notin {"detached", "gone"},
         pc'[a] \in Freeing => pc[a] \in Freeing \/ (a = Owner /\ \A b \in Callers : pc[b] = "idle"),
         pc[a] = "idle" => \A b \in Callers : pc[b] \notin Freeing,
         \/ mutex' = mutex /\ (pc'[a] \in Holding => pc[a] \in Holding)
         \/ mutex = NULL /\ mutex' = a
         \/ mutex' = NULL /\ pc[a] \in Holding /\ pc'[a] \notin Holding,
         UNCHANGED <<npc, created, notifier, registered>>
  PROVE  IInv'
<1>1. Shape'
  BY DEF IInv, Shape
<1>2. Exclusion'
  <2>1. ASSUME NEW b \in Callers, pc'[b] \in Holding PROVE mutex' = b
    <3>1. CASE b = a
      BY <2>1, <3>1, Kinds DEF IInv, Exclusion
    <3>2. CASE b # a
      BY <2>1, <3>2, Kinds DEF IInv, Exclusion
    <3> QED
      BY <3>1, <3>2
  <2>2. ASSUME NEW g \in Notifiers, npc'[g] = "receive" PROVE mutex' = g
    BY <2>2, Kinds DEF IInv, Exclusion
  <2> QED
    BY <2>1, <2>2 DEF Exclusion
<1>3. Alone'
  <2>1. \A b \in Callers : pc'[b] = "idle" <=> call'[b] = "none"
    BY DEF IInv, Alone
  <2>2. \A b \in Callers : pc'[b] \in Freeing <=> call'[b] = "free"
    BY DEF IInv, Alone
  <2>3. ASSUME NEW b \in Callers, pc'[b] \in Freeing
        PROVE  b = Owner /\ \A c \in Callers \ {b} : pc'[c] = "idle"
    <3>1. CASE b = a
      BY <2>3, <3>1 DEF IInv, Alone
    <3>2. CASE b # a
      BY <2>3, <3>2 DEF IInv, Alone
    <3> QED
      BY <3>1, <3>2
  <2> QED
    BY <2>1, <2>2, <2>3 DEF Alone
<1>4. OneNotifier'
  <2>1. \A g \in Notifiers : Running(g)' => g = notifier' /\ g = registered'
    BY DEF IInv, OneNotifier, Running
  <2>2. ASSUME NEW b \in Callers, pc'[b] = "detached" PROVE notifier' = NULL
    BY <2>2 DEF IInv, OneNotifier
  <2>3. pc'[Owner] = "gone" => \A g \in Notifiers : ~Running(g)'
    BY OwnerCalls DEF IInv, OneNotifier, Running
  <2> QED
    BY <2>1, <2>2, <2>3 DEF OneNotifier
<1> QED
  BY <1>1, <1>2, <1>3, <1>4 DEF IInv

\* Steps of a notifier keep the invariant: it starts nothing, and only moves
\* the mutex when it is free or its own.
LEMMA NotifierMoves ==
  ASSUME IInv, NEW g \in Notifiers, Running(g),
         npc' \in [Notifiers -> {"unborn", "loop", "test", "lock", "receive", "call", "done"}],
         \A h \in Notifiers \ {g} : npc'[h] = npc[h],
         \/ mutex' = mutex /\ npc'[g] # "receive"
         \/ mutex = NULL /\ mutex' = g
         \/ mutex' = NULL /\ npc[g] = "receive" /\ npc'[g] # "receive",
         UNCHANGED <<pc, call, created, notifier, registered>>
  PROVE  IInv'
<1>1. Shape'
  BY DEF IInv, Shape
<1>2. Exclusion'
  <2>1. ASSUME NEW b \in Callers, pc'[b] \in Holding PROVE mutex' = b
    BY <2>1, Kinds DEF IInv, Exclusion
  <2>2. ASSUME NEW h \in Notifiers, npc'[h] = "receive" PROVE mutex' = h
    <3>1. CASE h = g
      BY <2>2, <3>1, Kinds DEF IInv, Exclusion
    <3>2. CASE h # g
      BY <2>2, <3>2, Kinds DEF IInv, Exclusion
    <3> QED
      BY <3>1, <3>2
  <2> QED
    BY <2>1, <2>2 DEF Exclusion
<1>3. Alone'
  BY DEF IInv, Alone
<1>4. OneNotifier'
  <2>1. \A h \in Notifiers : Running(h)' => Running(h)
    BY DEF Running
  <2> QED
    BY <2>1 DEF IInv, OneNotifier
<1> QED
  BY <1>1, <1>2, <1>3, <1>4 DEF IInv

\* Every step of a notifier thread.
LEMMA NotifierStepIInv ==
  ASSUME IInv, NEW g \in Notifiers, NotifierStep(g), Running(g)
  PROVE  IInv'
<1> USE DEF NotifierAt, threads, Shape, Running
<1>1. CASE LoopTest(g)
  BY <1>1, NotifierMoves DEF IInv, LoopTest, history
<1>2. CASE ArgumentTest(g)
  BY <1>2, NotifierMoves DEF IInv, ArgumentTest, history
<1>3. CASE NotifierLocks(g)
  BY <1>3, NotifierMoves DEF IInv, NotifierLocks, history
<1>4. CASE Receive(g)
  BY <1>4, NotifierMoves DEF IInv, Receive, Received, AfterReceive
<1>5. CASE ReceiveFreed(g)
  BY <1>5, NotifierMoves DEF IInv, ReceiveFreed, Unlock, history
<1>6. CASE Callback(g)
  BY <1>6, NotifierMoves DEF IInv, Callback, CalledBack
<1> QED
  BY <1>1, <1>2, <1>3, <1>4, <1>5, <1>6 DEF NotifierStep

\* Where the client has no notifier thread, none runs, so the one that
\* Replace starts is the only one.
LEMMA ReplaceIInv ==
  ASSUME IInv, NEW a \in Callers, NEW from \in {"locked", "detached"}, notifier = NULL,
         Replace(a, from)
  PROVE  IInv'
<1>1. pc[a] = from /\ from \in Holding /\ pc' = [pc EXCEPT ![a] = "idle"]
      /\ call' = [call EXCEPT ![a] = "none"] /\ mutex' = NULL /\ mutex = a
  BY DEF Replace, Return, Goto, Unlock, Holding, IInv, Exclusion
<1>2. \A g \in Notifiers : ~Running(g)
  BY Kinds DEF IInv, OneNotifier
<1>3. Shape'
  BY <1>1 DEF Replace, IInv, Shape
<1>4. \A g \in Notifiers : npc[g] # "receive" /\ npc'[g] # "receive"
  <2>1. \A g \in Notifiers : npc[g] # "receive"
    BY <1>2 DEF Running
  <2>2. npc' = npc \/ npc' = [npc EXCEPT ![created'] = "loop"]
    BY DEF Replace
  <2> QED
    BY <2>1, <2>2 DEF IInv, Shape
<1>5. Exclusion'
  BY <1>1, <1>4 DEF IInv, Exclusion, Shape, Holding
<1>6. Alone'
  BY <1>1 DEF IInv, Alone, Shape, Holding, Freeing
<1>7. OneNotifier'
  <2>1. ASSUME NEW g \in Notifiers, Running(g)' PROVE g = notifier' /\ g = registered'
    BY <1>2, <2>1 DEF Replace, Running, IInv, Shape
  <2>2. ASSUME NEW b \in Callers PROVE pc'[b] # "detached"
    BY <1>1, <2>2 DEF IInv, Exclusion, Shape, Holding
  <2>3. pc'[Owner] # "gone"
    BY <1>1, OwnerCalls DEF IInv, Alone, Shape, Holding, Freeing
  <2> QED
    BY <2>1, <2>2, <2>3 DEF OneNotifier
<1> QED
  BY <1>3, <1>5, <1>6, <1>7 DEF IInv

\* Every step of a caller.
LEMMA CallStepIInv ==
  ASSUME IInv, NEW a \in Callers, CallStep(a)
  PROVE  IInv'
<1> USE DEF Goto, threads, Shape, Holding, Freeing, Calls
<1>1. CASE Lock(a)
  BY <1>1, CallerMoves DEF IInv, Alone, Lock, history
<1>2. CASE Observe(a)
  BY <1>2, CallerMoves DEF IInv, Alone, Observe, Calling, Return, Unlock, history
<1>3. CASE Post(a)
  BY <1>3, CallerMoves DEF IInv, Alone, Post, Calling, history
<1>4. CASE PostAnswered(a)
  BY <1>4, CallerMoves DEF IInv, Alone, PostAnswered, Return, Unlock
<1>5. CASE Detach(a)
  BY <1>5, CallerMoves DEF IInv, Alone, Detach, Calling, history
<1>6. CASE Join(a)
  <2>1. Restored(a) /\ mutex = a /\ npc[notifier] = "done"
    BY <1>6 DEF Join, Restored, IInv, Exclusion
  <2>2. \A g \in Notifiers : ~Running(g)
    BY <2>1 DEF Running, IInv, OneNotifier
  <2>3. Shape' /\ Exclusion'
    BY <2>1 DEF Restored, IInv, Exclusion
  <2>4. Alone'
    BY <2>1 DEF Restored, IInv, Alone
  <2>5. OneNotifier'
    BY <2>1, <2>2, OwnerCalls DEF Restored, IInv, OneNotifier, Running
  <2> QED
    BY <2>3, <2>4, <2>5 DEF IInv
<1>7. CASE Register(a)
  BY <1>7, ReplaceIInv DEF Register
<1>8. CASE Reregister(a)
  BY <1>8, ReplaceIInv DEF Reregister, IInv, OneNotifier
<1>9. CASE FreeConnection(a)
  BY <1>9, CallerMoves DEF IInv, Alone, FreeConnection, history
<1>10. CASE ClearParent(a)
  <2>1. ParentBecomes(a, "null")
    BY <1>10 DEF ClearParent
  <2>2. a = Owner /\ call[a] = "free" /\ \A b \in Callers \ {a} : pc[b] = "idle"
    BY <2>1 DEF ParentBecomes, IInv, Alone
  <2>3. Shape' /\ Exclusion'
    BY <2>1 DEF ParentBecomes, IInv, Exclusion
  <2>4. Alone'
    BY <2>1, <2>2 DEF ParentBecomes, IInv, Alone
  <2>5. pc'[Owner] = "gone" => \A g \in Notifiers : ~Running(g)
    BY <2>1, <2>2, Kinds DEF ParentBecomes, IInv, OneNotifier
  <2>6. OneNotifier'
    BY <2>1, <2>5 DEF ParentBecomes, IInv, OneNotifier, Running, history
  <2> QED
    BY <2>3, <2>4, <2>6 DEF IInv
<1>11. CASE JoinAndFree(a)
  <2>1. a = Owner /\ call[a] = "free" /\ \A b \in Callers \ {a} : pc[b] = "idle"
    BY <1>11 DEF JoinAndFree, IInv, Alone
  <2>2. \A g \in Notifiers : ~Running(g)
    BY <1>11 DEF JoinAndFree, Running, IInv, OneNotifier
  <2>3. Shape' /\ Exclusion'
    BY <1>11 DEF JoinAndFree, IInv, Exclusion
  <2>4. Alone'
    BY <1>11, <2>1 DEF JoinAndFree, IInv, Alone
  <2>5. OneNotifier'
    BY <1>11, <2>2 DEF JoinAndFree, IInv, OneNotifier, Running
  <2> QED
    BY <2>3, <2>4, <2>5 DEF IInv
<1> QED
  BY <1>1, <1>2, <1>3, <1>4, <1>5, <1>6, <1>7, <1>8, <1>9, <1>10, <1>11 DEF CallStep

\* Every step keeps the invariant.
LEMMA StepIInv == IInv /\ [Next]_vars => IInv'
<1> SUFFICES ASSUME IInv, [Next]_vars PROVE IInv'
  OBVIOUS
<1>1. ASSUME NEW a \in Callers, CallStep(a) PROVE IInv'
  BY <1>1, CallStepIInv
<1>2. ASSUME NEW a \in Callers, NEW c \in Calls, Begin(a, c) PROVE IInv'
  BY <1>2, CallerMoves DEF Begin, Goto, threads, history, IInv, Shape, Alone, Holding, Freeing,
     Calls
<1>3. ASSUME NEW g \in Notifiers, NotifierStep(g) PROVE IInv'
  <2>1. Running(g)
    BY <1>3 DEF NotifierStep, LoopTest, ArgumentTest, NotifierLocks, Receive, Received,
       ReceiveFreed, Callback, CalledBack, NotifierAt, Running
  <2> QED
    BY <1>3, <2>1, NotifierStepIInv
<1>4. CASE Relay \/ Dies \/ HangsUp \/ UNCHANGED vars
  <2>1. UNCHANGED <<mutex, notifier, pc, call, npc, created, registered>>
    BY <1>4 DEF Relay, Dies, HangsUp, Client, threads, history, vars
  <2> QED
    BY <2>1 DEF IInv, Shape, Exclusion, Alone, OneNotifier, Running
<1> QED
  BY <1>1, <1>2, <1>3, <1>4 DEF Next

\* np_set_notify_callback: "Only one callback function can be registered at
\* the same time; any previously set callback function will be removed": a
\* notifier thread runs only for the callback registered last, and only as
\* long as its client exists.
THEOREM OneCallback == Spec => []OnlyRegisteredRuns
<1>1. IInv => OnlyRegisteredRuns
  BY DEF IInv, OneNotifier, OnlyRegisteredRuns
<1> QED
  BY InitIInv, StepIInv, <1>1, PTL DEF Spec

-----------------------------------------------------------------------------
(* The types, and that a notifier thread is created for each call that may *)
(* create one.                                                             *)

Notes == 0 .. MaxNotes

ClientTypes ==
  /\ mutex \in Callers \cup Notifiers \cup {NULL}
  /\ parent \in {"live", "null", "dangling"} /\ saved \in [Callers -> {"live", "null"}]
  /\ notifier \in Notifiers \cup {NULL} /\ registered \in Notifiers \cup {NULL}
  /\ arg \in [Notifiers -> {"live", "null", "dangling"}] /\ note \in [Notifiers -> Notes]
  /\ calls \in 0 .. MaxCalls /\ crashed \in BOOLEAN

StreamTypes ==
  /\ link \in {"up", "eof", "freed"} /\ synced \in BOOLEAN /\ inbox \in Seq(Notes)
  /\ observing \in BOOLEAN /\ dying \in BOOLEAN /\ relayed \in Notes
  /\ seen \in Seq(1 .. MaxNotes) /\ swallowed \subseteq Notes /\ lost \subseteq Notes

\* The field only names a freed connection inside np_client_free.
Dangling == parent = "dangling" => pc[Owner] = "clear"

Setters == {a \in Callers : call[a] = "set"}

Counted == IsFiniteSet(Setters) /\ created + Cardinality(Setters) <= calls

\* "notification" is set on the way to the callback and nowhere else.
Noted == \A g \in Notifiers : note[g] # NULL <=> npc[g] = "call"

Kept == ClientTypes /\ StreamTypes /\ Dangling /\ Counted /\ Noted

\* All of that holds when np_client_new has returned.
LEMMA InitKept == Init => Kept
<1> SUFFICES ASSUME Init PROVE Kept
  OBVIOUS
<1>1. Setters = {}
  BY DEF Init, Setters
<1>2. Counted
  BY <1>1, FS_EmptySet, BoundsAreNaturals DEF Init, Counted
<1> DEFINE zero == 0
<1>0. zero \in Notes /\ zero \in 0 .. MaxCalls /\ NULL = zero
  BY BoundsAreNaturals DEF Notes, NULL
<1>3. ClientTypes
  <2>1. calls = zero
    BY DEF Init
  <2> HIDE DEF zero
  <2> QED
    BY <1>0, <2>1 DEF Init, ClientTypes
<1>4. StreamTypes
  <2>1. relayed = zero /\ inbox \in Seq(Notes) /\ seen \in Seq(1 .. MaxNotes)
    BY DEF Init
  <2> HIDE DEF zero
  <2> QED
    BY <1>0, <2>1 DEF Init, StreamTypes
<1>5. Dangling /\ Noted
  BY DEF Init, Dangling, Noted, NULL
<1> QED
  BY <1>2, <1>3, <1>4, <1>5 DEF Kept

\* Whoever frees the client is the only one in a call.
LEMMA NobodyElse ==
  ASSUME IInv, Dangling, NEW a \in Callers, pc[a] \notin {"idle", "clear"}
  PROVE  parent # "dangling"
<1>1. Owner \in Callers /\ (pc[Owner] = "clear" => \A b \in Callers \ {Owner} : pc[b] = "idle")
  BY OwnerCalls DEF IInv, Alone, Freeing
<1> QED
  BY <1>1 DEF Dangling

LEMMA Arrival ==
  ASSUME StreamTypes, NEW m \in Notes, Arrives(m)
  PROVE  synced' \in BOOLEAN /\ inbox' \in Seq(Notes) /\ lost' \subseteq Notes
<1>1. CASE UNCHANGED <<synced, inbox, lost>>
  BY <1>1 DEF StreamTypes
<1>2. CASE inbox # <<>> /\ inbox' = Tail(inbox)
  <2>1. inbox' \in Seq(Notes) /\ Head(inbox) \in Notes
    BY <1>2 DEF StreamTypes
  <2>2. synced' \in BOOLEAN /\ lost' \subseteq Notes
    BY <1>2, <2>1 DEF Arrives, StreamTypes
  <2> QED
    BY <2>1, <2>2
<1> QED
  BY <1>1, <1>2 DEF Arrives

\* The thread that np_set_notify_callback creates is one of MaxCalls.
LEMMA ReplaceCounted ==
  ASSUME IInv, Kept, NEW a \in Callers, NEW from \in {"locked", "detached"}, Replace(a, from)
  PROVE  Counted' /\ created' \in 0 .. MaxCalls /\ (call[a] = "set" => created + 1 \in Notifiers)
<1>1. /\ call' = [call EXCEPT ![a] = "none"] /\ call \in [Callers -> Calls \cup {"none"}]
      /\ \/ call[a] = "set" /\ created' = created + 1
         \/ created' = created
      /\ UNCHANGED calls
  BY DEF Replace, Return, IInv, Shape
<1>2. Setters' = Setters \ {a} /\ (call[a] = "set" <=> a \in Setters)
  BY <1>1 DEF Setters
<1>3. /\ IsFiniteSet(Setters) /\ Cardinality(Setters) \in Nat
      /\ created \in Nat /\ calls \in 0 .. MaxCalls /\ created + Cardinality(Setters) <= calls
  BY FS_CardinalityType DEF Kept, Counted, ClientTypes, IInv, Shape
<1>4. /\ IsFiniteSet(Setters')
      /\ Cardinality(Setters') = IF a \in Setters THEN Cardinality(Setters) - 1
                                 ELSE Cardinality(Setters)
  BY <1>2, <1>3, FS_RemoveElement
<1>5. a \in Setters => Cardinality(Setters) # 0
  BY <1>3, FS_EmptySet
<1>6. Counted'
  BY <1>1, <1>2, <1>3, <1>4 DEF Counted
<1>7. a \in Setters => created + 1 <= MaxCalls
  BY <1>3, <1>5, BoundsAreNaturals
<1>8. created <= MaxCalls
  BY <1>3, BoundsAreNaturals
<1>9. created' \in 0 .. MaxCalls /\ (call[a] = "set" => created + 1 \in Notifiers)
  BY <1>1, <1>2, <1>3, <1>7, <1>8 DEF Notifiers
<1> QED
  BY <1>6, <1>9

\* Calls are counted when they begin.
LEMMA CountedStep ==
  ASSUME IInv, Kept, [Next]_vars
  PROVE  Counted'
<1>1. IsFiniteSet(Setters) /\ Cardinality(Setters) \in Nat /\ created \in Nat /\ calls \in Nat
  BY FS_CardinalityType DEF Kept, Counted, ClientTypes, IInv, Shape
<1>2. ASSUME UNCHANGED <<call, created, calls>> PROVE Counted'
  BY <1>2 DEF Kept, Counted, Setters
<1>3. ASSUME NEW a \in Callers, call' = [call EXCEPT ![a] = "none"], UNCHANGED <<created, calls>>
      PROVE  Counted'
  <2>1. Setters' = Setters \ {a}
    BY <1>3 DEF Setters, IInv, Shape
  <2> QED
    BY <1>1, <1>3, <2>1, FS_RemoveElement DEF Kept, Counted
<1>4. ASSUME NEW a \in Callers, NEW c \in Calls, Begin(a, c) PROVE Counted'
  <2>1. /\ call' = [call EXCEPT ![a] = c] /\ calls' = calls + 1 /\ UNCHANGED created
        /\ pc[a] = "idle"
    BY <1>4 DEF Begin, Goto, threads
  <2>2. Setters' = Setters \cup {a} \/ Setters' = Setters
    BY <2>1 DEF Setters, IInv, Shape, Alone, Calls
  <2>3. IsFiniteSet(Setters') /\ Cardinality(Setters') \in {Cardinality(Setters), Cardinality(Setters) + 1}
    BY <1>1, <2>2, FS_AddElement
  <2> QED
    BY <1>1, <2>1, <2>3 DEF Kept, Counted
<1>5. ASSUME NEW a \in Callers, CallStep(a) PROVE Counted'
  <2>1. CASE Lock(a) \/ Post(a) \/ Detach(a) \/ Join(a) \/ FreeConnection(a) \/ ClearParent(a)
             \/ JoinAndFree(a)
    BY <1>2, <2>1 DEF Lock, Post, Detach, Join, Restored, FreeConnection, ClearParent, ParentBecomes,
                      JoinAndFree, threads
  <2>2. CASE Observe(a) \/ PostAnswered(a)
    BY <1>3, <2>2 DEF Observe, PostAnswered, Return, threads
  <2>3. CASE Register(a) \/ Reregister(a)
    BY <2>3, ReplaceCounted DEF Register, Reregister
  <2> QED
    BY <1>5, <2>1, <2>2, <2>3 DEF CallStep
<1>6. ASSUME NEW g \in Notifiers, NotifierStep(g) PROVE Counted'
  BY <1>2, <1>6 DEF NotifierStep, LoopTest, ArgumentTest, NotifierLocks, Receive, Received,
                    ReceiveFreed, Callback, CalledBack
<1>7. CASE Relay \/ Dies \/ HangsUp \/ UNCHANGED vars
  BY <1>2, <1>7 DEF Relay, Dies, HangsUp, Client, threads, vars
<1> QED
  BY <1>4, <1>5, <1>6, <1>7 DEF Next

\* Only np_client_free leaves the field on a freed connection, and clears it.
LEMMA DanglingStep ==
  ASSUME IInv, Kept, [Next]_vars
  PROVE  Dangling'
<1> USE DEF Dangling
<1>1. Owner \in Callers
  BY OwnerCalls
<1>2. ASSUME UNCHANGED <<parent, pc>> PROVE Dangling'
  BY <1>2 DEF Kept
<1>3. ASSUME NEW a \in Callers, parent' = parent, pc[a] # "clear",
             \A b \in Callers \ {a} : pc'[b] = pc[b]
      PROVE  Dangling'
  <2>1. parent = "dangling" => pc[Owner] = "clear" /\ a # Owner
    BY <1>3 DEF Kept
  <2> QED
    BY <1>1, <1>3, <2>1
<1>4. ASSUME NEW a \in Callers, NEW c \in Calls, Begin(a, c) PROVE Dangling'
  BY <1>1, <1>4 DEF Begin, Goto, Kept, IInv, Shape
<1>5. ASSUME NEW a \in Callers, CallStep(a) PROVE Dangling'
  <2>1. CASE Lock(a) \/ Observe(a) \/ Post(a) \/ PostAnswered(a)
    BY <1>3, <2>1 DEF Lock, Observe, Post, PostAnswered, Return, Goto, Calling, IInv, Shape
  <2>2. CASE Detach(a)
    BY <2>2 DEF Detach
  <2>3. CASE Join(a)
    BY <2>3 DEF Join, Restored, Kept, ClientTypes
  <2>4. CASE Register(a) \/ Reregister(a)
    BY <1>3, <2>4 DEF Register, Reregister, Replace, Return, Goto, Calling, IInv, Shape
  <2>5. CASE FreeConnection(a)
    <3>1. a = Owner /\ pc' = [pc EXCEPT ![a] = "clear"]
      BY <2>5 DEF FreeConnection, Goto, IInv, Alone, Freeing
    <3> QED
      BY <1>1, <3>1 DEF IInv, Shape
  <2>6. CASE ClearParent(a)
    BY <2>6 DEF ClearParent, ParentBecomes
  <2>7. CASE JoinAndFree(a)
    BY <1>3, <2>7 DEF JoinAndFree, Goto, IInv, Shape
  <2> QED
    BY <1>5, <2>1, <2>2, <2>3, <2>4, <2>5, <2>6, <2>7 DEF CallStep
<1>6. ASSUME NEW g \in Notifiers, NotifierStep(g) PROVE Dangling'
  BY <1>2, <1>6 DEF NotifierStep, LoopTest, ArgumentTest, NotifierLocks, Receive, Received,
                    ReceiveFreed, Callback, CalledBack
<1>7. CASE Relay \/ Dies \/ HangsUp \/ UNCHANGED vars
  BY <1>2, <1>7 DEF Relay, Dies, HangsUp, Client, vars
<1> QED
  BY <1>4, <1>5, <1>6, <1>7 DEF Next

\* The types of the client and its threads.
LEMMA ClientTypesStep ==
  ASSUME IInv, Kept, [Next]_vars
  PROVE  ClientTypes'
<1> USE DEF ClientTypes
<1>1. NULL \in Notes
  BY BoundsAreNaturals DEF Notes, NULL
<1>2. ASSUME NEW a \in Callers, CallStep(a) PROVE ClientTypes'
  <2>1. CASE Lock(a) \/ Observe(a) \/ Post(a) \/ PostAnswered(a)
    BY <2>1 DEF Lock, Observe, Post, PostAnswered, Return, Unlock, threads, history, Kept
  <2>2. CASE Detach(a)
    <3>1. parent # "dangling"
      BY <2>2, NobodyElse DEF Detach, Calling, Kept
    <3> QED
      BY <2>2, <3>1 DEF Detach, threads, history, Kept
  <2>3. CASE Join(a)
    BY <2>3 DEF Join, Restored, threads, history, Kept
  <2>4. CASE Register(a) \/ Reregister(a)
    <3>1. PICK from \in {"locked", "detached"} : Replace(a, from)
      BY <2>4 DEF Register, Reregister
    <3>2. call[a] = "set" => created + 1 \in Notifiers
      BY <3>1, ReplaceCounted
    <3>3. /\ notifier' \in Notifiers \cup {NULL} /\ registered' \in Notifiers \cup {NULL}
          /\ mutex' = NULL /\ UNCHANGED <<parent, saved, arg, note, calls, crashed>>
      BY <3>1, <3>2 DEF Replace, Unlock, Kept
    <3> QED
      BY <3>3 DEF Kept
  <2>5. CASE FreeConnection(a) \/ ClearParent(a)
    BY <2>5 DEF FreeConnection, ClearParent, ParentBecomes, threads, history, Kept
  <2>6. CASE JoinAndFree(a)
    BY <2>6 DEF JoinAndFree, threads, Kept
  <2> QED
    BY <1>2, <2>1, <2>2, <2>3, <2>4, <2>5, <2>6 DEF CallStep
<1>3. ASSUME NEW a \in Callers, NEW c \in Calls, Begin(a, c) PROVE ClientTypes'
  <2>1. calls' = calls + 1 /\ calls < MaxCalls /\ calls \in 0 .. MaxCalls
    BY <1>3 DEF Begin, Kept
  <2>2. calls' \in 0 .. MaxCalls
    BY <2>1, BoundsAreNaturals
  <2> QED
    BY <1>3, <2>2 DEF Begin, threads, history, Kept
<1>4. ASSUME NEW g \in Notifiers, NotifierStep(g) PROVE ClientTypes'
  <2>1. CASE LoopTest(g) \/ ArgumentTest(g)
    BY <2>1 DEF LoopTest, ArgumentTest, history, Kept
  <2>2. CASE NotifierLocks(g)
    BY <2>2 DEF NotifierLocks, history, Kept
  <2>3. CASE Receive(g)
    <3>1. PICK m \in 0 .. MaxNotes : Received(g, m, AfterReceive(m), NULL)
      BY <2>3 DEF Receive
    <3>2. m \in Notes
      BY DEF Notes
    <3> QED
      BY <3>1, <3>2 DEF Received, Kept
  <2>4. CASE ReceiveFreed(g)
    BY <2>4 DEF ReceiveFreed, Unlock, history, Kept
  <2>5. CASE Callback(g)
    BY <1>1, <2>5 DEF Callback, CalledBack, Kept
  <2> QED
    BY <1>4, <2>1, <2>2, <2>3, <2>4, <2>5 DEF NotifierStep
<1>5. CASE Relay \/ Dies \/ HangsUp \/ UNCHANGED vars
  BY <1>5 DEF Relay, Dies, HangsUp, Client, threads, history, vars, Kept
<1> QED
  BY <1>2, <1>3, <1>4, <1>5 DEF Next

\* The types of the connection, the device and the history.
LEMMA StreamTypesStep ==
  ASSUME IInv, Kept, [Next]_vars
  PROVE  StreamTypes'
<1> USE DEF StreamTypes
<1>1. NULL \in Notes
  BY BoundsAreNaturals DEF Notes, NULL
<1>2. ASSUME NEW a \in Callers, CallStep(a) PROVE StreamTypes'
  <2>1. CASE Lock(a) \/ Detach(a) \/ Join(a) \/ ClearParent(a)
    BY <2>1 DEF Lock, Detach, Join, Restored, ClearParent, ParentBecomes, stream, device, history, Kept
  <2>2. CASE Observe(a) \/ Post(a)
    BY <2>2 DEF Observe, Post, stream, history, Kept
  <2>3. CASE PostAnswered(a)
    <3>1. PICK m \in 0 .. MaxNotes : Arrives(m) /\ swallowed' = swallowed \cup ({m} \ {NULL})
      BY <2>3 DEF PostAnswered
    <3>2. m \in Notes
      BY DEF Notes
    <3>3. synced' \in BOOLEAN /\ inbox' \in Seq(Notes) /\ lost' \subseteq Notes
      BY <3>1, <3>2, Arrival DEF Kept
    <3> QED
      BY <2>3, <3>1, <3>2, <3>3 DEF PostAnswered, device, Kept
  <2>4. CASE Register(a) \/ Reregister(a)
    BY <2>4 DEF Register, Reregister, Replace, stream, device, Kept
  <2>5. CASE FreeConnection(a)
    BY <2>5 DEF FreeConnection, device, history, Kept
  <2>6. CASE JoinAndFree(a)
    BY <2>6 DEF JoinAndFree, stream, device, Kept
  <2> QED
    BY <1>2, <2>1, <2>2, <2>3, <2>4, <2>5, <2>6 DEF CallStep
<1>3. ASSUME NEW a \in Callers, NEW c \in Calls, Begin(a, c) PROVE StreamTypes'
  BY <1>3 DEF Begin, stream, device, history, Kept
<1>4. ASSUME NEW g \in Notifiers, NotifierStep(g) PROVE StreamTypes'
  <2>1. CASE LoopTest(g) \/ ArgumentTest(g) \/ NotifierLocks(g) \/ ReceiveFreed(g)
    BY <2>1 DEF LoopTest, ArgumentTest, NotifierLocks, ReceiveFreed, stream, device, history, Kept
  <2>2. CASE Receive(g)
    <3>1. PICK m \in 0 .. MaxNotes : Received(g, m, AfterReceive(m), NULL)
      BY <2>2 DEF Receive
    <3>2. m \in Notes
      BY DEF Notes
    <3>3. synced' \in BOOLEAN /\ inbox' \in Seq(Notes) /\ lost' \subseteq Notes
      BY <3>1, <3>2, Arrival DEF Received, Kept
    <3> QED
      BY <3>1, <3>3 DEF Received, device, Kept
  <2>3. CASE Callback(g)
    <3>1. npc[g] = "call" /\ note[g] \in Notes /\ note[g] # NULL
      BY <2>3 DEF Callback, CalledBack, NotifierAt, Kept, Noted, ClientTypes
    <3>2. note[g] \in 1 .. MaxNotes
      BY <3>1, BoundsAreNaturals DEF Notes, NULL
    <3>3. seen' = Append(seen, note[g])
      BY <2>3 DEF Callback, CalledBack
    <3>4. seen' \in Seq(1 .. MaxNotes)
      BY <3>2, <3>3 DEF Kept
    <3> QED
      BY <2>3, <3>4 DEF Callback, CalledBack, stream, device, Kept
  <2> QED
    BY <1>4, <2>1, <2>2, <2>3 DEF NotifierStep
<1>5. CASE Relay
  <2>1. relayed' \in Notes
    BY <1>5, BoundsAreNaturals DEF Relay, Notes, Kept
  <2>2. inbox' \in Seq(Notes)
    BY <1>5, <2>1 DEF Relay, Kept
  <2> QED
    BY <1>5, <2>1, <2>2 DEF Relay, Client, history, Kept
<1>6. CASE Dies
  <2>1. inbox' \in Seq(Notes)
    BY <1>1, <1>6 DEF Dies, Kept
  <2> QED
    BY <1>6, <2>1 DEF Dies, Client, device, history, Kept
<1>7. CASE HangsUp \/ UNCHANGED vars
  BY <1>7 DEF HangsUp, Client, device, history, vars, Kept
<1> QED
  BY <1>2, <1>3, <1>4, <1>5, <1>6, <1>7 DEF Next

\* Every way to the callback sets "notification", and the callback resets it.
LEMMA NotedStep ==
  ASSUME IInv, Kept, [Next]_vars
  PROVE  Noted'
<1> USE DEF Noted
<1>1. /\ npc \in [Notifiers -> {"unborn", "loop", "test", "lock", "receive", "call", "done"}]
      /\ note \in [Notifiers -> Notes]
  BY DEF Kept, ClientTypes, IInv, Shape
<1>2. ASSUME UNCHANGED <<npc, note>> PROVE Noted'
  BY <1>2 DEF Kept
<1>3. ASSUME NEW a \in Callers, CallStep(a) PROVE Noted'
  <2>1. CASE Register(a) \/ Reregister(a)
    <3>1. /\ notifier = NULL /\ UNCHANGED note
          /\ npc' = npc \/ npc' = [npc EXCEPT ![created'] = "loop"]
      BY <2>1 DEF Register, Reregister, Replace, IInv, OneNotifier
    <3>2. \A g \in Notifiers : npc[g] # "call"
      BY <3>1, Kinds DEF IInv, OneNotifier, Running
    <3> QED
      BY <1>1, <3>1, <3>2 DEF Kept
  <2>2. CASE ~(Register(a) \/ Reregister(a))
    BY <1>2, <1>3, <2>2 DEF CallStep, Lock, Observe, Post, PostAnswered, Detach, Join, Restored,
       FreeConnection, ClearParent, ParentBecomes, JoinAndFree, threads
  <2> QED
    BY <2>1, <2>2
<1>4. ASSUME NEW a \in Callers, NEW c \in Calls, Begin(a, c) PROVE Noted'
  BY <1>2, <1>4 DEF Begin, threads
<1>5. ASSUME NEW g \in Notifiers, NotifierStep(g) PROVE Noted'
  <2>1. CASE LoopTest(g) \/ ArgumentTest(g) \/ NotifierLocks(g) \/ ReceiveFreed(g)
    BY <1>1, <2>1 DEF LoopTest, ArgumentTest, NotifierLocks, ReceiveFreed, NotifierAt, Kept
  <2>2. CASE Receive(g)
    BY <1>1, <2>2 DEF Receive, Received, NotifierAt, AfterReceive, Kept
  <2>3. CASE Callback(g)
    BY <1>1, <2>3 DEF Callback, CalledBack, NotifierAt, Kept
  <2> QED
    BY <1>5, <2>1, <2>2, <2>3 DEF NotifierStep
<1>6. CASE Relay \/ Dies \/ HangsUp \/ UNCHANGED vars
  BY <1>2, <1>6 DEF Relay, Dies, HangsUp, Client, threads, vars
<1> QED
  BY <1>3, <1>4, <1>5, <1>6 DEF Next

\* Every step keeps all of it.
LEMMA KeptStep == IInv /\ Kept /\ [Next]_vars => Kept'
BY DanglingStep, ClientTypesStep, StreamTypesStep, NotedStep, CountedStep DEF Kept

\* Every variable of the client, its threads and its connection has its type,
\* and MaxCalls notifier threads are enough for MaxCalls calls.
THEOREM TypeCorrect == Spec => []TypeOK
<1>1. IInv /\ Kept => TypeOK
  <2> SUFFICES ASSUME IInv, Kept PROVE TypeOK
    OBVIOUS
  <2>1. Notes \subseteq Nat /\ calls \in Nat /\ relayed \in Nat
    BY BoundsAreNaturals DEF Notes, Kept, ClientTypes, StreamTypes
  <2>2. created \in 0 .. MaxCalls
    <3>1. created \in Nat /\ Cardinality(Setters) \in Nat /\ calls \in 0 .. MaxCalls
      BY FS_CardinalityType DEF Kept, Counted, ClientTypes, IInv, Shape
    <3> QED
      BY <3>1, BoundsAreNaturals DEF Kept, Counted
  <2>3. inbox \in Seq(Nat) /\ note \in [Notifiers -> Nat] /\ swallowed \subseteq Nat
        /\ lost \subseteq Nat
    BY BoundsAreNaturals DEF Kept, ClientTypes, StreamTypes, Notes
  <2>4. /\ pc \in [Callers -> {"idle", "lock", "locked", "answer", "join", "detached", "free",
                               "clear", "wait", "gone"}]
        /\ call \in [Callers -> Calls \cup {"none"}]
        /\ npc \in [Notifiers -> {"unborn", "loop", "test", "lock", "receive", "call", "done"}]
    BY DEF IInv, Shape, Holding, Freeing
  <2>5. /\ ClientTypes /\ StreamTypes
    BY DEF Kept
  <2> HIDE DEF Notes, NULL, Notifiers, Calls
  <2> QED
    BY <2>1, <2>2, <2>3, <2>4, <2>5 DEF TypeOK, ClientTypes, StreamTypes
<1> QED
  BY InitIInv, StepIInv, InitKept, KeptStep, <1>1, PTL DEF Spec

-----------------------------------------------------------------------------
(* The order of the notifications: relayed in order, they stay in order on *)
(* the connection, on their way to the callback and in what it has seen.   *)

\* The messages of s that are notifications rise; those of s come after n.
Rising(s) == \A i, j \in DOMAIN s : i < j /\ s[i] # NULL /\ s[j] # NULL => s[i] < s[j]
After(n, s) == \A j \in DOMAIN s : s[j] # NULL => n < s[j]

\* A notification on its way to the callback is newer than what was seen and
\* older than what is still to be received.
OnItsWay(n) ==
  /\ n <= relayed
  /\ \A i \in DOMAIN seen : seen[i] < n
  /\ After(n, inbox)

Ordered ==
  /\ Rising(seen) /\ Rising(inbox)
  /\ \A i \in DOMAIN seen : seen[i] <= relayed /\ After(seen[i], inbox)
  /\ \A j \in DOMAIN inbox : inbox[j] <= relayed
  /\ \A g \in Notifiers : npc[g] = "call" => OnItsWay(note[g])

\* A message that is newer than all of s, or none, goes to its end.
LEMMA AppendRises ==
  ASSUME NEW s \in Seq(Nat), NEW e \in Nat, Rising(s),
         e = NULL \/ \A i \in DOMAIN s : s[i] < e
  PROVE  /\ Rising(Append(s, e))
         /\ \A i \in DOMAIN Append(s, e) :
              (i \in DOMAIN s /\ Append(s, e)[i] = s[i]) \/ Append(s, e)[i] = e
<1> DEFINE t == Append(s, e)
<1>1. DOMAIN t = 1 .. Len(s) + 1 /\ t[Len(s) + 1] = e /\ DOMAIN s = 1 .. Len(s) /\ Len(s) \in Nat
  OBVIOUS
<1>2. \A i \in 1 .. Len(s) : t[i] = s[i]
  OBVIOUS
<1> HIDE DEF t
<1>3. \A i \in DOMAIN t : (i \in DOMAIN s /\ t[i] = s[i]) \/ (i = Len(s) + 1 /\ t[i] = e)
  <2> SUFFICES ASSUME NEW i \in DOMAIN t
               PROVE  (i \in DOMAIN s /\ t[i] = s[i]) \/ (i = Len(s) + 1 /\ t[i] = e)
    OBVIOUS
  <2>1. i \in 1 .. Len(s) \/ i = Len(s) + 1
    BY <1>1
  <2> QED
    BY <1>1, <1>2, <2>1
<1>4. ASSUME NEW i \in DOMAIN t, NEW j \in DOMAIN t, i < j, t[i] # NULL, t[j] # NULL
      PROVE  t[i] < t[j]
  <2>1. i \in DOMAIN s /\ t[i] = s[i]
    BY <1>1, <1>2, <1>4
  <2>2. CASE j \in DOMAIN s
    BY <1>1, <1>2, <1>4, <2>1, <2>2 DEF Rising
  <2>3. CASE j = Len(s) + 1
    BY <1>1, <1>4, <2>1, <2>3
  <2> QED
    BY <1>3, <2>2, <2>3
<1>5. Rising(t)
  BY <1>4 DEF Rising
<1> QED
  BY <1>3, <1>5 DEF t

\* The rest of s keeps its order and comes after the head.
LEMMA TailRises ==
  ASSUME NEW s \in Seq(Nat), s # <<>>
  PROVE  /\ Rising(s) => Rising(Tail(s))
         /\ Rising(s) /\ Head(s) # NULL => After(Head(s), Tail(s))
         /\ \A n : After(n, s) => After(n, Tail(s))
         /\ \A i \in DOMAIN Tail(s) : i + 1 \in DOMAIN s /\ Tail(s)[i] = s[i + 1]
         /\ 1 \in DOMAIN s /\ Head(s) = s[1]
<1> DEFINE t == Tail(s)
<1>1. /\ DOMAIN t = 1 .. Len(s) - 1 /\ DOMAIN s = 1 .. Len(s) /\ Len(s) \in Nat /\ Len(s) > 0
      /\ Head(s) = s[1]
  OBVIOUS
<1>2. \A i \in DOMAIN t : t[i] = s[i + 1]
  OBVIOUS
<1> HIDE DEF t
<1>3. \A i \in DOMAIN t : i \in Nat /\ i + 1 \in DOMAIN s /\ t[i] = s[i + 1] /\ 1 < i + 1
  BY <1>1, <1>2
<1>4. 1 \in DOMAIN s
  BY <1>1
<1>5. Rising(s) => Rising(t)
  <2> SUFFICES ASSUME Rising(s), NEW i \in DOMAIN t, NEW j \in DOMAIN t, i < j, t[i] # NULL, t[j] # NULL
               PROVE  t[i] < t[j]
    BY DEF Rising
  <2>1. i + 1 < j + 1
    BY <1>3
  <2> QED
    BY <1>3, <2>1 DEF Rising
<1>6. Rising(s) /\ Head(s) # NULL => After(Head(s), t)
  BY <1>1, <1>3, <1>4 DEF Rising, After
<1>7. \A n : After(n, s) => After(n, t)
  BY <1>3 DEF After
<1> QED
  BY <1>1, <1>3, <1>4, <1>5, <1>6, <1>7 DEF t

\* Nothing has been relayed yet.
LEMMA InitOrdered == Init => Ordered
BY DEF Init, Ordered, Rising, After

\* What a receive leaves on the connection is in order, and what it took, if
\* it took anything, is next.
LEMMA ArrivalOrdered ==
  ASSUME StreamTypes, Ordered, NEW m, Arrives(m)
  PROVE  /\ Rising(inbox')
         /\ \A n : After(n, inbox) => After(n, inbox')
         /\ \A j \in DOMAIN inbox' : inbox'[j] <= relayed
         /\ m # NULL => /\ After(m, inbox') /\ m <= relayed
                        /\ \A i \in DOMAIN seen : seen[i] < m
<1>1. CASE UNCHANGED inbox /\ m = NULL
  BY <1>1 DEF Ordered
<1>2. CASE inbox # <<>> /\ inbox' = Tail(inbox) /\ (m = Head(inbox) \/ m = NULL)
  <2>1. inbox \in Seq(Nat)
    BY BoundsAreNaturals DEF StreamTypes, Notes
  <2>2. /\ Rising(inbox') /\ (\A n : After(n, inbox) => After(n, inbox'))
        /\ m # NULL => After(m, inbox')
    BY <1>2, <2>1, TailRises DEF Ordered
  <2>3. \A j \in DOMAIN inbox' : inbox'[j] <= relayed
    BY <1>2, <2>1, TailRises DEF Ordered
  <2>4. m # NULL => m <= relayed /\ \A i \in DOMAIN seen : seen[i] < m
    BY <1>2, <2>1, TailRises DEF Ordered, After
  <2> QED
    BY <2>2, <2>3, <2>4
<1> QED
  BY <1>1, <1>2 DEF Arrives

\* An arrival without a callback.
LEMMA ArrivalKeeps ==
  ASSUME StreamTypes, Ordered, NEW m, Arrives(m), UNCHANGED <<seen, relayed>>
  PROVE  /\ Rising(seen') /\ Rising(inbox')
         /\ \A i \in DOMAIN seen' : seen'[i] <= relayed' /\ After(seen'[i], inbox')
         /\ \A j \in DOMAIN inbox' : inbox'[j] <= relayed'
         /\ \A n : OnItsWay(n) => OnItsWay(n)'
         /\ m # NULL => OnItsWay(m)'
BY ArrivalOrdered DEF Ordered, OnItsWay

\* Every step keeps the order: a receive and a callback move the oldest
\* notification on, a relay adds a newer one, and other calls only drop some.
LEMMA OrderedStep ==
  ASSUME IInv, Kept, Ordered, [Next]_vars
  PROVE  Ordered'
<1>1. /\ inbox \in Seq(Nat) /\ seen \in Seq(Nat) /\ relayed \in Nat
      /\ npc \in [Notifiers -> {"unborn", "loop", "test", "lock", "receive", "call", "done"}]
      /\ note \in [Notifiers -> Notes]
  BY BoundsAreNaturals DEF Kept, StreamTypes, ClientTypes, Notes, IInv, Shape
<1>2. ASSUME UNCHANGED <<seen, inbox, relayed, note>>,
             \A g \in Notifiers : npc'[g] = "call" => npc[g] = "call"
      PROVE  Ordered'
  BY <1>2 DEF Ordered, OnItsWay
<1>3. ASSUME NEW a \in Callers, CallStep(a) PROVE Ordered'
  <2>1. CASE Lock(a) \/ Observe(a) \/ Post(a) \/ Detach(a) \/ Join(a) \/ ClearParent(a)
             \/ JoinAndFree(a)
    <3>1. UNCHANGED <<seen, inbox, relayed, note, npc>>
      BY <2>1 DEF Lock, Observe, Post, Detach, Join, Restored, ClearParent, ParentBecomes,
                  JoinAndFree, threads, stream, device, history
    <3> QED
      BY <1>2, <3>1
  <2>2. CASE Register(a) \/ Reregister(a)
    <3>1. /\ UNCHANGED <<seen, inbox, relayed, note>>
          /\ npc' = npc \/ npc' = [npc EXCEPT ![created'] = "loop"]
      BY <2>2 DEF Register, Reregister, Replace, stream, device
    <3> QED
      BY <1>1, <1>2, <3>1
  <2>3. CASE FreeConnection(a)
    <3>1. inbox' = <<>> /\ UNCHANGED <<seen, relayed, note, npc>>
      BY <2>3 DEF FreeConnection, threads, device, history
    <3>2. Rising(<<>>) /\ \A n : After(n, <<>>)
      BY DEF Rising, After
    <3> QED
      BY <3>1, <3>2 DEF Ordered, OnItsWay
  <2>4. CASE PostAnswered(a)
    <3>1. UNCHANGED <<seen, relayed, note, npc>>
      BY <2>4 DEF PostAnswered, device, threads
    <3> QED
      BY <2>4, <3>1, ArrivalKeeps DEF PostAnswered, Kept, Ordered
  <2> QED
    BY <1>3, <2>1, <2>2, <2>3, <2>4 DEF CallStep
<1>4. ASSUME NEW a \in Callers, NEW c \in Calls, Begin(a, c) PROVE Ordered'
  BY <1>2, <1>4 DEF Begin, threads, stream, device, history
<1>5. ASSUME NEW g \in Notifiers, NotifierStep(g) PROVE Ordered'
  <2>1. CASE LoopTest(g) \/ NotifierLocks(g) \/ ReceiveFreed(g)
    BY <1>1, <1>2, <2>1 DEF LoopTest, NotifierLocks, ReceiveFreed, NotifierAt, stream, device, history
  <2>2. CASE ArgumentTest(g)
    <3>1. npc[g] = "test" /\ note[g] = NULL
      BY <2>2 DEF ArgumentTest, NotifierAt, Kept, Noted
    <3> QED
      BY <1>1, <1>2, <2>2, <3>1 DEF ArgumentTest, NotifierAt, stream, device, history
  <2>3. CASE Receive(g)
    <3>1. PICK m \in 0 .. MaxNotes : Received(g, m, AfterReceive(m), NULL)
      BY <2>3 DEF Receive
    <3>2. /\ UNCHANGED <<seen, relayed>> /\ note' = [note EXCEPT ![g] = m]
          /\ npc' = [npc EXCEPT ![g] = AfterReceive(m)]
          /\ (m = NULL /\ UNCHANGED inbox) \/ Arrives(m)
      BY <3>1 DEF Received, NotifierAt, device
    <3>3. \A h \in Notifiers : npc'[h] = "call" =>
            (h = g /\ note'[h] = m /\ m # NULL) \/ (npc[h] = "call" /\ note'[h] = note[h])
      BY <1>1, <3>2 DEF AfterReceive
    <3>4. CASE m = NULL /\ UNCHANGED inbox
      BY <3>2, <3>3, <3>4 DEF Ordered, OnItsWay
    <3>5. CASE Arrives(m)
      BY <3>2, <3>3, <3>5, ArrivalKeeps DEF Kept, Ordered
    <3> QED
      BY <3>2, <3>4, <3>5
  <2>4. CASE Callback(g)
    <3>1. /\ npc[g] = "call" /\ seen' = Append(seen, note[g]) /\ UNCHANGED <<inbox, relayed>>
          /\ npc' = [npc EXCEPT ![g] = "loop"] /\ note[g] \in Nat
      BY <1>1, <2>4, BoundsAreNaturals DEF Callback, CalledBack, NotifierAt, stream, device, Notes
    <3>2. OnItsWay(note[g])
      BY <3>1 DEF Ordered
    <3>3. /\ Rising(seen')
          /\ \A i \in DOMAIN seen' : (i \in DOMAIN seen /\ seen'[i] = seen[i]) \/ seen'[i] = note[g]
      BY <1>1, <3>1, <3>2, AppendRises DEF Ordered, OnItsWay
    <3>4. \A h \in Notifiers : npc'[h] # "call"
      BY <1>1, <3>1 DEF IInv, OneNotifier, Running
    <3> QED
      BY <3>1, <3>2, <3>3, <3>4 DEF Ordered, OnItsWay
  <2> QED
    BY <1>5, <2>1, <2>2, <2>3, <2>4 DEF NotifierStep
<1>6. CASE Relay
  <2>1. /\ relayed' = relayed + 1 /\ relayed' \in Nat /\ inbox' = Append(inbox, relayed')
        /\ UNCHANGED <<seen, note, npc>>
    BY <1>1, <1>6 DEF Relay, Client, threads, history
  <2>2. \A j \in DOMAIN inbox : inbox[j] < relayed'
    BY <1>1, <2>1 DEF Ordered
  <2>3. /\ Rising(inbox')
        /\ \A j \in DOMAIN inbox' : (j \in DOMAIN inbox /\ inbox'[j] = inbox[j]) \/ inbox'[j] = relayed'
    BY <1>1, <2>1, <2>2, AppendRises DEF Ordered
  <2>4. \A n \in Nat : n <= relayed /\ After(n, inbox) => n <= relayed' /\ After(n, inbox')
    BY <1>1, <2>1, <2>3 DEF After
  <2>5. \A g \in Notifiers : npc'[g] = "call" => OnItsWay(note[g])'
    <3>1. \A g \in Notifiers : note[g] \in Nat
      BY <1>1, BoundsAreNaturals DEF Notes
    <3> QED
      BY <2>1, <2>4, <3>1 DEF Ordered, OnItsWay
  <2>6. \A i \in DOMAIN seen' : seen'[i] <= relayed' /\ After(seen'[i], inbox')
    BY <1>1, <2>1, <2>4 DEF Ordered
  <2>7. \A j \in DOMAIN inbox' : inbox'[j] <= relayed'
    BY <1>1, <2>1, <2>2, <2>3
  <2> QED
    BY <2>1, <2>3, <2>5, <2>6, <2>7 DEF Ordered
<1>7. CASE Dies
  <2>1. inbox' = Append(inbox, NULL) /\ UNCHANGED <<seen, note, npc, relayed>> /\ NULL \in Nat
        /\ NULL <= relayed
    BY <1>1, <1>7 DEF Dies, Client, threads, history, device, NULL
  <2>2. /\ Rising(inbox')
        /\ \A j \in DOMAIN inbox' : (j \in DOMAIN inbox /\ inbox'[j] = inbox[j]) \/ inbox'[j] = NULL
    BY <1>1, <2>1, AppendRises DEF Ordered
  <2>3. \A n : After(n, inbox) => After(n, inbox')
    BY <2>2 DEF After
  <2> QED
    BY <2>1, <2>2, <2>3 DEF Ordered, OnItsWay
<1>8. CASE HangsUp \/ UNCHANGED vars
  BY <1>2, <1>8 DEF HangsUp, Client, threads, device, history, vars
<1> QED
  BY <1>3, <1>4, <1>5, <1>6, <1>7, <1>8 DEF Next

\* The callbacks of a client, taken together, see each notification at most
\* once and in the order in which the device relayed them, whatever call
\* swallows some of them and however often the callback is replaced.
THEOREM SeenInOrder == Spec => []InOrderOnce
<1>1. IInv /\ Kept /\ Ordered => InOrderOnce
  <2> SUFFICES ASSUME Kept, Ordered PROVE InOrderOnce
    OBVIOUS
  <2>1. \A i \in DOMAIN seen : seen[i] # NULL
    BY BoundsAreNaturals DEF Kept, StreamTypes, NULL
  <2> QED
    BY <2>1 DEF Ordered, Rising, InOrderOnce
<1> QED
  BY InitIInv, StepIInv, InitKept, KeptStep, InitOrdered, OrderedStep, <1>1, PTL DEF Spec
=============================================================================
