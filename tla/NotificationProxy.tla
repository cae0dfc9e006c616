-------------------------- MODULE NotificationProxy --------------------------
(***************************************************************************)
(* libimobiledevice's notification proxy client: threads of an application *)
(* share one client, its connection and its mutex with a notifier thread   *)
(* that polls for notifications and calls the registered callback.         *)
(* np_set_notify_callback stops the notifier and may start another;        *)
(* np_client_free ends everything, without the mutex.                      *)
(*                                                                         *)
(* The application keeps to the obvious contract: a client is freed by its *)
(* owner, once, while no other call on it is in progress, and a callback   *)
(* makes no calls on it.  The device is outside src/.                      *)
(***************************************************************************)
EXTENDS Integers, Sequences

CONSTANTS
  Callers,      \* threads of the application
  Owner,        \* the one that frees the client
  MaxCalls,     \* bound: calls on the client
  MaxNotes      \* bound: notifications the device relays

ASSUME OwnerCalls == Owner \in Callers
ASSUME BoundsAreNaturals == MaxCalls \in Nat /\ MaxNotes \in Nat

\* Notifier threads in the order of their creation; 0 is a NULL pointer, no
\* holder, or a message that is not a RelayNotification.
Notifiers == 1 .. MaxCalls
NULL == 0
ASSUME CallersAreNoNumbers == Callers \cap (Notifiers \cup {NULL}) = {}

Calls == {"observe", "post", "set", "unset", "free"}

VARIABLES
  mutex,       \* client->mutex: its holder
  parent,      \* client->parent: "live", "null" or "dangling"
  notifier,    \* client->notifier
  pc, call,    \* each caller
  saved,       \* the local "parent" of np_set_notify_callback
  npc,         \* each notifier thread
  arg,         \* the connection its receive was given
  note,        \* its "notification"
  created,     \* notifier threads so far
  registered,  \* history: whose callback the application has registered
  link,        \* "up", "eof" (the device has closed) or "freed"
  synced,      \* is the next byte of the stream the first of a message
  inbox,       \* messages that have arrived
  observing,   \* the device relays notifications
  dying,       \* it was told to shut down
  relayed,     \* notifications so far
  seen,        \* history: what the callbacks were given
  swallowed,   \* history: what np_post_notification took for its answer
  lost,        \* history: what arrived in part
  calls,       \* counter of MaxCalls
  crashed      \* a freed connection was used, and that was noticed

device  == <<observing, dying, relayed>>
history == <<registered, seen, swallowed, lost>>
threads == <<npc, arg, note, created>>
stream  == <<link, synced, inbox>>
vars == <<mutex, parent, notifier, pc, call, saved, npc, arg, note, created, registered, link,
          synced, inbox, observing, dying, relayed, seen, swallowed, lost, calls, crashed>>

\* np_client_new has succeeded.
Init ==
  /\ mutex = NULL /\ parent = "live" /\ notifier = NULL
  /\ pc = [a \in Callers |-> "idle"] /\ call = [a \in Callers |-> "none"]
  /\ saved = [a \in Callers |-> "null"]
  /\ npc = [g \in Notifiers |-> "unborn"] /\ arg = [g \in Notifiers |-> "null"]
  /\ note = [g \in Notifiers |-> NULL] /\ created = 0
  /\ registered = NULL
  /\ link = "up" /\ synced = TRUE /\ inbox = <<>>
  /\ observing = FALSE /\ dying = FALSE /\ relayed = 0
  /\ seen = <<>> /\ swallowed = {} /\ lost = {}
  /\ calls = 0 /\ crashed = FALSE

-----------------------------------------------------------------------------
(* Receiving from a connection that exists.                                *)

\* m arrives.  A time-out, the end of the stream or an answer of another kind
\* give NULL, and so does a message of which only a part arrives in time,
\* after which the stream is out of step.
Arrives(m) ==
  \/ /\ inbox = <<>> \/ ~synced
     /\ m = NULL /\ UNCHANGED <<synced, inbox, lost>>
  \/ /\ inbox # <<>> /\ synced
     /\ inbox' = Tail(inbox)
     /\ \/ m = Head(inbox) /\ UNCHANGED <<synced, lost>>
        \/ m = NULL /\ synced' = FALSE /\ lost' = lost \cup {Head(inbox)}

-----------------------------------------------------------------------------
(* The calls of the application.                                           *)

Goto(a, from, to) == pc[a] = from /\ pc' = [pc EXCEPT ![a] = to]
Return(a, from) == Goto(a, from, "idle") /\ call' = [call EXCEPT ![a] = "none"]
Unlock == mutex' = NULL
Calling(a, cs) == pc[a] = "locked" /\ call[a] \in cs

Begin(a, c) ==
  /\ calls < MaxCalls /\ calls' = calls + 1
  /\ \A b \in Callers : call[b] # "free"
  /\ c = "free" => a = Owner /\ \A b \in Callers : call[b] = "none"
  /\ Goto(a, "idle", IF c = "free" THEN "free" ELSE "lock")
  /\ call' = [call EXCEPT ![a] = c]
  /\ UNCHANGED <<mutex, parent, notifier, saved, threads, stream, device, history, crashed>>

Lock(a) ==
  /\ mutex = NULL /\ mutex' = a
  /\ Goto(a, "lock", "locked")
  /\ UNCHANGED <<parent, notifier, call, saved, threads, stream, device, history, calls,
                 crashed>>

\* np_observe_notification.
Observe(a) ==
  /\ Calling(a, {"observe"})
  /\ observing' = (observing \/ (parent = "live" /\ link = "up"))
  /\ Return(a, "locked") /\ Unlock
  /\ UNCHANGED <<parent, notifier, saved, threads, stream, dying, relayed, history, calls,
                 crashed>>

\* np_post_notification sends the notification and a Shutdown ...
Post(a) ==
  /\ Calling(a, {"post"})
  /\ dying' = (dying \/ (parent = "live" /\ link = "up"))
  /\ Goto(a, "locked", "answer")
  /\ UNCHANGED <<mutex, parent, notifier, call, saved, threads, stream, observing, relayed,
                 history, calls, crashed>>

\* ... and throws away whatever comes next.
PostAnswered(a) ==
  /\ \E m \in 0 .. MaxNotes : Arrives(m) /\ swallowed' = swallowed \cup ({m} \ {NULL})
  /\ Return(a, "answer") /\ Unlock
  /\ UNCHANGED <<parent, notifier, saved, threads, link, device, registered, seen, calls,
                 crashed>>

\* np_set_notify_callback: "callback already set, removing".
Detach(a) ==
  /\ Calling(a, {"set", "unset"}) /\ notifier # NULL
  /\ saved' = [saved EXCEPT ![a] = parent]
  /\ parent' = "null"
  /\ Goto(a, "locked", "join")
  /\ UNCHANGED <<mutex, notifier, call, threads, stream, device, history, calls, crashed>>

\* notifier and parent, once the old notifier has ended.
Restored(a) ==
  /\ Goto(a, "join", "detached")
  /\ notifier' = NULL
  /\ parent' = saved[a]
  /\ UNCHANGED <<mutex, call, saved, threads, stream, device, history, calls, crashed>>

\* A slip: the notifier is not waited for.
JoinNever(a) == Restored(a)

\* g_thread_join, with the mutex held.
Join(a) == Restored(a) /\ npc[notifier] = "done"

\* No notifier runs: a new one is created, unless g_thread_create fails, or
\* there is no callback.
Replace(a, from) ==
  /\ Return(a, from) /\ Unlock
  /\ \/ /\ call[a] = "set"
        /\ created' = created + 1
        /\ npc' = [npc EXCEPT ![created'] = "loop"]
        /\ notifier' = created' /\ registered' = created'
     \/ registered' = NULL /\ UNCHANGED <<created, npc, notifier>>
  /\ UNCHANGED <<parent, saved, arg, note, stream, device, seen, swallowed, lost, calls,
                 crashed>>

Register(a)   == Calling(a, {"set", "unset"}) /\ notifier = NULL /\ Replace(a, "locked")
Reregister(a) == pc[a] = "detached" /\ Replace(a, "detached")

\* np_client_free: the connection, its field, the notifier, the client.
FreeConnection(a) ==
  /\ Goto(a, "free", "clear")
  /\ parent' = "dangling" /\ link' = "freed" /\ inbox' = <<>>
  /\ UNCHANGED <<mutex, notifier, call, saved, threads, synced, device, history, calls,
                 crashed>>

ParentBecomes(a, p) ==
  /\ pc[a] = "clear"
  /\ pc' = [pc EXCEPT ![a] = IF notifier = NULL THEN "gone" ELSE "wait"]
  /\ parent' = p
  /\ UNCHANGED <<mutex, notifier, call, saved, threads, stream, device, history, calls,
                 crashed>>

\* A slip: the field keeps its value.
ClearParentNever(a) == ParentBecomes(a, parent)

ClearParent(a) == ParentBecomes(a, "null")

JoinAndFree(a) ==
  /\ Goto(a, "wait", "gone")
  /\ npc[notifier] = "done"
  /\ registered' = NULL
  /\ UNCHANGED <<mutex, parent, notifier, call, saved, threads, stream, device, seen,
                 swallowed, lost, calls, crashed>>

-----------------------------------------------------------------------------
(* np_notifier.                                                            *)

NotifierAt(g, from, to) == npc[g] = from /\ npc' = [npc EXCEPT ![g] = to]

\* while (npt->client->parent)
LoopTest(g) ==
  /\ NotifierAt(g, "loop", IF parent = "null" THEN "done" ELSE "test")
  /\ UNCHANGED <<mutex, parent, notifier, pc, call, saved, arg, note, created, stream, device,
                 history, calls, crashed>>

\* np_get_notification looks at parent again, and at *notification.
ArgumentTest(g) ==
  /\ NotifierAt(g, "test", IF note[g] # NULL THEN "call"
                           ELSE IF parent = "null" THEN "loop" ELSE "lock")
  /\ UNCHANGED <<mutex, parent, notifier, pc, call, saved, arg, note, created, stream, device,
                 history, calls, crashed>>

NotifierLocks(g) ==
  /\ NotifierAt(g, "lock", "receive")
  /\ mutex = NULL /\ mutex' = g
  /\ arg' = [arg EXCEPT ![g] = parent]
  /\ UNCHANGED <<parent, notifier, pc, call, saved, note, created, stream, device, history,
                 calls, crashed>>

\* Half a second for a message; the notifier goes on to "to", the mutex to h.
Received(g, m, to, h) ==
  /\ arg[g] = "null" \/ link # "freed"
  /\ NotifierAt(g, "receive", to)
  /\ IF arg[g] = "null" THEN m = NULL /\ UNCHANGED <<synced, inbox, lost>> ELSE Arrives(m)
  /\ note' = [note EXCEPT ![g] = m]
  /\ mutex' = h
  /\ UNCHANGED <<parent, notifier, pc, call, saved, arg, created, link, device, registered,
                 seen, swallowed, calls, crashed>>

AfterReceive(m) == IF m = NULL THEN "loop" ELSE "call"

\* A slip: no message is handed over as if it were one.
ReceiveAlwaysCalls(g) == \E m \in 0 .. MaxNotes : Received(g, m, "call", NULL)

\* A slip: the early return for no message keeps the lock.
ReceiveKeepsLock(g) ==
  \E m \in 0 .. MaxNotes :
    Received(g, m, AfterReceive(m), IF m = NULL THEN mutex ELSE NULL)

Receive(g) == \E m \in 0 .. MaxNotes : Received(g, m, AfterReceive(m), NULL)

\* The connection was freed under it: nothing arrives, or the process ends.
ReceiveFreed(g) ==
  /\ arg[g] # "null" /\ link = "freed"
  /\ NotifierAt(g, "receive", "loop")
  /\ Unlock
  /\ crashed' \in BOOLEAN
  /\ UNCHANGED <<parent, notifier, pc, call, saved, arg, note, created, stream, device,
                 history, calls>>

\* cbfunc(notification); then "notification" is n.
CalledBack(g, n) ==
  /\ NotifierAt(g, "call", "loop")
  /\ seen' = Append(seen, note[g])
  /\ note' = [note EXCEPT ![g] = n]
  /\ UNCHANGED <<mutex, parent, notifier, pc, call, saved, arg, created, stream, device,
                 registered, swallowed, lost, calls, crashed>>

\* A slip: "notification" is not reset after the callback.
CallbackKeepsNote(g) == CalledBack(g, note[g])

\* free(notification); notification = NULL; sleep(1).
Callback(g) == CalledBack(g, NULL)

-----------------------------------------------------------------------------
(* The device (external).                                                  *)

Client == <<mutex, parent, notifier, pc, call, saved, threads, synced, history, calls, crashed>>

Relay ==
  /\ link = "up" /\ observing /\ relayed < MaxNotes
  /\ relayed' = relayed + 1
  /\ inbox' = Append(inbox, relayed')
  /\ UNCHANGED <<Client, link, observing, dying>>

\* ProxyDeath.
Dies ==
  /\ link = "up" /\ dying
  /\ link' = "eof" /\ inbox' = Append(inbox, NULL)
  /\ UNCHANGED <<Client, device>>

HangsUp ==
  /\ link = "up" /\ link' = "eof"
  /\ UNCHANGED <<Client, inbox, device>>

-----------------------------------------------------------------------------
CallStep(a) ==
  \/ Lock(a) \/ Observe(a) \/ Post(a) \/ PostAnswered(a)
  \/ Detach(a) \/ Join(a) \/ Register(a) \/ Reregister(a)
  \/ FreeConnection(a) \/ ClearParent(a) \/ JoinAndFree(a)

NotifierStep(g) ==
  \/ LoopTest(g) \/ ArgumentTest(g) \/ NotifierLocks(g)
  \/ Receive(g) \/ ReceiveFreed(g) \/ Callback(g)

Next ==
  /\ ~crashed
  /\ \/ \E a \in Callers : CallStep(a) \/ \E c \in Calls : Begin(a, c)
     \/ \E g \in Notifiers : NotifierStep(g)
     \/ Relay \/ Dies \/ HangsUp

Spec == Init /\ [][Next]_vars

\* Threads run, and a thread that waits for the mutex gets it in the end: the
\* others release it for at least the second np_notifier sleeps.
FairSpec ==
  /\ Spec
  /\ \A a \in Callers : SF_vars(~crashed /\ CallStep(a))
  /\ \A g \in Notifiers : SF_vars(~crashed /\ NotifierStep(g))

-----------------------------------------------------------------------------
Running(g) == npc[g] \notin {"unborn", "done"}

\* Type invariant.
TypeOK ==
  /\ mutex \in Callers \cup Notifiers \cup {NULL}
  /\ parent \in {"live", "null", "dangling"}
  /\ notifier \in Notifiers \cup {NULL} /\ registered \in Notifiers \cup {NULL}
  /\ pc \in [Callers -> {"idle", "lock", "locked", "answer", "join", "detached", "free",
                         "clear", "wait", "gone"}]
  /\ call \in [Callers -> Calls \cup {"none"}]
  /\ saved \in [Callers -> {"live", "null"}]
  /\ npc \in [Notifiers -> {"unborn", "loop", "test", "lock", "receive", "call", "done"}]
  /\ arg \in [Notifiers -> {"live", "null", "dangling"}]
  /\ note \in [Notifiers -> Nat] /\ created \in 0 .. MaxCalls
  /\ link \in {"up", "eof", "freed"} /\ synced \in BOOLEAN /\ inbox \in Seq(Nat)
  /\ observing \in BOOLEAN /\ dying \in BOOLEAN /\ relayed \in Nat
  /\ seen \in Seq(1 .. MaxNotes) /\ swallowed \subseteq Nat /\ lost \subseteq Nat
  /\ calls \in Nat /\ crashed \in BOOLEAN

\* "Only one callback function can be registered at the same time; any
\* previously set callback function will be removed": a notifier only runs
\* for the callback registered last, and only as long as its client exists.
OnlyRegisteredRuns ==
  \A g \in Notifiers : Running(g) => g = registered /\ pc[Owner] # "gone"

\* The callbacks of a client, taken together, see each notification at most
\* once and in the order in which the device relayed them.
InOrderOnce == \A i, j \in DOMAIN seen : i < j => seen[i] < seen[j]

\* np_client_free returns, unless the freed connection is its undoing.
FreeReturns == pc[Owner] = "free" ~> (pc[Owner] = "gone" \/ crashed)

\* While a callback is registered and no call is made that could end it or
\* takes the message instead, a notification that arrived is handed over.
Heard ==
  \A n \in 1 .. MaxNotes :
    (registered # NULL /\ \E i \in DOMAIN inbox : inbox[i] = n)
    ~> (\/ \E i \in DOMAIN seen : seen[i] = n
        \/ n \in swallowed \/ ~synced
        \/ \E a \in Callers : call[a] \in {"set", "unset", "free"})

\* "any previously set callback function will be removed automatically": the
\* call that replaces it returns.
SetReturns ==
  \A a \in Callers : call[a] \in {"set", "unset"} ~> call[a] = "none"
=============================================================================
