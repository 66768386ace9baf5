------------------------------- MODULE Observer -------------------------------
(***************************************************************************)
(* observable.Observer (src/common/observable): items that are emitted to  *)
(* a Subscriber, which a goroutine hands to the subscribers of its own.    *)
(* Nobody waits: an item that finds a buffer full is dropped there.  The   *)
(* owner of the Subscriber may close it as well as the Observer.           *)
(***************************************************************************)
EXTENDS Naturals, Sequences

CONSTANTS Listeners,      \* who may subscribe, once each
          Buffer,         \* size of the buffers
          MaxItems,       \* bound on the items: 1, 2, ...
          Closers         \* goroutines that close the Observer

ASSUME ObserverAssumption == Buffer \in Nat \ {0} /\ MaxItems \in Nat

\* A Subscriber: its buffer and whether done is closed.
NewSubscriber == [buffer |-> <<>>, done |-> FALSE]

\* Subscriber.Emit, whose check of done and write into the buffer make one
\* step: what is written after done is read by nobody or taken by the select.
EmitTo(s, item) ==
  IF s.done \/ Len(s.buffer) = Buffer THEN s ELSE [s EXCEPT !.buffer = Append(@, item)]

\* Mutation: it is not closed.
CloseNothing(s) == s
\* Subscriber.Close, where nobody else closes it
CloseSubscriber(s) == [s EXCEPT !.done = TRUE]

VARIABLES
  subscriber,   \* what Emit writes to
  observerDone, \* o.done
  listener,     \* Subscribers of those who have subscribed, and what they have read
  listed,       \* who is in the map o.listener
  process,      \* the goroutine: "select", "emit", "closing", "ended"
  entry,        \* the item it holds
  emitted,
  owner,        \* Close of the Subscriber by its owner: "idle", "open", "closed"
  closer,       \* Close of the Observer by each of Closers: "idle", "open", "closed"
  panicked      \* a channel was closed twice

observerVars == <<subscriber, observerDone, listener, listed, process, entry, emitted, owner, closer, panicked>>

\* not yet subscribed
Nobody == [sub |-> NewSubscriber, read |-> <<>>, state |-> "new"]

ObserverInit ==
  /\ subscriber = NewSubscriber /\ observerDone = FALSE
  /\ listener = [l \in Listeners |-> Nobody] /\ listed = {}
  /\ process = "select" /\ entry = 0 /\ emitted = 0
  /\ owner = "idle" /\ closer = [c \in Closers |-> "idle"] /\ panicked = FALSE

\* Observer.Close holds the mutex between its two steps.
Unlocked == \A c \in Closers : closer[c] # "open"

Emit ==
  /\ emitted < MaxItems /\ emitted' = emitted + 1
  /\ subscriber' = EmitTo(subscriber, emitted + 1)
  /\ UNCHANGED <<observerDone, listener, listed, process, entry, owner, closer, panicked>>

\* select of the items and done: either when both are there.
ProcessTakes ==
  /\ process = "select" /\ subscriber.buffer # <<>>
  /\ entry' = Head(subscriber.buffer) /\ subscriber' = [subscriber EXCEPT !.buffer = Tail(@)]
  /\ process' = "emit"
  /\ UNCHANGED <<observerDone, listener, listed, emitted, owner, closer, panicked>>
ProcessEmits ==
  /\ process = "emit" /\ Unlocked
  /\ listener' = [l \in Listeners |->
       IF l \in listed THEN [listener[l] EXCEPT !.sub = EmitTo(@, entry)] ELSE listener[l]]
  /\ process' = "select" /\ entry' = 0
  /\ UNCHANGED <<subscriber, observerDone, listed, emitted, owner, closer, panicked>>
ProcessStops ==
  /\ process = "select" /\ subscriber.done /\ process' = "closing"
  /\ UNCHANGED <<subscriber, observerDone, listener, listed, entry, emitted, owner, closer, panicked>>
ProcessCloses ==
  /\ process = "closing" /\ Unlocked
  /\ listener' = [l \in Listeners |->
       IF l \in listed THEN [listener[l] EXCEPT !.sub = CloseSubscriber(@)] ELSE listener[l]]
  /\ process' = "ended"
  /\ UNCHANGED <<subscriber, observerDone, listed, entry, emitted, owner, closer, panicked>>

\* late: the goroutine has ended, and nobody will close the subscription.
Subscribe(l) ==
  /\ Unlocked /\ listener[l].state = "new"
  /\ IF observerDone
     THEN listener' = [listener EXCEPT ![l].state = "refused"] /\ UNCHANGED listed
     ELSE /\ listener' = [listener EXCEPT ![l].state = IF process = "ended" THEN "late" ELSE "subscribed"]
          /\ listed' = listed \cup {l}
  /\ UNCHANGED <<subscriber, observerDone, process, entry, emitted, owner, closer, panicked>>
UnSubscribe(l) ==
  /\ Unlocked /\ l \in listed
  /\ listed' = listed \ {l}
  /\ listener' = [listener EXCEPT ![l].sub = CloseSubscriber(@)]
  /\ UNCHANGED <<subscriber, observerDone, process, entry, emitted, owner, closer, panicked>>

\* The subscriber reads its channel.
Receive(l) ==
  /\ listener[l].sub.buffer # <<>>
  /\ listener' = [listener EXCEPT ![l].read = Append(@, Head(listener[l].sub.buffer)), ![l].sub.buffer = Tail(@)]
  /\ UNCHANGED <<subscriber, observerDone, listed, process, entry, emitted, owner, closer, panicked>>

\* Subscriber.Close finds done open, and closes it: a second Close may come
\* in between.
ClosesDone == subscriber' = [subscriber EXCEPT !.done = TRUE] /\ panicked' = (panicked \/ subscriber.done)
OwnerChecks ==
  /\ owner = "idle" /\ owner' = IF subscriber.done THEN "closed" ELSE "open"
  /\ UNCHANGED <<subscriber, observerDone, listener, listed, process, entry, emitted, closer, panicked>>
OwnerCloses ==
  /\ owner = "open" /\ owner' = "closed" /\ ClosesDone
  /\ UNCHANGED <<observerDone, listener, listed, process, entry, emitted, closer>>

\* Mutation: Close does not take the mutex.
ObserverChecksUnlocked(c) ==
  /\ closer[c] = "idle"
  /\ closer' = [closer EXCEPT ![c] = IF observerDone \/ subscriber.done THEN "closed" ELSE "open"]
  /\ observerDone' = (observerDone \/ subscriber.done)
  /\ UNCHANGED <<subscriber, listener, listed, process, entry, emitted, owner, panicked>>
\* Observer.Close, which takes the mutex and looks at o.done, and then at the
\* Subscriber's
ObserverChecks(c) ==
  /\ Unlocked /\ closer[c] = "idle"
  /\ closer' = [closer EXCEPT ![c] = IF observerDone \/ subscriber.done THEN "closed" ELSE "open"]
  /\ observerDone' = (observerDone \/ subscriber.done)
  /\ UNCHANGED <<subscriber, listener, listed, process, entry, emitted, owner, panicked>>
ObserverCloses(c) ==
  /\ closer[c] = "open" /\ closer' = [closer EXCEPT ![c] = "closed"]
  /\ ClosesDone /\ observerDone' = TRUE
  /\ UNCHANGED <<listener, listed, process, entry, emitted, owner>>

Process == ProcessTakes \/ ProcessEmits \/ ProcessStops \/ ProcessCloses
ObserverNext ==
  \/ Emit \/ Process
  \/ \E l \in Listeners : Subscribe(l) \/ UnSubscribe(l) \/ Receive(l)
  \/ OwnerChecks \/ OwnerCloses
  \/ \E c \in Closers : ObserverChecks(c) \/ ObserverCloses(c)

\* The goroutine runs, Close does not stop half-way, and a select whose two
\* cases are ready takes done at last: the items end.
ObserverFairness ==
  /\ WF_observerVars(Process) /\ WF_observerVars(OwnerCloses)
  /\ \A c \in Closers : WF_observerVars(ObserverCloses(c))
ObserverSpec == ObserverInit /\ [][ObserverNext]_observerVars /\ ObserverFairness

-----------------------------------------------------------------------------
Given(l) == listener[l].read \o listener[l].sub.buffer

\* Subscribers get items in the order they were emitted and each once,
\* whichever were dropped; and goroutines that close the Observer, however
\* many and whenever, never close a channel twice: they hold the mutex between
\* the select on done and close(done).  The owner of the Subscriber has no
\* mutex: only where it has closed it as well may the program have panicked.
ObserverInv ==
  /\ \A l \in Listeners : \A i, j \in DOMAIN Given(l) : i < j => Given(l)[i] < Given(l)[j]
  /\ panicked => owner = "closed"

\* Once the Subscriber is closed, by whichever Close, every subscription ends;
\* but one that is made when the goroutine has ended never does: o.done is
\* set by the Observer's own Close alone.
SubscriptionsEnd ==
  subscriber.done ~> \A l \in Listeners :
                       listener[l].state = "subscribed" => listener[l].sub.done
=============================================================================
