------------------------------ MODULE Delivery ------------------------------
(***************************************************************************)
(* The delivery transport (extensions/logos-delivery-rust/src/threaded.rs  *)
(* as the patch leaves it): the on/off switch and the outbox the callers   *)
(* use, the node thread's command loop with its periodic store pull, and   *)
(* the detached catch-up threads that replay the store into the inbound    *)
(* queue the client's worker reads.                                        *)
(*                                                                         *)
(* Every caller holds the core lock (GenericChatClient), and a command     *)
(* blocks its caller until the node thread has acknowledged it: callers    *)
(* never overlap, and a command is one step together with the call that    *)
(* issues it.  set_active issues one command per topic, so it is a step    *)
(* per topic, during which the node's timer, the catch-up threads and the  *)
(* node's events go on.                                                    *)
(*                                                                         *)
(* Time is counted in ticks of CATCHUP_TICK (20 s); CATCHUP_MIN_INTERVAL   *)
(* (18 s) is then one tick.  The embedded node, the relay and the store    *)
(* peer are external: a message carries its sender's time stamp, a node    *)
(* with a filter subscription may be handed it at any time or never, and   *)
(* the store has it within Delay ticks.                                    *)
(***************************************************************************)
EXTENDS Integers, FiniteSets

CONSTANTS
  Topic,       \* content topics
  Envelope,    \* envelopes this client publishes, each once
  Remote,      \* names of the messages other clients publish, each once
  Delay,       \* ticks within which the store has a published message
  Margin,      \* MARGIN_NS: overlap of consecutive look-back windows
  MinInterval, \* CATCHUP_MIN_INTERVAL_NS
  Retention,   \* the 30-day floor of a look-back window
  PageLimit,   \* paginationLimit of a store query
  Capacity,    \* capacity of the inbound queue
  NodeFails,   \* whether the node may refuse a command
  QueryFails,  \* whether a store query may fail
  MaxTime, MaxPulls

ASSUME DeliveryAssumption ==
  /\ IsFiniteSet(Topic) /\ IsFiniteSet(Remote)
  /\ Delay \in Nat /\ Margin \in Nat /\ Delay <= Margin
  /\ MinInterval \in Nat /\ Retention \in Nat /\ MaxTime \in Nat
  /\ PageLimit \in Nat \ {0} /\ Capacity \in Nat \ {0} /\ MaxPulls \in Nat
  /\ NodeFails \in BOOLEAN /\ QueryFails \in BOOLEAN

VARIABLES
  active,      \* the AtomicBool
  topics,      \* every topic the client asked for
  switching,   \* topics the set_active call in progress has yet to switch
  pending,     \* envelopes buffered while paused
  sent,        \* envelopes the node took
  handed,      \* envelopes take_pending has returned
  polled,      \* active_topics: what the node thread pulls
  filter,      \* the node's filter subscriptions
  lastCatchup, \* tick of each topic's last catch-up start
  pulls,       \* the catch-up threads in flight
  seen,        \* messages some catch-up has replayed
  lost,        \* messages a catch-up asked for in vain: the query failed, the page or
               \* the queue was full (history)
  queue,       \* the inbound queue
  arrived,     \* every message that ever got into the inbound queue
  now, published, store

gate == <<active, topics, switching>>
outbox == <<pending, sent, handed>>
node == <<polled, filter, lastCatchup>>
replayed == <<seen, lost>>
inbound == <<queue, arrived>>
world == <<now, published, store>>
vars == <<gate, outbox, node, pulls, replayed, inbound, world>>

Never == -1
Message == [id : Remote, topic : Topic, stamp : 0 .. MaxTime]

\* A catch-up thread: before its query is answered, and while it replays.
Pull == [topic : Topic, start : 0 .. MaxTime, asked : BOOLEAN, batch : SUBSET Message]

Largest(a, b) == IF a >= b THEN a ELSE b

\* Mutants of CatchupStart: consecutive windows do not overlap; the first window may
\* start before the epoch of the clock.
CatchupStartNoMargin(last, n) ==
  LET floor == Largest(n - Retention, 0) IN
  IF last = Never THEN floor ELSE Largest(last, floor)

CatchupStartUnfloored(last, n) ==
  IF last = Never THEN n - Retention ELSE Largest(last - Margin, n - Retention)

\* catchup_start_ns: everything the store keeps the first time, then from the last
\* catch-up less a margin.
CatchupStart(last, n) ==
  LET floor == Largest(n - Retention, 0) IN
  IF last = Never THEN floor ELSE Largest(last - Margin, floor)

Due(t) == lastCatchup[t] = Never \/ now - lastCatchup[t] >= MinInterval

\* Start one catch-up thread for each of the topics in T.
StartPulls(T) ==
  /\ pulls' = pulls \cup {[topic |-> t, start |-> CatchupStart(lastCatchup[t], now),
                           asked |-> FALSE, batch |-> {}] : t \in T}
  /\ Cardinality(pulls') <= MaxPulls
  /\ lastCatchup' = [t \in Topic |-> IF t \in T THEN now ELSE lastCatchup[t]]

Init ==
  /\ active = TRUE /\ topics = {} /\ switching = {}
  /\ pending = {} /\ sent = {} /\ handed = {}
  /\ polled = {} /\ filter = {} /\ lastCatchup = [t \in Topic |-> Never]
  /\ pulls = {} /\ seen = {} /\ lost = {} /\ queue = {} /\ arrived = {}
  /\ now = 0 /\ published = {} /\ store = {}

-----------------------------------------------------------------------------
(* The node thread executing one command.                                  *)

\* Mutant of NodeSubscribe: a refused topic is not polled.
NodeSubscribeIfTaken(t) ==
  \/ /\ polled' = polled \cup {t} /\ filter' = filter \cup {t}
     /\ StartPulls({t} \cap {u \in Topic : Due(u)})
  \/ NodeFails /\ UNCHANGED <<node, pulls>>

NodeSubscribe(t) ==
  /\ polled' = polled \cup {t}
  /\ \/ /\ filter' = filter \cup {t}
        /\ StartPulls({t} \cap {u \in Topic : Due(u)})
     \/ NodeFails /\ UNCHANGED <<filter, lastCatchup, pulls>>

NodeUnsubscribe(t) ==
  /\ polled' = polled \ {t}
  /\ \/ filter' = filter \ {t}
     \/ NodeFails /\ UNCHANGED filter
  /\ UNCHANGED <<lastCatchup, pulls>>

-----------------------------------------------------------------------------
(* The callers, under the core lock.                                       *)

Subscribe(t) ==
  /\ switching = {}
  /\ topics' = topics \cup {t}
  /\ IF active THEN NodeSubscribe(t) ELSE UNCHANGED <<node, pulls>>
  /\ UNCHANGED <<active, switching, outbox, replayed, inbound, world>>

Unsubscribe(t) ==
  /\ switching = {}
  /\ topics' = topics \ {t}
  /\ NodeUnsubscribe(t)
  /\ UNCHANGED <<active, switching, outbox, replayed, inbound, world>>

\* set_active on a change of state; otherwise it returns at once.
SetActive ==
  /\ switching = {}
  /\ active' = ~active
  /\ switching' = topics
  /\ UNCHANGED <<topics, outbox, node, pulls, replayed, inbound, world>>

\* One turn of set_active's loop; a command that fails is only logged.
SwitchTopic(t) ==
  /\ t \in switching
  /\ switching' = switching \ {t}
  /\ IF active THEN NodeSubscribe(t) ELSE NodeUnsubscribe(t)
  /\ UNCHANGED <<active, topics, outbox, replayed, inbound, world>>

\* An envelope the node refuses is the caller's error, and gone.
Publish(e) ==
  /\ switching = {}
  /\ e \notin pending \cup sent \cup handed
  /\ IF active THEN sent' = sent \cup {e} /\ UNCHANGED pending
               ELSE pending' = pending \cup {e} /\ UNCHANGED sent
  /\ UNCHANGED <<gate, handed, node, pulls, replayed, inbound, world>>

\* Mutant of TakePending: the buffer is read, not drained.
TakePendingKept ==
  /\ switching = {} /\ pending # {}
  /\ handed' = handed \cup pending
  /\ UNCHANGED <<gate, pending, sent, node, pulls, replayed, inbound, world>>

TakePending ==
  /\ switching = {} /\ pending # {}
  /\ handed' = handed \cup pending
  /\ pending' = {}
  /\ UNCHANGED <<gate, sent, node, pulls, replayed, inbound, world>>

CatchupNow ==
  /\ switching = {} /\ active
  /\ StartPulls(polled)
  /\ UNCHANGED <<gate, outbox, polled, filter, replayed, inbound, world>>

-----------------------------------------------------------------------------
(* The node thread's timer, the catch-up threads, the node's events and    *)
(* the worker.                                                             *)

\* recv_timeout expired: pull every polled topic that is due.
Tick ==
  /\ \E t \in polled : Due(t)
  /\ StartPulls({t \in polled : Due(t)})
  /\ UNCHANGED <<gate, outbox, polled, filter, replayed, inbound, world>>

\* What the store may answer a query for the window W: its newest PageLimit messages.
Pages(W) ==
  {b \in SUBSET W :
     /\ Cardinality(b) = IF Cardinality(W) < PageLimit THEN Cardinality(W) ELSE PageLimit
     /\ \A m \in b, o \in W \ b : m.stamp >= o.stamp}

\* The thread p goes on with the batch b; with nothing left it ends.  (Threads in
\* the same state are one element of pulls: what they do is idempotent.)
Continue(p, b) ==
  pulls' = (pulls \ {p}) \cup
           (IF b = {} THEN {} ELSE {[p EXCEPT !.asked = TRUE, !.batch = b]})

\* The window of a catch-up: what the store has of its topic from its start on.
Window(p) == {m \in store : m.topic = p.topic /\ m.stamp >= p.start}

Query(p) ==
  /\ ~p.asked
  /\ \E b \in Pages(Window(p)) : Continue(p, b) /\ lost' = lost \cup (Window(p) \ b)
  /\ UNCHANGED <<gate, outbox, node, seen, inbound, world>>

\* Both attempts at the query failed, or its answer is of no use.
QueryFailed(p) ==
  /\ QueryFails /\ ~p.asked
  /\ Continue(p, {}) /\ lost' = lost \cup Window(p)
  /\ UNCHANGED <<gate, outbox, node, seen, inbound, world>>

\* Fan-out with try_send: a full queue drops the message.
Enqueue(m) ==
  IF Cardinality(queue) < Capacity
  THEN queue' = queue \cup {m} /\ arrived' = arrived \cup {m}
  ELSE UNCHANGED inbound

\* One message of a batch: skipped if a catch-up has replayed it before.
Replay(p, m) ==
  /\ m \in p.batch
  /\ Continue(p, p.batch \ {m})
  /\ IF m \in seen THEN UNCHANGED <<replayed, inbound>>
     ELSE /\ seen' = seen \cup {m} /\ Enqueue(m)
          /\ lost' = IF m \in arrived' THEN lost ELSE lost \cup {m}
  /\ UNCHANGED <<gate, outbox, node, world>>

LiveEvent(m) ==
  /\ m.topic \in filter
  /\ Enqueue(m)
  /\ UNCHANGED <<gate, outbox, node, pulls, replayed, world>>

\* The worker takes a message off the queue; handling it needs the core lock.
Handle(m) ==
  /\ switching = {}
  /\ queue' = queue \ {m}
  /\ UNCHANGED <<gate, outbox, node, pulls, replayed, arrived, world>>

-----------------------------------------------------------------------------
(* Other clients, the store peer and the clock.                            *)

RemotePublish(i, t) ==
  /\ \A m \in published : m.id # i
  /\ published' = published \cup {[id |-> i, topic |-> t, stamp |-> now]}
  /\ UNCHANGED <<gate, outbox, node, pulls, replayed, inbound, now, store>>

Archive(m) ==
  /\ m \notin store
  /\ store' = store \cup {m}
  /\ UNCHANGED <<gate, outbox, node, pulls, replayed, inbound, now, published>>

Pass ==
  /\ now < MaxTime
  /\ \A m \in published \ store : now < m.stamp + Delay
  /\ now' = now + 1
  /\ UNCHANGED <<gate, outbox, node, pulls, replayed, inbound, published, store>>

Next ==
  \/ \E t \in Topic : Subscribe(t) \/ Unsubscribe(t) \/ SwitchTopic(t)
  \/ SetActive
  \/ \E e \in Envelope : Publish(e)
  \/ TakePending
  \/ CatchupNow \/ Tick
  \/ \E p \in pulls : Query(p) \/ QueryFailed(p) \/ \E m \in p.batch : Replay(p, m)
  \/ \E m \in published : LiveEvent(m) \/ Archive(m)
  \/ \E m \in queue : Handle(m)
  \/ \E i \in Remote, t \in Topic : RemotePublish(i, t)
  \/ Pass

Spec == Init /\ [][Next]_vars

-----------------------------------------------------------------------------
\* Type correctness: a look-back window never starts before the clock does
\* (saturating_sub), no message arrives that nobody published, and set_active only
\* switches topics the client asked for.
TypeOK ==
  /\ active \in BOOLEAN /\ topics \subseteq Topic /\ switching \subseteq topics
  /\ pending \subseteq Envelope /\ sent \subseteq Envelope /\ handed \subseteq Envelope
  /\ polled \subseteq Topic /\ filter \subseteq Topic
  /\ lastCatchup \in [Topic -> 0 .. MaxTime \cup {Never}]
  /\ pulls \subseteq Pull
  /\ now \in 0 .. MaxTime /\ published \subseteq Message /\ store \subseteq published
  /\ seen \cup lost \subseteq store /\ arrived \subseteq published /\ queue \subseteq arrived

\* The node pulls exactly the topics the client asked for while delivery is on and
\* none while it is off, halfway through a switch and whatever the node refused.
PolledFollowsSwitch ==
  polled = IF active THEN topics \ switching ELSE switching

\* An envelope travels by one transport: what was buffered for the mesh is never
\* also given to the node, and is handed out once.
OneTransport ==
  /\ sent \cap (pending \cup handed) = {}
  /\ pending \cap handed = {}

\* Every stored message of a polled topic that the next look-back window will not reach
\* any more, within the retention, has got into the inbound queue or is about to.
Reached(m) ==
  LET t == m.topic IN
  /\ t \in polled /\ lastCatchup[t] # Never
  /\ m.stamp >= now - Retention
  /\ m.stamp < CatchupStart(lastCatchup[t], now)
  => \/ m \in arrived
     \/ \E p \in pulls : /\ p.topic = t
                         /\ IF p.asked THEN m \in p.batch \ seen ELSE p.start <= m.stamp

\* The windows leave no gap: a message is missed only if the query that asked for it
\* failed, its page was full or the queue was full when it was replayed.
NothingMissed == \A m \in store \ lost : Reached(m)

\* "missed messages arrive WITHOUT the user having to send", whatever became of a query.
NothingMissedEver == \A m \in store : Reached(m)
=============================================================================
