-------------------------- MODULE Delivery_proofs --------------------------
(***************************************************************************)
(* Theorems about Delivery for any topics, envelopes and messages, any     *)
(* limits, and whatever the node and the store refuse.                     *)
(***************************************************************************)
EXTENDS Delivery, TLAPS

\* The part of the state the switch and the outbox live in.
GateOK ==
  /\ active \in BOOLEAN /\ topics \subseteq Topic /\ switching \subseteq topics
  /\ PolledFollowsSwitch

\* A step of the node's timer, the catch-up threads, the worker, the outbox, other
\* clients or the clock leaves the switch and the polled topics alone.
LEMMA GateSteps ==
  ASSUME [Next]_vars
  PROVE  \/ UNCHANGED <<gate, polled>>
         \/ \E t \in Topic : Subscribe(t) \/ Unsubscribe(t) \/ SwitchTopic(t)
         \/ SetActive
BY DEF Next, vars, gate, node, Publish, TakePending, CatchupNow, Tick, Query, QueryFailed,
       Replay, LiveEvent, Handle, RemotePublish, Archive, Pass

\* The node pulls what the client asked for while delivery is on and nothing while
\* it is off, whatever commands the node refuses on the way.
THEOREM PolledFollows == Spec => []PolledFollowsSwitch
<1>1. Init => GateOK
  BY DEF Init, GateOK, PolledFollowsSwitch
<1>2. GateOK /\ [Next]_vars => GateOK'
  <2> SUFFICES ASSUME GateOK, [Next]_vars PROVE GateOK'
    OBVIOUS
  <2>1. CASE UNCHANGED <<gate, polled>>
    BY <2>1 DEF GateOK, PolledFollowsSwitch, gate
  <2>2. ASSUME NEW t \in Topic, Subscribe(t) PROVE GateOK'
    <3>1. /\ switching = {} /\ topics' = topics \cup {t} /\ UNCHANGED <<active, switching>>
          /\ polled' = IF active THEN polled \cup {t} ELSE polled
      BY <2>2 DEF Subscribe, NodeSubscribe, node
    <3>2. QED
      BY <3>1 DEF GateOK, PolledFollowsSwitch
  <2>3. ASSUME NEW t \in Topic, Unsubscribe(t) PROVE GateOK'
    <3>1. /\ switching = {} /\ topics' = topics \ {t} /\ UNCHANGED <<active, switching>>
          /\ polled' = polled \ {t}
      BY <2>3 DEF Unsubscribe, NodeUnsubscribe
    <3>2. QED
      BY <3>1 DEF GateOK, PolledFollowsSwitch
  <2>4. ASSUME NEW t \in Topic, SwitchTopic(t) PROVE GateOK'
    <3>1. /\ t \in switching /\ switching' = switching \ {t} /\ UNCHANGED <<active, topics>>
          /\ polled' = IF active THEN polled \cup {t} ELSE polled \ {t}
      BY <2>4 DEF SwitchTopic, NodeSubscribe, NodeUnsubscribe
    <3>2. QED
      BY <3>1 DEF GateOK, PolledFollowsSwitch
  <2>5. CASE SetActive
    <3>1. /\ switching = {} /\ active' = ~active /\ switching' = topics
          /\ UNCHANGED <<topics, polled>>
      BY <2>5 DEF SetActive, node
    <3>2. QED
      BY <3>1 DEF GateOK, PolledFollowsSwitch
  <2>6. QED
    BY <2>1, <2>2, <2>3, <2>4, <2>5, GateSteps
<1>3. QED
  BY <1>1, <1>2, PTL DEF Spec, GateOK

\* No envelope is both buffered for the mesh and given to the node, nor handed out
\* twice.
THEOREM OneTransportOnly == Spec => []OneTransport
<1>1. Init => OneTransport
  BY DEF Init, OneTransport
<1>2. OneTransport /\ [Next]_vars => OneTransport'
  <2> SUFFICES ASSUME OneTransport, [Next]_vars PROVE OneTransport'
    OBVIOUS
  <2>1. CASE UNCHANGED outbox
    BY <2>1 DEF OneTransport, outbox
  <2>2. ASSUME NEW e \in Envelope, Publish(e) PROVE OneTransport'
    BY <2>2 DEF Publish, OneTransport
  <2>3. CASE TakePending
    BY <2>3 DEF TakePending, OneTransport
  <2>4. \/ UNCHANGED outbox \/ TakePending \/ \E e \in Envelope : Publish(e)
    BY DEF Next, vars, Subscribe, Unsubscribe, SetActive, SwitchTopic, CatchupNow, Tick,
           Query, QueryFailed, Replay, LiveEvent, Handle, RemotePublish, Archive, Pass
  <2>5. QED
    BY <2>1, <2>2, <2>3, <2>4
<1>3. QED
  BY <1>1, <1>2, PTL DEF Spec

-----------------------------------------------------------------------------
\* The types, with what holds of a catch-up thread: it has a batch only once its query
\* was answered, and all of the batch is in the store.
Typed ==
  /\ TypeOK
  /\ \A p \in pulls : p.batch \subseteq store /\ (p.batch # {} => p.asked)

LEMMA CatchupStartType ==
  ASSUME NEW l \in 0 .. MaxTime \cup {Never}, NEW n \in 0 .. MaxTime, l <= n
  PROVE  CatchupStart(l, n) \in 0 .. n
BY DeliveryAssumption DEF CatchupStart, Largest, Never

\* A catch-up never starts in the future.
StartedBefore == \A t \in Topic : lastCatchup[t] <= now

\* A thread that has just been started, or one that goes on with a batch.
LEMMA PullsStarted ==
  ASSUME Typed, StartedBefore, NEW T \in SUBSET Topic, StartPulls(T)
  PROVE  /\ pulls' \subseteq Pull
         /\ \A p \in pulls' : p \in pulls \/ (p.batch = {} /\ ~p.asked)
         /\ lastCatchup' \in [Topic -> 0 .. MaxTime \cup {Never}]
         /\ \A t \in Topic : lastCatchup'[t] <= now
<1>1. now \in 0 .. MaxTime /\ lastCatchup \in [Topic -> 0 .. MaxTime \cup {Never}] /\ pulls \subseteq Pull
  BY DEF Typed, TypeOK
<1>2. ASSUME NEW t \in T
      PROVE  [topic |-> t, start |-> CatchupStart(lastCatchup[t], now), asked |-> FALSE,
              batch |-> {}] \in Pull
  <2>1. CatchupStart(lastCatchup[t], now) \in 0 .. now
    BY <1>1, CatchupStartType DEF StartedBefore
  <2>2. CatchupStart(lastCatchup[t], now) \in 0 .. MaxTime
    BY <1>1, <2>1, DeliveryAssumption
  <2>3. QED
    BY <2>2 DEF Pull
<1>3. QED
  BY <1>1, <1>2, DeliveryAssumption DEF StartPulls, StartedBefore

LEMMA PullContinues ==
  ASSUME Typed, NEW p \in pulls, NEW b, b \subseteq store, Continue(p, b)
  PROVE  /\ pulls' \subseteq Pull
         /\ \A q \in pulls' : q \in pulls \/ (q.batch = b /\ q.asked)
<1>1. pulls \subseteq Pull /\ store \subseteq Message
  BY DEF Typed, TypeOK
<1>2. p \in Pull /\ b \in SUBSET Message
  BY <1>1
<1>3. [p EXCEPT !.asked = TRUE, !.batch = b] \in Pull
  BY <1>2 DEF Pull
<1>4. [p EXCEPT !.asked = TRUE, !.batch = b].batch = b /\ [p EXCEPT !.asked = TRUE, !.batch = b].asked
  BY <1>2 DEF Pull
<1>5. QED
  BY <1>1, <1>3, <1>4 DEF Continue

\* A look-back window never starts before the clock does, whatever the retention, the
\* margin and the clock; and no message comes from nowhere.
THEOREM TypedAlways == Spec => [](Typed /\ StartedBefore)
<1>1. Init => Typed /\ StartedBefore
  BY DeliveryAssumption DEF Init, Typed, TypeOK, StartedBefore, Never
<1>2. Typed /\ StartedBefore /\ [Next]_vars => Typed' /\ StartedBefore'
  <2> SUFFICES ASSUME Typed, StartedBefore, [Next]_vars PROVE Typed' /\ StartedBefore'
    OBVIOUS
  <2> USE DEF Typed, TypeOK, StartedBefore
  <2>1. CASE UNCHANGED vars
    BY <2>1 DEF vars, gate, outbox, node, replayed, inbound, world
  <2>2. ASSUME NEW t \in Topic, Subscribe(t) PROVE Typed' /\ StartedBefore'
    <3>1. CASE UNCHANGED <<pulls, lastCatchup>>
      BY <2>2, <3>1 DEF Subscribe, NodeSubscribe, node, outbox, replayed, inbound, world
    <3>2. CASE active /\ StartPulls({t} \cap {u \in Topic : Due(u)})
      BY <2>2, <3>2, PullsStarted DEF Subscribe, NodeSubscribe, outbox, replayed, inbound, world
    <3>3. QED
      BY <2>2, <3>1, <3>2 DEF Subscribe, NodeSubscribe, node
  <2>3. ASSUME NEW t \in Topic, Unsubscribe(t) PROVE Typed' /\ StartedBefore'
    BY <2>3 DEF Unsubscribe, NodeUnsubscribe, outbox, replayed, inbound, world
  <2>4. ASSUME NEW t \in Topic, SwitchTopic(t) PROVE Typed' /\ StartedBefore'
    <3>1. CASE UNCHANGED <<pulls, lastCatchup>>
      BY <2>4, <3>1 DEF SwitchTopic, NodeSubscribe, NodeUnsubscribe, node, outbox, replayed, inbound, world
    <3>2. CASE active /\ StartPulls({t} \cap {u \in Topic : Due(u)})
      BY <2>4, <3>2, PullsStarted DEF SwitchTopic, NodeSubscribe, outbox, replayed, inbound, world
    <3>3. QED
      BY <2>4, <3>1, <3>2 DEF SwitchTopic, NodeSubscribe, NodeUnsubscribe
  <2>5. CASE SetActive
    BY <2>5 DEF SetActive, outbox, node, replayed, inbound, world
  <2>6. ASSUME NEW e \in Envelope, Publish(e) PROVE Typed' /\ StartedBefore'
    BY <2>6 DEF Publish, gate, node, replayed, inbound, world
  <2>7. CASE TakePending
    BY <2>7 DEF TakePending, gate, node, replayed, inbound, world
  <2>8. CASE CatchupNow
    BY <2>8, PullsStarted DEF CatchupNow, gate, outbox, replayed, inbound, world
  <2>9. CASE Tick
    BY <2>9, PullsStarted DEF Tick, gate, outbox, replayed, inbound, world
  <2>10. ASSUME NEW p \in pulls, Query(p) \/ QueryFailed(p) PROVE Typed' /\ StartedBefore'
    <3>1. PICK b \in SUBSET Window(p) : Continue(p, b)
      BY <2>10 DEF Query, QueryFailed, Pages
    <3>2. Window(p) \subseteq store
      BY DEF Window
    <3>3. lost' \subseteq store /\ UNCHANGED <<gate, outbox, node, seen, inbound, world>>
      BY <2>10, <3>2 DEF Query, QueryFailed
    <3>4. QED
      BY <3>1, <3>2, <3>3, PullContinues DEF gate, outbox, node, inbound, world
  <2>11. ASSUME NEW p \in pulls, NEW m \in p.batch, Replay(p, m) PROVE Typed' /\ StartedBefore'
    <3>1. Continue(p, p.batch \ {m}) /\ p.batch \ {m} \subseteq store /\ m \in store
      BY <2>11 DEF Replay
    <3>2. /\ seen' \cup lost' \subseteq store /\ UNCHANGED <<gate, outbox, node, world>>
          /\ arrived' \subseteq published /\ queue' \subseteq arrived'
      BY <2>11, <3>1 DEF Replay, Enqueue, inbound, replayed
    <3>3. QED
      BY <3>1, <3>2, PullContinues DEF gate, outbox, node, world
  <2>12. ASSUME NEW m \in published, LiveEvent(m) PROVE Typed' /\ StartedBefore'
    BY <2>12 DEF LiveEvent, Enqueue, gate, outbox, node, replayed, inbound, world
  <2>13. ASSUME NEW m \in published, Archive(m) PROVE Typed' /\ StartedBefore'
    BY <2>13 DEF Archive, gate, outbox, node, replayed, inbound
  <2>14. ASSUME NEW m \in queue, Handle(m) PROVE Typed' /\ StartedBefore'
    BY <2>14 DEF Handle, gate, outbox, node, replayed, world
  <2>15. ASSUME NEW i \in Remote, NEW t \in Topic, RemotePublish(i, t)
         PROVE  Typed' /\ StartedBefore'
    <3>1. [id |-> i, topic |-> t, stamp |-> now] \in Message
      BY DEF Message
    <3>2. QED
      BY <2>15, <3>1 DEF RemotePublish, gate, outbox, node, replayed, inbound
  <2>16. CASE Pass
    BY <2>16, DeliveryAssumption DEF Pass, gate, outbox, node, replayed, inbound, Never
  <2>17. QED
    BY <2>1, <2>2, <2>3, <2>4, <2>5, <2>6, <2>7, <2>8, <2>9, <2>10, <2>11, <2>12, <2>13,
       <2>14, <2>15, <2>16 DEF Next
<1>3. QED
  BY <1>1, <1>2, PTL DEF Spec

THEOREM TypeCorrect == Spec => []TypeOK
BY TypedAlways, PTL DEF Typed

-----------------------------------------------------------------------------
\* A catch-up in flight will bring m.
Coming(m) ==
  \E p \in pulls : /\ p.topic = m.topic
                  /\ IF p.asked THEN m \in p.batch \ seen ELSE p.start <= m.stamp

\* The stamp of m is before the windows to come, although not beyond the retention.
Passed(m) ==
  /\ lastCatchup[m.topic] # Never
  /\ m.stamp >= now - Retention
  /\ m.stamp < lastCatchup[m.topic] - Margin

\* Why a message is not missed: what was replayed has arrived or is lost; what is not
\* in the store yet was published less than a margin ago; and what is, and lies before
\* the next window, has arrived or is coming.
Gapless ==
  /\ seen \subseteq arrived \cup lost
  /\ \A m \in published \ store : now <= m.stamp + Delay
  /\ \A m \in store \ lost : Passed(m) => m \in arrived \/ Coming(m)

LEMMA GaplessIsEnough == Typed /\ Gapless => NothingMissed
<1> SUFFICES ASSUME Typed, Gapless, NEW m \in store \ lost PROVE Reached(m)
  BY DEF NothingMissed
<1>1. /\ m \in Message /\ now \in 0 .. MaxTime
      /\ lastCatchup \in [Topic -> 0 .. MaxTime \cup {Never}]
  BY DEF Typed, TypeOK
<1>2. m.topic \in Topic /\ m.stamp \in 0 .. MaxTime
  BY <1>1 DEF Message
<1>3. ASSUME lastCatchup[m.topic] # Never, m.stamp >= now - Retention,
             m.stamp < CatchupStart(lastCatchup[m.topic], now)
      PROVE  Passed(m)
  BY <1>1, <1>2, <1>3, DeliveryAssumption DEF Passed, CatchupStart, Largest, Never
<1>4. QED
  BY <1>3 DEF Reached, Gapless, Coming

\* The start of catch-ups: a window begins where the last one stopped covering.
LEMMA StartCovers ==
  ASSUME Typed, StartedBefore, Gapless, NEW T \in SUBSET Topic, StartPulls(T),
         UNCHANGED <<seen, lost, arrived, now, store>>,
         NEW m \in store \ lost, Passed(m)'
  PROVE  m \in arrived' \/ Coming(m)'
<1>1. /\ m \in Message /\ now \in 0 .. MaxTime
      /\ lastCatchup \in [Topic -> 0 .. MaxTime \cup {Never}]
  BY DEF Typed, TypeOK
<1>2. m.topic \in Topic /\ m.stamp \in 0 .. MaxTime
  BY <1>1 DEF Message
<1>3. pulls \subseteq pulls'
  BY DEF StartPulls
<1>4. CASE Passed(m)
  BY <1>3, <1>4 DEF Gapless, Coming
<1>5. CASE ~Passed(m)
  <2>1. m.topic \in T
    BY <1>1, <1>2, <1>5 DEF Passed, StartPulls
  <2> DEFINE q == [topic |-> m.topic, start |-> CatchupStart(lastCatchup[m.topic], now),
                   asked |-> FALSE, batch |-> {}]
  <2>2. q \in pulls'
    BY <2>1 DEF StartPulls
  <2>3. CatchupStart(lastCatchup[m.topic], now) <= m.stamp
    BY <1>1, <1>2, <1>5, DeliveryAssumption DEF Passed, CatchupStart, Largest, Never
  <2>4. q.topic = m.topic /\ ~q.asked /\ q.start <= m.stamp
    BY <2>3
  <2>5. QED
    BY <2>2, <2>4 DEF Coming
<1>6. QED
  BY <1>4, <1>5

\* A thread goes on with the batch b: what it was to bring is in b, is at hand or is lost.
LEMMA ContinueCovers ==
  ASSUME Typed, NEW p \in pulls, NEW b, Continue(p, b), NEW m \in store, Coming(m),
         seen' = seen \/ \E x : seen' = seen \cup {x},
         m \notin seen',
         IF p.asked THEN m \in p.batch => m \in b
                    ELSE m.topic = p.topic /\ p.start <= m.stamp => m \in b
  PROVE  Coming(m)'
<1>1. PICK r \in pulls : /\ r.topic = m.topic
                        /\ IF r.asked THEN m \in r.batch \ seen ELSE r.start <= m.stamp
  BY DEF Coming
<1>2. CASE r # p
  <2>1. r \in pulls'
    BY <1>1, <1>2 DEF Continue
  <2>2. QED
    BY <1>1, <2>1 DEF Coming
<1>3. CASE r = p
  <2>1. m \in b
    BY <1>1, <1>3
  <2> DEFINE q == [p EXCEPT !.asked = TRUE, !.batch = b]
  <2>2. q \in pulls'
    BY <2>1 DEF Continue
  <2>3. p \in Pull
    BY DEF Typed, TypeOK
  <2>4. q.topic = m.topic /\ q.asked /\ q.batch = b
    BY <1>1, <1>3, <2>3 DEF Pull
  <2>5. QED
    BY <2>1, <2>2, <2>4 DEF Coming
<1>4. QED
  BY <1>2, <1>3

\* The look-back windows leave no gap, for any delay of the store that the margin
\* covers, any retention, any interval and any number of catch-ups in flight.
THEOREM NothingIsMissed == Spec => []NothingMissed
<1>1. Init => Gapless
  BY DEF Init, Gapless
<1>2. Typed /\ StartedBefore /\ Gapless /\ [Next]_vars => Gapless'
  <2> SUFFICES ASSUME Typed, StartedBefore, Gapless, [Next]_vars PROVE Gapless'
    OBVIOUS
  <2>1. CASE UNCHANGED <<seen, arrived, lost, published, store, now, lastCatchup, pulls>>
    BY <2>1 DEF Gapless, Passed, Coming
  <2>2. ASSUME NEW T \in SUBSET Topic, StartPulls(T),
               UNCHANGED <<seen, arrived, lost, published, store, now>>
        PROVE  Gapless'
    BY <2>2, StartCovers DEF Gapless
  <2>3. ASSUME NEW t \in Topic, Subscribe(t) \/ Unsubscribe(t) \/ SwitchTopic(t)
        PROVE  Gapless'
    <3>1. /\ UNCHANGED <<seen, arrived, lost, published, store, now>>
          /\ \/ UNCHANGED <<lastCatchup, pulls>>
             \/ StartPulls({t} \cap {u \in Topic : Due(u)})
      BY <2>3 DEF Subscribe, Unsubscribe, SwitchTopic, NodeSubscribe, NodeUnsubscribe, node,
                  replayed, inbound, world
    <3>2. {t} \cap {u \in Topic : Due(u)} \in SUBSET Topic
      OBVIOUS
    <3>3. QED
      BY <2>1, <2>2, <3>1, <3>2
  <2>4. CASE CatchupNow \/ Tick
    <3>1. /\ UNCHANGED <<seen, arrived, lost, published, store, now>>
          /\ StartPulls(polled) \/ StartPulls({t \in polled : Due(t)})
      BY <2>4 DEF CatchupNow, Tick, replayed, inbound, world
    <3>2. polled \in SUBSET Topic /\ {t \in polled : Due(t)} \in SUBSET Topic
      BY DEF Typed, TypeOK
    <3>3. QED
      BY <2>2, <3>1, <3>2
  <2>5. ASSUME NEW p \in pulls, Query(p) \/ QueryFailed(p) PROVE Gapless'
    <3>1. PICK b \in SUBSET Window(p) :
            Continue(p, b) /\ lost' = lost \cup (Window(p) \ b) /\ ~p.asked
      <4>1. CASE Query(p)
        BY <4>1 DEF Query, Pages
      <4>2. CASE QueryFailed(p)
        BY <4>2 DEF QueryFailed
      <4>3. QED
        BY <2>5, <4>1, <4>2
    <3>2. UNCHANGED <<seen, arrived, published, store, now, lastCatchup>>
      BY <2>5 DEF Query, QueryFailed, node, inbound, world
    <3>3. ASSUME NEW m \in store \ lost', Passed(m), m \notin arrived PROVE Coming(m)'
      <4>1. m \notin lost /\ m \notin seen /\ Coming(m)
        BY <3>1, <3>3 DEF Gapless
      <4>2. m.topic = p.topic /\ p.start <= m.stamp => m \in b
        BY <3>1, <3>3, Typed DEF Window, Typed, TypeOK, Message, Pull
      <4>3. QED
        BY <3>1, <3>2, <3>3, <4>1, <4>2, ContinueCovers
    <3>4. QED
      BY <3>1, <3>2, <3>3 DEF Gapless, Passed
  <2>6. ASSUME NEW p \in pulls, NEW x \in p.batch, Replay(p, x) PROVE Gapless'
    <3>1. /\ Continue(p, p.batch \ {x}) /\ p.asked
          /\ UNCHANGED <<published, store, now, lastCatchup>>
      BY <2>6 DEF Replay, node, world, Typed
    <3>2. /\ seen' = seen \/ seen' = seen \cup {x}
          /\ arrived \subseteq arrived' /\ lost \subseteq lost'
          /\ x \in arrived' \cup lost'
      BY <2>6 DEF Replay, Enqueue, replayed, inbound, Gapless
    <3>3. seen' \subseteq arrived' \cup lost'
      BY <3>2 DEF Gapless
    <3>4. ASSUME NEW m \in store \ lost', Passed(m), m \notin arrived' PROVE Coming(m)'
      <4>1. m # x /\ m \notin seen' /\ Coming(m)
        BY <3>2, <3>3, <3>4 DEF Gapless
      <4>2. QED
        BY <3>1, <3>2, <4>1, ContinueCovers
    <3>5. QED
      BY <3>1, <3>3, <3>4 DEF Gapless, Passed
  <2>7. ASSUME NEW m \in published, LiveEvent(m) PROVE Gapless'
    BY <2>7 DEF LiveEvent, Enqueue, node, replayed, inbound, world, Gapless, Passed, Coming
  <2>8. ASSUME NEW m \in published, Archive(m) PROVE Gapless'
    <3>1. /\ store' = store \cup {m} /\ m \notin store
          /\ UNCHANGED <<seen, arrived, lost, published, now, lastCatchup, pulls>>
      BY <2>8 DEF Archive, node, replayed, inbound
    <3>2. ~Passed(m)
      <4>1. /\ m.stamp \in 0 .. MaxTime /\ m.topic \in Topic /\ now <= m.stamp + Delay
            /\ now \in 0 .. MaxTime
        BY <3>1 DEF Gapless, Typed, TypeOK, Message
      <4>2. /\ lastCatchup[m.topic] <= now
            /\ lastCatchup[m.topic] \in 0 .. MaxTime \cup {Never}
        BY <4>1 DEF StartedBefore, Typed, TypeOK
      <4>3. QED
        BY <4>1, <4>2, DeliveryAssumption DEF Passed, Never
    <3>3. QED
      BY <3>1, <3>2 DEF Gapless, Passed, Coming
  <2>9. ASSUME NEW i \in Remote, NEW t \in Topic, RemotePublish(i, t) PROVE Gapless'
    <3>1. /\ published' = published \cup {[id |-> i, topic |-> t, stamp |-> now]}
          /\ UNCHANGED <<seen, arrived, lost, store, now, lastCatchup, pulls>>
      BY <2>9 DEF RemotePublish, node, replayed, inbound
    <3>2. now <= now + Delay
      BY DeliveryAssumption DEF Typed, TypeOK
    <3>3. QED
      BY <3>1, <3>2 DEF Gapless, Passed, Coming
  <2>10. CASE Pass
    <3>1. /\ now' = now + 1 /\ \A m \in published \ store : now < m.stamp + Delay
          /\ UNCHANGED <<seen, arrived, lost, published, store, lastCatchup, pulls>>
      BY <2>10 DEF Pass, node, replayed, inbound
    <3>2. now \in Int /\ Retention \in Int /\ \A m \in published : m.stamp + Delay \in Int
      BY DeliveryAssumption DEF Typed, TypeOK, Message
    <3>3. \A m \in store : Passed(m)' => Passed(m)
      BY <3>1, <3>2 DEF Passed, Typed, TypeOK, Message
    <3>4. QED
      BY <3>1, <3>2, <3>3 DEF Gapless, Coming
  <2>11. QED
    BY <2>1, <2>3, <2>4, <2>5, <2>6, <2>7, <2>8, <2>9, <2>10
       DEF Next, vars, SetActive, Publish, TakePending, Handle, node, replayed, inbound, world
<1>3. QED
  BY <1>1, <1>2, TypedAlways, GaplessIsEnough, PTL DEF Spec

=============================================================================
