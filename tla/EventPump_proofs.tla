-------------------------- MODULE EventPump_proofs --------------------------
(***************************************************************************)
(* Theorems about EventPump for any number of payloads and events.         *)
(***************************************************************************)
EXTENDS EventPump, TLAPS

\* The lock is held by exactly the thread that is inside the core, and only one
\* thread can be shutting the handle down.
Inside ==
  /\ lock \in Caller \cup {Worker, Free}
  /\ call \in [Caller -> {"none", "verb", "shutdown"}]
  /\ handle \in {"open", "closing", "closed"}
  /\ \A t \in Caller : call[t] = "verb" <=> lock = t
  /\ lock = Worker <=> worker = "handling"
  /\ handle = "open" => \A t \in Caller : call[t] # "shutdown"
  /\ handle = "closing" =>
       \E t \in Caller : call[t] = "shutdown" /\ \A u \in Caller \ {t} : call[u] = "none"
  /\ ClosedIsQuiet

\* A thread's call begins or ends with the lock it takes or releases.
LEMMA CallStepInside ==
  ASSUME Inside, NEW t \in Caller, CallStep(t)
  PROVE  Inside'
<1> USE DEF Caller
<1>1. CASE SetEventCallback(t)
  BY <1>1 DEF SetEventCallback, Inside, ClosedIsQuiet
<1>2. CASE Verb(t)
  BY <1>2, PumpAssumption DEF Verb, MayCall, Inside, ClosedIsQuiet
<1>3. CASE VerbReturns(t)
  BY <1>3, PumpAssumption DEF VerbReturns, Inside, ClosedIsQuiet
<1>4. CASE Shutdown(t)
  BY <1>4, PumpAssumption DEF Shutdown, MayCall, Inside, ClosedIsQuiet
<1>5. CASE ShutdownReturns(t)
  BY <1>5, PumpAssumption DEF ShutdownReturns, Inside, ClosedIsQuiet
<1>6. QED
  BY <1>1, <1>2, <1>3, <1>4, <1>5 DEF CallStep

\* Who is inside, and holds the lock, over any steps.
THEOREM InsideAlways == Spec => []Inside
<1>1. Init => Inside
  BY PumpAssumption DEF Init, Inside, ClosedIsQuiet, Caller
<1>2. Inside /\ [Next]_vars => Inside'
  <2> SUFFICES ASSUME Inside, [Next]_vars PROVE Inside'
    OBVIOUS
  <2>1. CASE UNCHANGED vars
    BY <2>1 DEF vars, Inside, ClosedIsQuiet
  <2>2. CASE WorkerStep
    BY <2>2, PumpAssumption DEF WorkerStep, Take, HandlePayload, Handled, Send, Quit,
                                Inside, ClosedIsQuiet
  <2>3. CASE PumpStep
    BY <2>3 DEF PumpStep, Callback, Return, PumpExit, Inside, ClosedIsQuiet
  <2>4. ASSUME NEW t \in Caller, CallStep(t) PROVE Inside'
    BY <2>4, CallStepInside
  <2>5. QED
    BY <2>1, <2>2, <2>3, <2>4 DEF Next
<1>3. QED
  BY <1>1, <1>2, PTL DEF Spec

\* When shutdown has returned, nothing of the client is still at work.
THEOREM ShutdownIsQuiet == Spec => []ClosedIsQuiet
<1>1. Inside => ClosedIsQuiet
  BY DEF Inside
<1>2. QED
  BY <1>1, InsideAlways, PTL

-----------------------------------------------------------------------------
\* The pump takes out no more events than were sent, for any number of payloads and
\* events; and every variable stays in its range.
THEOREM TypeCorrect == Spec => []TypeOK
<1>1. Init => TypeOK
  BY PumpAssumption DEF Init, TypeOK
<1>2. TypeOK /\ [Next]_vars => TypeOK'
  <2> SUFFICES ASSUME TypeOK, [Next]_vars PROVE TypeOK'
    OBVIOUS
  <2>1. CASE UNCHANGED vars
    BY <2>1 DEF vars, TypeOK
  <2>2. CASE WorkerStep
    BY <2>2, PumpAssumption DEF WorkerStep, Take, HandlePayload, Handled, Send, Quit, TypeOK
  <2>3. CASE PumpStep
    BY <2>3 DEF PumpStep, Callback, Return, PumpExit, TypeOK
  <2>4. ASSUME NEW t \in Caller, CallStep(t) PROVE TypeOK'
    <3>1. CASE SetEventCallback(t) \/ ShutdownReturns(t)
      BY <3>1 DEF SetEventCallback, ShutdownReturns, TypeOK
    <3>2. CASE Verb(t) \/ VerbReturns(t) \/ Shutdown(t)
      BY <3>2 DEF Verb, VerbReturns, Shutdown, TypeOK
    <3>3. QED
      BY <2>4, <3>1, <3>2 DEF CallStep
  <2>5. QED
    BY <2>1, <2>2, <2>3, <2>4 DEF Next
<1>3. QED
  BY <1>1, <1>2, PTL DEF Spec

-----------------------------------------------------------------------------
(* Shutdown without fairness: what there is to do runs out, and until it   *)
(* has some thread can go on.                                              *)

\* What the worker has yet to do with the payload it is at, where an event it sends is
\* worth two steps of the pump, and at most with another one.
AtHand ==
  CASE worker = "waiting"  -> 3 * left + 4
    [] worker = "handling" -> 3 * left + 3
    [] worker = "sending"  -> 3 * left + 2
    [] worker = "select"   -> 1
    [] worker = "gone"     -> 0

Round == 3 * MaxEvents + 5

WorkerRest == AtHand + inbound * Round

\* What the pump has yet to do.
PumpRest ==
  2 * (emitted - delivered)
  + (CASE pump = "callback" -> 2 [] pump = "recv" -> 1 [] pump \in {"none", "ended"} -> 0)

HandleRest == IF handle = "closed" THEN 0 ELSE 1

Work == WorkerRest + PumpRest + HandleRest

\* A thread whose next step needs nobody else: the guards of the worker's steps, of the
\* return of shutdown and of the pump's steps.
Ready ==
  \/ worker \in {"select", "handling", "sending"} \/ (worker = "waiting" /\ lock = Free)
  \/ worker = "gone" /\ \E t \in Caller : call[t] = "shutdown"
  \/ pump = "recv" /\ (delivered < emitted \/ worker = "gone")
  \/ pump = "callback" /\ call[Pump] = "none"

\* From the call of shutdown until it has returned and the pump has ended nobody waits for
\* ever for somebody who waits for them.
NobodyStuck == handle # "open" => Ready \/ (handle = "closed" /\ pump \in {"none", "ended"})

\* From the call of shutdown on each step, whose ever it is, leaves less to do.
RunsOut == [][handle # "open" => Work' \in Nat /\ Work' < Work]_vars

\* Sums of natural numbers.
LEMMA LessInAll ==
  ASSUME NEW u \in Nat, NEW v \in Nat, NEW w \in Nat, NEW x \in Nat, NEW y \in Nat, NEW z \in Nat,
         \/ x < u /\ y = v /\ z = w
         \/ x = u - 3 /\ y = v + 2 /\ z = w
         \/ x = u /\ y < v /\ z = w
         \/ x = u /\ y = v /\ z < w
  PROVE  x + y + z \in Nat /\ x + y + z < u + v + w
OBVIOUS

\* A payload less leaves room for everything one may cost.
LEMMA RoundLess ==
  ASSUME NEW n \in Nat \ {0}, NEW r \in Nat, NEW h \in Nat, NEW g \in Nat, g < h + r
  PROVE  g + (n - 1) * r \in Nat /\ g + (n - 1) * r < h + n * r
<1> DEFINE a == (n - 1) * r
           b == n * r
<1>1. a \in Nat /\ b = a + r
  OBVIOUS
<1> HIDE DEF a, b
<1>2. QED
  BY <1>1 DEF a, b

\* Shutdown, called from inside a callback or with a callback, a verb or payloads in
\* progress, and the pump after it, cannot hang: some thread can always go on, and no thread
\* can for ever, for any number of payloads and events.
THEOREM ShutdownCannotHang == Spec => []NobodyStuck /\ RunsOut
<1> DEFINE Bounded == left \in 0 .. MaxEvents
<1>1. Spec => []Bounded
  <2>1. Init => Bounded
    BY PumpAssumption DEF Init
  <2>2. Bounded /\ [Next]_vars => Bounded'
    BY PumpAssumption
       DEF Next, vars, WorkerStep, Take, HandlePayload, Handled, Send, Quit, PumpStep, Callback,
           Return, PumpExit, CallStep, SetEventCallback, Verb, VerbReturns, Shutdown, ShutdownReturns
  <2>3. QED
    BY <2>1, <2>2, PTL DEF Spec
<1>2. Inside /\ TypeOK => NobodyStuck
  <2> SUFFICES ASSUME Inside, TypeOK, handle # "open"
               PROVE  Ready \/ (handle = "closed" /\ pump \in {"none", "ended"})
    BY DEF NobodyStuck
  <2>1. CASE handle = "closing"
    <3>1. lock \notin Caller
      BY <2>1 DEF Inside
    <3>2. worker = "waiting" => lock = Free
      BY <3>1 DEF Inside
    <3>3. \E t \in Caller : call[t] = "shutdown"
      BY <2>1 DEF Inside
    <3>4. QED
      BY <3>2, <3>3 DEF Ready, TypeOK
  <2>2. CASE handle = "closed"
    <3>1. worker = "gone" /\ call[Pump] = "none"
      BY <2>2 DEF Inside, ClosedIsQuiet, Caller
    <3>2. QED
      BY <2>2, <3>1 DEF Ready, TypeOK
  <2>3. QED
    BY <2>1, <2>2 DEF TypeOK
<1>3. Inside /\ TypeOK /\ Bounded /\ [Next]_vars => [handle # "open" => Work' \in Nat /\ Work' < Work]_vars
  <2> SUFFICES ASSUME Inside, TypeOK, Bounded, Next, handle # "open"
               PROVE  Work' \in Nat /\ Work' < Work
    OBVIOUS
  <2>1. /\ inbound \in Nat /\ left \in Nat /\ left <= MaxEvents /\ emitted \in Nat
        /\ delivered \in Nat /\ delivered <= emitted /\ MaxEvents \in Nat
        /\ Round \in Nat /\ Round = 3 * MaxEvents + 5
    BY PumpAssumption DEF TypeOK, Round
  <2>2. AtHand \in Nat /\ PumpRest \in Nat /\ HandleRest \in Nat
    BY <2>1 DEF AtHand, PumpRest, HandleRest, TypeOK
  <2>3. \A n, g \in Nat : g + n * Round \in Nat
    BY <2>1
  <2>4. WorkerRest \in Nat
    BY <2>1, <2>2, <2>3 DEF WorkerRest
  <2>5. ASSUME UNCHANGED <<inbound, worker, left>> PROVE WorkerRest' = WorkerRest
    BY <2>5 DEF WorkerRest, AtHand, Round
  <2>6. ASSUME UNCHANGED <<emitted, delivered, pump>> PROVE PumpRest' = PumpRest
    BY <2>6 DEF PumpRest
  <2>7. handle' = handle => HandleRest' = HandleRest
    BY DEF HandleRest
  <2>8. /\ Work = WorkerRest + PumpRest + HandleRest
        /\ Work' = WorkerRest' + PumpRest' + HandleRest'
    BY DEF Work
  <2>9. ASSUME inbound' = inbound, AtHand' \in Nat, AtHand' < AtHand
        PROVE  WorkerRest' \in Nat /\ WorkerRest' < WorkerRest
    <3> DEFINE x == inbound * Round
    <3>1. x \in Nat
      BY <2>1
    <3>2. WorkerRest = AtHand + x /\ WorkerRest' = AtHand' + x
      BY <2>9 DEF WorkerRest, Round
    <3>3. \A g, h, y \in Nat : g < h => g + y \in Nat /\ g + y < h + y
      OBVIOUS
    <3> HIDE DEF x
    <3>4. QED
      BY <2>2, <2>9, <3>1, <3>2, <3>3
  <2>10. CASE Take
    <3>1. AtHand = 1 /\ inbound \in Nat \ {0} /\ inbound' = inbound - 1 /\ worker' = "waiting"
      BY <2>1, <2>10 DEF Take, AtHand
    <3>2. left' \in Nat /\ left' <= MaxEvents
      BY <2>1, <2>10 DEF Take
    <3>3. AtHand' = 3 * left' + 4
      BY <3>1 DEF AtHand
    <3>4. AtHand' \in Nat /\ AtHand' < 1 + Round
      <4>1. \A l \in Nat : l <= MaxEvents => 3 * l + 4 \in Nat /\ 3 * l + 4 < 1 + Round
        BY <2>1
      <4>2. QED
        BY <3>2, <3>3, <4>1
    <3>5. WorkerRest = 1 + inbound * Round /\ WorkerRest' = AtHand' + (inbound - 1) * Round
      BY <3>1 DEF WorkerRest, Round
    <3>6. WorkerRest' \in Nat /\ WorkerRest' < WorkerRest
      BY <2>1, <3>1, <3>4, <3>5, RoundLess
    <3>7. PumpRest' = PumpRest /\ HandleRest' = HandleRest
      BY <2>6, <2>7, <2>10 DEF Take
    <3>8. QED
      BY <2>2, <2>4, <2>8, <3>6, <3>7, LessInAll
  <2>11. CASE HandlePayload \/ Handled \/ Quit
    <3>1. AtHand' \in Nat /\ AtHand' < AtHand /\ inbound' = inbound
      BY <2>1, <2>11 DEF HandlePayload, Handled, Quit, AtHand
    <3>2. PumpRest' = PumpRest /\ HandleRest' = HandleRest
      BY <2>6, <2>7, <2>11 DEF HandlePayload, Handled, Quit
    <3>3. QED
      BY <2>2, <2>4, <2>8, <2>9, <3>1, <3>2, LessInAll
  <2>12. CASE Send
    <3>1. CASE left = 0 \/ receiver = "dropped"
      <4>1. AtHand' \in Nat /\ AtHand' < AtHand /\ inbound' = inbound
        BY <2>1, <2>12, <3>1 DEF Send, AtHand
      <4>2. PumpRest' = PumpRest /\ HandleRest' = HandleRest
        BY <2>6, <2>7, <2>12, <3>1 DEF Send
      <4>3. QED
        BY <2>2, <2>4, <2>8, <2>9, <4>1, <4>2, LessInAll
    <3>2. CASE ~(left = 0 \/ receiver = "dropped")
      <4> DEFINE x == inbound * Round
      <4>1. inbound' = inbound /\ AtHand = 3 * left + 2 /\ AtHand' = 3 * (left - 1) + 2 /\ left - 1 \in Nat
        BY <2>1, <2>12, <3>2 DEF Send, AtHand
      <4>2. x \in Nat /\ WorkerRest = 3 * left + 2 + x /\ WorkerRest' = 3 * (left - 1) + 2 + x
        BY <2>1, <4>1 DEF WorkerRest, Round
      <4> HIDE DEF x
      <4>3. WorkerRest' \in Nat /\ WorkerRest' = WorkerRest - 3
        BY <2>1, <4>1, <4>2
      <4>4. PumpRest' \in Nat /\ PumpRest' = PumpRest + 2 /\ HandleRest' = HandleRest
        BY <2>1, <2>7, <2>12, <3>2 DEF Send, PumpRest, TypeOK
      <4>5. QED
        BY <2>2, <2>4, <2>8, <4>3, <4>4, LessInAll
    <3>3. QED
      BY <3>1, <3>2
  <2>13. CASE PumpStep
    <3>1. WorkerRest' = WorkerRest /\ HandleRest' = HandleRest
      BY <2>5, <2>7, <2>13 DEF PumpStep, Callback, Return, PumpExit
    <3>2. PumpRest' \in Nat /\ PumpRest' < PumpRest
      BY <2>1, <2>13 DEF PumpStep, Callback, Return, PumpExit, PumpRest
    <3>3. QED
      BY <2>2, <2>4, <2>8, <3>1, <3>2, LessInAll
  <2>14. ASSUME NEW t \in Caller, CallStep(t) PROVE Work' \in Nat /\ Work' < Work
    <3>1. ~SetEventCallback(t) /\ ~Verb(t) /\ ~Shutdown(t)
      BY DEF SetEventCallback, Verb, Shutdown, MayCall
    <3>2. call[t] # "verb"
      BY DEF Inside, ClosedIsQuiet
    <3>3. ShutdownReturns(t) /\ handle # "closed"
      <4>1. ShutdownReturns(t)
        BY <2>14, <3>1, <3>2 DEF CallStep, VerbReturns
      <4>2. QED
        BY <4>1 DEF ShutdownReturns, Inside, ClosedIsQuiet
    <3>4. WorkerRest' = WorkerRest /\ PumpRest' = PumpRest
      BY <2>5, <2>6, <3>3 DEF ShutdownReturns
    <3>5. HandleRest' = 0 /\ HandleRest = 1
      BY <3>3 DEF ShutdownReturns, HandleRest
    <3>6. QED
      BY <2>2, <2>4, <2>8, <3>4, <3>5, LessInAll
  <2>15. QED
    BY <2>10, <2>11, <2>12, <2>13, <2>14 DEF Next, WorkerStep
<1>4. Spec => []Inside
  BY InsideAlways
<1>5. QED
  BY <1>1, <1>2, <1>3, <1>4, TypeCorrect, PTL DEF Spec, RunsOut

=============================================================================
