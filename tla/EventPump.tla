----------------------------- MODULE EventPump -----------------------------
(***************************************************************************)
(* The life of a handle (wrapper/src/lib.rs) and of the client behind it   *)
(* (crates/generic-chat/src/client.rs): the worker turns inbound payloads  *)
(* into events under the core lock, the pump thread turns events into      *)
(* callbacks, and the application registers the callback, calls verbs and  *)
(* shuts the handle down - from its own thread or from inside a callback.  *)
(*                                                                         *)
(* Dropping the client is upstream code, external here: it disconnects the *)
(* shutdown channel and joins the worker.  That the application does not   *)
(* use the handle while or after shutting it down is its side of the       *)
(* contract, and a guard of its actions.                                   *)
(***************************************************************************)
EXTENDS Naturals, Sequences

CONSTANTS
  MaxPayloads, \* bound on the inbound payloads
  MaxEvents,   \* bound on the events one payload gives
  App, Pump, Worker,   \* the threads
  Free

Caller == {App, Pump}

ASSUME PumpAssumption ==
  /\ MaxPayloads \in Nat /\ MaxEvents \in Nat
  /\ App # Pump /\ Worker \notin Caller /\ Free \notin Caller \cup {Worker}

VARIABLES
  inbound,   \* number of payloads the worker has not taken yet
  worker,    \* what the worker is doing
  left,      \* the events it still has to send
  lock,      \* holder of the core lock
  emitted,   \* number of events sent into the channel
  delivered, \* number of them taken out by the pump
  receiver,  \* who holds the channel's receiving end
  pump,      \* what the pump thread is doing
  call,      \* call[t]: the call thread t is in
  handle     \* "open", "closing", "closed"

vars == <<inbound, worker, left, lock, emitted, delivered, receiver, pump, call, handle>>

Init ==
  /\ inbound \in 0 .. MaxPayloads /\ worker = "select" /\ left = 0 /\ lock = Free
  /\ emitted = 0 /\ delivered = 0
  /\ receiver = "handle" /\ pump = "none"
  /\ call = [t \in Caller |-> "none"]
  /\ handle = "open"

-----------------------------------------------------------------------------
(* The worker: select, handle the payload under the core lock, send.       *)

Take ==
  /\ worker = "select" /\ inbound > 0
  /\ inbound' = inbound - 1
  /\ left' \in 0 .. MaxEvents
  /\ worker' = "waiting"
  /\ UNCHANGED <<lock, emitted, delivered, receiver, pump, call, handle>>

HandlePayload ==
  /\ worker = "waiting" /\ lock = Free
  /\ lock' = Worker /\ worker' = "handling"
  /\ UNCHANGED <<inbound, left, emitted, delivered, receiver, pump, call, handle>>

Handled ==
  /\ worker = "handling"
  /\ lock' = Free /\ worker' = "sending"
  /\ UNCHANGED <<inbound, left, emitted, delivered, receiver, pump, call, handle>>

\* A send fails only when the receiver is gone, and ends the worker.
Send ==
  /\ worker = "sending"
  /\ IF left = 0 THEN worker' = "select" /\ UNCHANGED <<left, emitted>>
     ELSE IF receiver = "dropped" THEN worker' = "gone" /\ UNCHANGED <<left, emitted>>
     ELSE left' = left - 1 /\ emitted' = emitted + 1 /\ UNCHANGED worker
  /\ UNCHANGED <<inbound, lock, delivered, receiver, pump, call, handle>>

\* The shutdown channel is disconnected.  With payloads ready too, select takes
\* either arm.
Quit ==
  /\ worker = "select" /\ handle # "open"
  /\ worker' = "gone"
  /\ UNCHANGED <<inbound, left, lock, emitted, delivered, receiver, pump, call, handle>>

-----------------------------------------------------------------------------
(* The pump thread.                                                        *)

\* Mutant of Callback: the pump does not wait for an event.
CallbackUngated ==
  /\ pump = "recv"
  /\ delivered' = delivered + 1 /\ pump' = "callback"
  /\ UNCHANGED <<inbound, worker, left, lock, emitted, receiver, call, handle>>

\* recv gives an event, and the callback begins.
Callback ==
  /\ pump = "recv" /\ delivered < emitted
  /\ delivered' = delivered + 1 /\ pump' = "callback"
  /\ UNCHANGED <<inbound, worker, left, lock, emitted, receiver, call, handle>>

Return ==
  /\ pump = "callback" /\ call[Pump] = "none"
  /\ pump' = "recv"
  /\ UNCHANGED <<inbound, worker, left, lock, emitted, delivered, receiver, call, handle>>

\* Mutants of PumpExit: it ends with the worker, whatever is queued; it ends as soon
\* as the channel is empty.
PumpExitWithWorker ==
  /\ pump = "recv" /\ worker = "gone"
  /\ pump' = "ended"
  /\ UNCHANGED <<inbound, worker, left, lock, emitted, delivered, receiver, call, handle>>

PumpExitWhenEmpty ==
  /\ pump = "recv" /\ delivered = emitted
  /\ pump' = "ended"
  /\ UNCHANGED <<inbound, worker, left, lock, emitted, delivered, receiver, call, handle>>

\* The channel is empty and its only sender, the worker, is gone.
PumpExit ==
  /\ pump = "recv" /\ delivered = emitted /\ worker = "gone"
  /\ pump' = "ended"
  /\ UNCHANGED <<inbound, worker, left, lock, emitted, delivered, receiver, call, handle>>

-----------------------------------------------------------------------------
(* The application, on its own thread or in a callback.                    *)

\* Thread t runs application code and may use the handle.
MayCall(t) ==
  /\ handle = "open" /\ call[t] = "none"
  /\ t = Pump => pump = "callback"

\* logoschat_set_event_callback; a second call finds the receiver taken.
SetEventCallback(t) ==
  /\ MayCall(t) /\ receiver = "handle"
  /\ receiver' = "pump" /\ pump' = "recv"
  /\ UNCHANGED <<inbound, worker, left, lock, emitted, delivered, call, handle>>

\* Any verb that enters the core.
Verb(t) ==
  /\ MayCall(t) /\ lock = Free
  /\ lock' = t /\ call' = [call EXCEPT ![t] = "verb"]
  /\ UNCHANGED <<inbound, worker, left, emitted, delivered, receiver, pump, handle>>

VerbReturns(t) ==
  /\ call[t] = "verb"
  /\ lock' = Free /\ call' = [call EXCEPT ![t] = "none"]
  /\ UNCHANGED <<inbound, worker, left, emitted, delivered, receiver, pump, handle>>

\* logoschat_shutdown: drop the client ...
Shutdown(t) ==
  /\ MayCall(t) /\ \A u \in Caller : call[u] = "none"
  /\ handle' = "closing" /\ call' = [call EXCEPT ![t] = "shutdown"]
  /\ UNCHANGED <<inbound, worker, left, lock, emitted, delivered, receiver, pump>>

\* Mutants of ShutdownReturns: the worker is not joined; the pump is joined too.
ShutdownReturnsAtOnce(t) ==
  /\ call[t] = "shutdown"
  /\ handle' = "closed" /\ call' = [call EXCEPT ![t] = "none"]
  /\ receiver' = IF receiver = "handle" THEN "dropped" ELSE receiver
  /\ UNCHANGED <<inbound, worker, left, lock, emitted, delivered, pump>>

ShutdownReturnsAfterPump(t) ==
  /\ pump \in {"none", "ended"}
  /\ call[t] = "shutdown" /\ worker = "gone"
  /\ handle' = "closed" /\ call' = [call EXCEPT ![t] = "none"]
  /\ receiver' = IF receiver = "handle" THEN "dropped" ELSE receiver
  /\ UNCHANGED <<inbound, worker, left, lock, emitted, delivered, pump>>

\* ... which returns when the worker has, then the other fields: the receiver, if
\* the handle still has it, and the pump's JoinHandle, which detaches the pump.
ShutdownReturns(t) ==
  /\ call[t] = "shutdown" /\ worker = "gone"
  /\ handle' = "closed" /\ call' = [call EXCEPT ![t] = "none"]
  /\ receiver' = IF receiver = "handle" THEN "dropped" ELSE receiver
  /\ UNCHANGED <<inbound, worker, left, lock, emitted, delivered, pump>>

WorkerStep == Take \/ HandlePayload \/ Handled \/ Send \/ Quit
PumpStep   == Callback \/ Return \/ PumpExit
CallStep(t) == SetEventCallback(t) \/ Verb(t) \/ VerbReturns(t) \/ Shutdown(t) \/ ShutdownReturns(t)

Next == WorkerStep \/ PumpStep \/ \E t \in Caller : CallStep(t)

\* Threads run: the worker and the pump go on, a verb and a shutdown that can return
\* do, a callback does not call verbs for ever, and the core lock (parking_lot,
\* eventually fair) is not withheld from the worker for ever.  Nobody has to call
\* anything.
Fairness ==
  /\ WF_vars(WorkerStep) /\ SF_vars(HandlePayload)
  /\ WF_vars(Callback) /\ SF_vars(Return) /\ WF_vars(PumpExit)
  /\ \A t \in Caller : WF_vars(VerbReturns(t)) /\ WF_vars(ShutdownReturns(t))

Spec == Init /\ [][Next]_vars /\ Fairness

-----------------------------------------------------------------------------
\* Type correctness; the pump never takes out more events than were sent.
TypeOK ==
  /\ inbound \in Nat
  /\ worker \in {"select", "waiting", "handling", "sending", "gone"}
  /\ left \in Nat /\ emitted \in Nat /\ delivered \in 0 .. emitted
  /\ lock \in Caller \cup {Worker, Free}
  /\ receiver \in {"handle", "pump", "dropped"}
  /\ pump \in {"none", "recv", "callback", "ended"}
  /\ call \in [Caller -> {"none", "verb", "shutdown"}]
  /\ handle \in {"open", "closing", "closed"}

\* When shutdown has returned nothing of the client is still at work: the worker is
\* gone, the core lock is free, and no verb is in progress.
ClosedIsQuiet ==
  handle = "closed" => worker = "gone" /\ lock = Free /\ \A t \in Caller : call[t] = "none"

\* Shutdown returns, even called from inside a callback or with a callback, a verb or
\* a payload in progress.
ShutdownCompletes == (handle = "closing") ~> (handle = "closed")

\* After shutdown a registered pump hands over every event already sent, and ends.
PumpDrains == (handle = "closed" /\ receiver = "pump") ~> (pump = "ended" /\ delivered = emitted)

\* Events sent while a callback is registered reach it, whatever the callback and the
\* application do with the handle meanwhile.
EventsReachCallback == (receiver = "pump" /\ delivered < emitted) ~> (delivered = emitted)

\* No callback begins once shutdown has returned.
NoCallbackAfterShutdown == [][handle = "closed" => delivered' = delivered]_vars

=============================================================================
