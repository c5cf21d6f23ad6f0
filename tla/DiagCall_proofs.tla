-------------------------- MODULE DiagCall_proofs ---------------------------
(***************************************************************************)
(* Theorems about the diagnostic clients' call protocol, for any scripts,  *)
(* any waits and time-outs and any symbols missing.                        *)
(***************************************************************************)
EXTENDS Diags, TLAPS

\* TypeOK, with what makes it inductive: the call of a step main has yet to make is
\* neither open nor being answered; only create is read without waiting.
Typed ==
  /\ TypeOK
  /\ at = "step" => pc \notin open /\ pc # answering.call /\ polled = 0
  /\ answering \in [call : Nat, left : SUBSET {"ret", "filling", "filled", "done"}]
  /\ at = "read" => Step.kind = "create"
  /\ at = "wait" => Step.kind # "create"

LEMMA StoresAre ==
  /\ DOMAIN Stores = 1 .. 4
  /\ Stores[1] = "ret" /\ Stores[2] = "filling" /\ Stores[3] = "filled" /\ Stores[4] = "done"
  /\ {Stores[i] : i \in DOMAIN Stores} = {"ret", "filling", "filled", "done"}
BY DEF Stores

LEMMA ScriptIs ==
  ASSUME TypeOK
  PROVE  /\ Script \in Seq([kind : Kinds, sym : Names, guard : Guards])
         /\ Len(Script) \in Nat /\ DOMAIN Script = 1 .. Len(Script)
         /\ pc \in 1 .. Len(Script) /\ prog.wait \in Nat /\ prog.timeout \in Nat
<1>1. prog \in Programs /\ pc \in DOMAIN Script
  BY DEF TypeOK
<1>2. IsProgram(prog)
  BY <1>1, DiagAssumption
<1>3. Script \in Seq([kind : Kinds, sym : Names, guard : Guards]) /\ prog.wait \in Nat /\ prog.timeout \in Nat
  BY <1>2 DEF IsProgram, Script
<1>4. QED
  BY <1>1, <1>3

\* A step of the program leaves its script alone.
LEMMA SameScript ==
  ASSUME Typed, UNCHANGED fixed
  PROVE  /\ prog' = prog /\ missing' = missing /\ inOrder' = inOrder
         /\ prog' \in Programs /\ missing' \subseteq Symbols(prog)' /\ inOrder' \in BOOLEAN
         /\ Script' = Script /\ (pc' = pc => Step' = Step)
         /\ {Stores[i] : i \in DOMAIN Stores}' = {Stores[i] : i \in DOMAIN Stores}
BY DEF Typed, TypeOK, fixed, Script, Step, Symbols, Stores

\* Where a step ends: at the next one, which nothing has been asked for yet, or at exit.
LEMMA Advances ==
  ASSUME Typed, Advance, UNCHANGED fixed
  PROVE  /\ pc' \in DOMAIN Script /\ pc <= pc' /\ pc' \in Nat /\ pc \in Nat
         /\ polled' = 0 /\ polled' \in 0 .. prog'.wait /\ at' \in {"step", "exit"}
         /\ at' = "step" => \A c \in 0 .. pc : c # pc'
         /\ \A c \in 0 .. pc : c \in 0 .. pc'
         /\ \A c \in 1 .. pc : c \in 1 .. pc'
<1>1. TypeOK
  BY DEF Typed
<1>2. QED
  BY <1>1, SameScript, ScriptIs DEF Advance

\* Every variable stays in its range: no wait exceeds its limit, and the globals hold
\* nothing but the answers of calls that were made.
THEOREM TypedAlways == Spec => []Typed
<1>1. Init => Typed
  <2> SUFFICES ASSUME Init PROVE Typed
    OBVIOUS
  <2>1. prog \in Programs /\ IsProgram(prog)
    BY DiagAssumption DEF Init
  <2>2. Script # <<>> /\ prog.wait \in Nat /\ Script \in Seq([kind : Kinds, sym : Names, guard : Guards])
    BY <2>1 DEF IsProgram, Script
  <2>3. 1 \in DOMAIN Script
    BY <2>2
  <2>4. missing \subseteq Symbols(prog) /\ inOrder \in BOOLEAN
    BY DEF Init
  <2>5. at \in {"exit", "step"}
    BY Zenon DEF Init
  <2>6. /\ pc = 1 /\ polled = 0 /\ late = 0 /\ found = 0 /\ open = {} /\ g_ret = 0 /\ g_done = FALSE
        /\ out = [call |-> 0, ret |-> 0, buf |-> 0, whole |-> TRUE]
        /\ g_buf = [of |-> 0, whole |-> TRUE] /\ answering = [call |-> 0, left |-> {}]
        /\ evcb = FALSE /\ unheard = FALSE
    BY DEF Init, Idle, Reading, NoCall
  <2>7. QED
    <3>1. TypeOK
      <4>1. /\ polled \in 0 .. prog.wait /\ open \subseteq 1 .. pc /\ late \in 0 .. pc
            /\ found \in 0 .. pc /\ g_ret \in 0 .. pc /\ pc \in DOMAIN Script
        BY <2>2, <2>3, <2>6
      <4>2. answering.call \in 0 .. pc /\ answering.call \notin open /\ answering.left = {}
        BY <2>6
      <4>3. out \in [call : 0 .. pc, ret : 0 .. pc, buf : 0 .. pc, whole : BOOLEAN]
        BY <2>6
      <4>4. g_buf \in [of : 0 .. pc, whole : BOOLEAN]
        BY <2>6
      <4>5. g_done \in BOOLEAN /\ evcb \in BOOLEAN /\ unheard \in BOOLEAN
        BY <2>6
      <4>6. QED
        BY <2>1, <2>4, <2>5, <4>1, <4>2, <4>3, <4>4, <4>5 DEF TypeOK
    <3>2. pc \notin open /\ pc # answering.call
          /\ answering \in [call : Nat, left : SUBSET {"ret", "filling", "filled", "done"}]
      BY <2>6
    <3>3. QED
      BY <3>1, <3>2, <2>5, <2>6 DEF Typed
<1>2. Typed /\ [Next]_vars => Typed'
  <2> SUFFICES ASSUME Typed, [Next]_vars PROVE Typed'
    OBVIOUS
  <2>0. /\ TypeOK /\ pc \in Nat /\ pc \in 1 .. pc /\ prog.wait \in Nat
        /\ pc \in DOMAIN Script /\ 0 \in 0 .. pc /\ pc \in 0 .. pc
    BY ScriptIs DEF Typed
  <2>1. CASE UNCHANGED vars
    <3>1. UNCHANGED fixed
      BY <2>1 DEF vars
    <3>2. QED
      BY <3>1, <2>1, SameScript DEF vars, main, library, globals, events, Typed, TypeOK
  <2>2. ASSUME NEW c \in open, Answer(c) PROVE Typed'
    <3>1. /\ UNCHANGED fixed /\ UNCHANGED main /\ UNCHANGED globals /\ UNCHANGED events
          /\ open' = open \ {c}
          /\ answering' = [call |-> c, left |-> {"ret", "filling", "filled", "done"}]
      BY <2>2, StoresAre DEF Answer
    <3>2. c \in 1 .. pc /\ c \in Nat /\ c \in 0 .. pc /\ c \notin open'
      BY <3>1, <2>0 DEF TypeOK
    <3>3. at = "step" => c # pc
      BY DEF Typed
    <3>4. QED
      BY <3>1, <3>2, <3>3, SameScript, StoresAre DEF main, globals, events, Typed, TypeOK
  <2>3. ASSUME NEW s \in answering.left, Store(s) PROVE Typed'
    <3>1. UNCHANGED fixed /\ UNCHANGED main /\ UNCHANGED open /\ UNCHANGED events
      BY <2>3 DEF Store
    <3>2. \/ answering' = [call |-> 0, left |-> {}]
          \/ answering' = [call |-> answering.call, left |-> answering.left \ {s}]
      BY <2>3, Zenon DEF Store, Idle, NoCall
    <3>3. g_ret' \in {g_ret, answering.call} /\ g_done' \in BOOLEAN
      <4>1. g_ret' = (IF s = "ret" THEN answering.call ELSE g_ret) /\ g_done' = (g_done \/ s = "done")
        BY <2>3, Zenon DEF Store
      <4>2. QED
        BY <4>1
    <3>4. g_buf' \in [of : 0 .. pc, whole : BOOLEAN]
      <4>1. g_buf' = (CASE s = "filling" -> [of |-> answering.call, whole |-> FALSE]
                       [] s = "filled"  -> [of |-> answering.call, whole |-> TRUE]
                       [] OTHER         -> g_buf)
        BY <2>3, Zenon DEF Store
      <4>2. answering.call \in 0 .. pc /\ g_buf \in [of : 0 .. pc, whole : BOOLEAN]
        BY DEF Typed, TypeOK
      <4>3. CASE s = "filling"
        BY <4>1, <4>2, <4>3
      <4>4. CASE s = "filled"
        BY <4>1, <4>2, <4>4
      <4>5. CASE s \notin {"filling", "filled"}
        BY <4>1, <4>2, <4>5
      <4>6. QED
        BY <4>3, <4>4, <4>5
    <3>5. 0 \notin open /\ (at = "step" => pc # 0)
      BY <2>0 DEF TypeOK
    <3>6. /\ answering' \in [call : Nat, left : SUBSET {"ret", "filling", "filled", "done"}]
          /\ answering'.call \in 0 .. pc /\ answering'.call \notin open
          /\ at = "step" => pc # answering'.call
      BY <3>2, <3>5, <2>0 DEF Typed, TypeOK
    <3>7. QED
      BY <3>1, <3>3, <3>4, <3>6, <2>0, SameScript, StoresAre DEF main, events, Typed, TypeOK
  <2>4. CASE Arrive
    BY <2>4, SameScript DEF Arrive, main, library, globals, Typed, TypeOK
  <2>5. ASSUME Advance, UNCHANGED fixed, UNCHANGED late, UNCHANGED library, UNCHANGED globals,
               evcb' \in BOOLEAN, UNCHANGED unheard, found' \in 0 .. pc,
               out' \in [call : 0 .. pc, ret : 0 .. pc, buf : 0 .. pc, whole : BOOLEAN]
        PROVE  Typed'
    <3>1. open' \subseteq 1 .. pc' /\ late' \in 0 .. pc' /\ answering' = answering
          /\ open' = open /\ answering.call \in 0 .. pc /\ answering.call \in 0 .. pc'
      BY <2>5, Advances, <2>0 DEF library, TypeOK
    <3>2. /\ g_ret' \in 0 .. pc' /\ g_buf' \in [of : 0 .. pc', whole : BOOLEAN] /\ g_done' \in BOOLEAN
          /\ found' \in 0 .. pc'
          /\ out' \in [call : 0 .. pc', ret : 0 .. pc', buf : 0 .. pc', whole : BOOLEAN]
      BY <2>5, Advances, <2>0 DEF globals, TypeOK
    <3>3. at' = "step" => pc' \notin open' /\ pc' # answering'.call
      BY <3>1, <2>5, Advances, <2>0 DEF TypeOK
    <3>4. QED
      BY <3>1, <3>2, <3>3, <2>5, Advances, SameScript DEF Typed, TypeOK
  <2>6. CASE Skip
    BY <2>6, <2>5 DEF Skip, events, Typed, TypeOK
  <2>7. CASE Register
    BY <2>7, <2>5 DEF Register, Typed, TypeOK
  <2>8. CASE GiveUp \/ Crash
    BY <2>8, SameScript DEF GiveUp, Crash, library, globals, events, Typed, TypeOK
  <2>9. CASE Issue
    <3>1. at' \in {"read", "wait"} /\ (at' = "read" => Step.kind = "create")
          /\ (at' = "wait" => Step.kind # "create")
      BY <2>9 DEF Issue
    <3>2. out' \in [call : 0 .. pc, ret : 0 .. pc, buf : 0 .. pc, whole : BOOLEAN]
      BY <2>9, <2>0 DEF Issue, Reading, NoCall
    <3>3. open' = open \cup {pc} /\ answering' = answering /\ pc # answering.call
      BY <2>9 DEF Issue, Calls, Typed
    <3>4. QED
      BY <2>9, <3>1, <3>2, <3>3, <2>0, SameScript DEF Issue, events, Typed, TypeOK
  <2>10. CASE Poll
    BY <2>10, <2>0, SameScript DEF Poll, MayPoll, library, globals, events, Typed, TypeOK
  <2>11. CASE ReadRet
    <3>1. late' \in 0 .. pc
      BY <2>11, <2>0 DEF ReadRet, TypeOK
    <3>2. out' \in [call : 0 .. pc, ret : 0 .. pc, buf : 0 .. pc, whole : BOOLEAN]
      BY <2>11, <2>0 DEF ReadRet, TypeOK
    <3>3. QED
      BY <2>11, <3>1, <3>2, <2>0, SameScript DEF ReadRet, library, globals, events, Typed, TypeOK
  <2>12. CASE ReadBuf
    <3>1. UNCHANGED fixed /\ UNCHANGED late /\ UNCHANGED library /\ UNCHANGED globals /\ UNCHANGED events
      BY <2>12 DEF ReadBuf
    <3>2. out' \in [call : 0 .. pc, ret : 0 .. pc, buf : 0 .. pc, whole : BOOLEAN]
      BY <2>12, <2>0 DEF ReadBuf, TypeOK
    <3>3. found' \in 0 .. pc
      BY <2>12, <2>0 DEF ReadBuf, TypeOK
    <3>4. CASE Advance
      BY <3>1, <3>2, <3>3, <3>4, <2>5 DEF events, Typed, TypeOK
    <3>5. CASE at' = "exit" /\ UNCHANGED <<pc, polled>>
      BY <3>1, <3>2, <3>3, <3>5, <2>0, SameScript DEF library, globals, events, Typed, TypeOK
    <3>6. QED
      BY <2>12, <3>4, <3>5 DEF ReadBuf
  <2>13. QED
    BY <2>1, <2>2, <2>3, <2>4, <2>6, <2>7, <2>8, <2>9, <2>10, <2>11, <2>12 DEF Next, MainStep
<1>3. QED
  BY <1>1, <1>2, PTL DEF Spec

THEOREM TypeCorrect == Spec => []TypeOK
BY TypedAlways, PTL DEF Typed

-----------------------------------------------------------------------------
(* Store queries and their time-out.                                       *)

\* A query main waits for has not been open longer than its time-out.
InTime ==
  /\ Typed
  /\ at = "wait" /\ IsQuery(pc) /\ ~Answered => polled <= prog.timeout
  /\ QueriesOutlasted

\* With a wait longer than the time-out, the first call given up is never a query.
THEOREM QueriesAreOutlasted == Spec => []QueriesOutlasted
<1>1. Init /\ Typed => InTime
  <2> SUFFICES ASSUME Init, Typed PROVE InTime
    OBVIOUS
  <2>1. at # "wait"
    BY Zenon DEF Init
  <2>2. late = NoCall
    BY DEF Init
  <2>3. QED
    BY <2>1, <2>2 DEF InTime, QueriesOutlasted
<1>2. InTime /\ Typed' /\ [Next]_vars => InTime'
  <2> SUFFICES ASSUME InTime, Typed', [Next]_vars PROVE InTime'
    OBVIOUS
  <2>0. /\ Typed /\ TypeOK /\ pc \in 1 .. pc /\ pc \in Nat /\ prog.wait \in Nat /\ prog.timeout \in Nat
        /\ polled \in Nat
    <3>1. Typed /\ TypeOK
      BY DEF InTime, Typed
    <3>2. QED
      BY <3>1, ScriptIs, SMTT(30) DEF TypeOK
  <2>1. ASSUME UNCHANGED fixed, UNCHANGED late PROVE QueriesOutlasted'
    BY <2>1, <2>0, SameScript DEF InTime, QueriesOutlasted, IsQuery
  <2>2. ASSUME UNCHANGED fixed, UNCHANGED late, at' # "wait" PROVE InTime'
    BY <2>1, <2>2 DEF InTime
  <2>3. ASSUME UNCHANGED fixed, UNCHANGED main, Answered => Answered' PROVE InTime'
    <3>1. UNCHANGED <<pc, at, polled, late>>
      BY <2>3 DEF main
    <3>2. QED
      BY <3>1, <2>3, <2>1, <2>0, SameScript DEF InTime, IsQuery
  <2>4. CASE UNCHANGED vars
    <3>1. UNCHANGED fixed /\ UNCHANGED main /\ UNCHANGED <<open, answering, pc>>
      BY <2>4 DEF vars, main, library
    <3>2. QED
      BY <3>1, <2>3 DEF Answered
  <2>5. ASSUME NEW c \in open, Answer(c) PROVE InTime'
    BY <2>5, <2>3 DEF Answer, main, Answered
  <2>6. ASSUME NEW s \in answering.left, Store(s) PROVE InTime'
    <3>1. UNCHANGED fixed /\ UNCHANGED main /\ UNCHANGED open /\ UNCHANGED pc
      BY <2>6 DEF Store, main
    <3>2. answering'.call \in {0, answering.call}
      <4>1. answering' = [call |-> 0, left |-> {}]
            \/ answering' = [call |-> answering.call, left |-> answering.left \ {s}]
        BY <2>6, Zenon DEF Store, Idle, NoCall
      <4>2. QED
        BY <4>1
    <3>3. QED
      BY <3>1, <3>2, <2>0, <2>3 DEF Answered
  <2>7. CASE Arrive
    BY <2>7, <2>3 DEF Arrive, main, library, Answered
  <2>8. CASE Skip \/ GiveUp \/ Crash \/ Register
    BY <2>8, <2>2 DEF Skip, GiveUp, Crash, Register, Advance
  <2>9. CASE Issue
    <3>1. UNCHANGED fixed /\ UNCHANGED late /\ polled' = 0 /\ prog'.timeout = prog.timeout
      BY <2>9, <2>0, SameScript DEF Issue, Calls, Typed
    <3>2. QED
      BY <3>1, <2>1, <2>0 DEF InTime
  <2>10. CASE Poll
    <3>1. UNCHANGED fixed /\ UNCHANGED late /\ UNCHANGED pc /\ UNCHANGED <<open, answering>>
          /\ polled' = polled + 1 /\ (IsQuery(pc) /\ ~Answered => polled < prog.timeout)
      BY <2>10 DEF Poll, library
    <3>2. QED
      BY <3>1, <2>1, <2>0, SameScript DEF InTime, IsQuery, Answered
  <2>11. CASE ReadRet
    <3>1. UNCHANGED fixed /\ at' = "print"
      BY <2>11 DEF ReadRet
    <3>2. CASE late = NoCall /\ GivenUp
      <4>1. late' = pc
        BY <2>11, <3>2 DEF ReadRet
      <4>2. CASE at = "read"
        BY <3>1, <4>1, <4>2, <2>0, SameScript DEF InTime, QueriesOutlasted, IsQuery, Typed, Step
      <4>3. CASE at = "wait" /\ ~MayPoll
        <5>1. ~Answered /\ polled >= prog.wait
          BY <4>3, <3>2, <2>0 DEF GivenUp, MayPoll
        <5>2. IsQuery(pc) => ~(prog.timeout < prog.wait)
          BY <4>3, <5>1, <2>0 DEF InTime
        <5>3. QED
          BY <3>1, <4>1, <5>2, <2>0, SameScript DEF InTime, QueriesOutlasted, IsQuery
      <4>4. QED
        BY <4>2, <4>3, <2>11 DEF ReadRet
    <3>3. CASE ~(late = NoCall /\ GivenUp)
      <4>1. UNCHANGED late
        BY <2>11, <3>3 DEF ReadRet
      <4>2. QED
        BY <3>1, <4>1, <2>2
    <3>4. QED
      BY <3>2, <3>3
  <2>12. CASE ReadBuf
    BY <2>12, <2>2 DEF ReadBuf, Advance
  <2>13. QED
    BY <2>4, <2>5, <2>6, <2>7, <2>8, <2>9, <2>10, <2>11, <2>12 DEF Next, MainStep
<1>3. InTime => QueriesOutlasted
  BY DEF InTime
<1>4. QED
  BY <1>1, <1>2, <1>3, TypedAlways, PTL DEF Spec

-----------------------------------------------------------------------------
(* Whose answer is printed.                                                *)

AllOf(c) == [of |-> c, whole |-> TRUE]

\* While cb runs for the call main waits for: the flag is down and its store still to
\* come, and what has been stored is that call's.
Halfway ==
  /\ ~g_done /\ "done" \in answering.left
  /\ "ret" \in answering.left \/ g_ret = pc
  /\ "filled" \in answering.left \/ ("filling" \notin answering.left /\ g_buf = AllOf(pc))

\* As long as no call was given up, no other than the one main is at is open, and the
\* globals go from the reset flag to all of that call's answer.
Own ==
  /\ open \subseteq {pc} /\ answering.call \in {NoCall, pc}
  /\ at = "step" => open = {} /\ answering.call = NoCall
  /\ at \in {"wait", "read", "print"} => out.call = pc
  /\ at \in {"wait", "read"} => (pc \in open => ~g_done)
  /\ at \in {"wait", "read"} => (answering.call = pc => Halfway)
  /\ at \in {"wait", "read"} => (Answered => g_ret = pc /\ g_buf = AllOf(pc))
  /\ at = "print" => Answered /\ out.ret = pc /\ g_buf = AllOf(pc)
  /\ at \notin {"wait", "read", "print"} => out.ret = out.call /\ out.buf = out.call /\ out.whole

OwnAll ==
  /\ Typed
  /\ answering.call = NoCall => answering.left = {}
  /\ inOrder /\ late = NoCall => Own

\* A client that has given up no call prints that call's own answer, and all of it.
THEOREM AnswersAreOwn == Spec => []OwnUnlessAbandoned
<1>1. Init /\ Typed => OwnAll
  <2> SUFFICES ASSUME Init, Typed PROVE OwnAll
    OBVIOUS
  <2>1. at \in {"exit", "step"}
    BY Zenon DEF Init
  <2>2. /\ open = {} /\ answering = [call |-> 0, left |-> {}]
        /\ out = [call |-> 0, ret |-> 0, buf |-> 0, whole |-> TRUE]
    BY DEF Init, Idle, Reading, NoCall
  <2>3. QED
    BY <2>1, <2>2 DEF OwnAll, Own, NoCall
<1>2. OwnAll /\ Typed' /\ [Next]_vars => OwnAll'
  <2> SUFFICES ASSUME OwnAll, Typed', [Next]_vars PROVE OwnAll'
    OBVIOUS
  <2>0. Typed /\ TypeOK /\ pc \in Nat /\ pc # 0
    <3>1. Typed /\ TypeOK
      BY DEF OwnAll, Typed
    <3>2. QED
      BY <3>1, ScriptIs
  <2>1. CASE UNCHANGED vars
    <3>1. UNCHANGED <<inOrder, pc, at, late, out, open, answering, g_ret, g_buf, g_done>>
      BY <2>1 DEF vars, fixed, main, library, globals
    <3>2. QED
      BY <3>1 DEF OwnAll, Own, Halfway, Answered
  <2>2. ASSUME NEW c \in open, Answer(c) PROVE OwnAll'
    <3>1. /\ UNCHANGED <<inOrder, pc, at, late, out, g_ret, g_buf, g_done>>
          /\ open' = open \ {c} /\ at \notin {"exit", "crashed"}
          /\ answering' = [call |-> c, left |-> {"ret", "filling", "filled", "done"}]
      BY <2>2, StoresAre DEF Answer, fixed, main, globals, Ended
    <3>2. c # 0
      BY <2>0 DEF TypeOK
    <3>3. ASSUME inOrder, late = NoCall PROVE Own'
      <4>1. Own /\ c = pc /\ at \notin {"step", "print"} /\ at \in {"wait", "read"}
        BY <3>1, <3>3, <2>0 DEF OwnAll, Own, Answered, TypeOK
      <4>2. QED
        BY <3>1, <4>1 DEF Own, Halfway, Answered
    <3>4. QED
      BY <3>1, <3>2, <3>3 DEF OwnAll, NoCall
  <2>3. ASSUME NEW s \in answering.left, Store(s) PROVE OwnAll'
    <3>1. /\ UNCHANGED <<inOrder, pc, at, late, out, open>> /\ at \notin {"exit", "crashed"}
      BY <2>3 DEF Store, fixed, main, Ended
    <3>2. /\ answering' = (IF answering.left \ {s} = {} THEN [call |-> 0, left |-> {}]
                           ELSE [call |-> answering.call, left |-> answering.left \ {s}])
          /\ g_ret' = (IF s = "ret" THEN answering.call ELSE g_ret)
          /\ g_buf' = (CASE s = "filling" -> [of |-> answering.call, whole |-> FALSE]
                         [] s = "filled"  -> [of |-> answering.call, whole |-> TRUE]
                         [] OTHER         -> g_buf)
          /\ g_done' = (g_done \/ s = "done") /\ Seen(s)
      BY <2>3, Zenon DEF Store, Idle, NoCall
    <3>3. answering.call # NoCall /\ answering.left \subseteq {"ret", "filling", "filled", "done"}
      BY StoresAre DEF OwnAll, Typed
    <3>4. answering'.call = NoCall => answering'.left = {}
      BY <3>2, <3>3 DEF NoCall
    <3>5. ASSUME inOrder, late = NoCall PROVE Own'
      <4>1. /\ Own /\ answering.call = pc /\ at \in {"wait", "read"} /\ Halfway
            /\ out.call = pc /\ pc \notin open /\ open \subseteq {pc}
        BY <3>1, <3>3, <3>5, <2>0 DEF OwnAll, Own, Answered, TypeOK
      <4>2. ASSUME s # "done", Halfway', answering'.call = pc PROVE Own'
        BY <3>1, <4>1, <4>2 DEF Own, Answered
      <4>3. \A i, j \in 1 .. 4 : Stores[j] = s /\ Stores[i] \in answering.left => j <= i
        BY <3>2, <3>5, <4>1, StoresAre DEF Seen
      <4>4. ASSUME s # "done" PROVE answering' = [call |-> pc, left |-> answering.left \ {s}] /\ ~g_done'
        BY <3>2, <4>1, <4>4 DEF Halfway
      <4>5. CASE s = "ret"
        <5>1. g_ret' = pc /\ g_buf' = g_buf
          BY <3>2, <4>1, <4>5
        <5>2. QED
          BY <5>1, <3>1, <4>1, <4>2, <4>4, <4>5 DEF Halfway
      <4>6. CASE s = "filling"
        <5>1. g_ret' = g_ret /\ "filled" \in answering.left
          BY <3>2, <4>1, <4>6 DEF Halfway
        <5>2. QED
          BY <5>1, <3>1, <4>1, <4>2, <4>4, <4>6 DEF Halfway
      <4>7. CASE s = "filled"
        <5>1. g_ret' = g_ret /\ g_buf' = AllOf(pc)
          BY <3>2, <4>1, <4>7 DEF AllOf
        <5>2. "filling" \notin answering.left
          <6>1. Stores[2] = "filling" /\ Stores[3] = s
            BY StoresAre, <4>7
          <6>2. QED
            BY <4>3, <6>1
        <5>3. QED
          BY <5>1, <5>2, <3>1, <4>1, <4>2, <4>4, <4>7 DEF Halfway
      <4>8. CASE s = "done"
        <5>1. g_ret' = g_ret /\ g_buf' = g_buf
          BY <3>2, <4>8
        <5>2. "ret" \notin answering.left /\ "filling" \notin answering.left /\ "filled" \notin answering.left
          <6>1. Stores[1] = "ret" /\ Stores[2] = "filling" /\ Stores[3] = "filled" /\ Stores[4] = s
            BY StoresAre, <4>8
          <6>2. QED
            BY <4>3, <6>1
        <5>3. answering.left \ {s} = {}
          BY <5>2, <3>3, <4>8
        <5>4. answering' = [call |-> 0, left |-> {}]
          BY <5>3, <3>2
        <5>5. g_ret = pc /\ g_buf = AllOf(pc)
          BY <4>1, <5>2 DEF Halfway
        <5>6. QED
          BY <5>1, <5>4, <5>5, <3>1, <4>1, <2>0 DEF Own, NoCall
      <4>9. QED
        BY <3>3, <4>5, <4>6, <4>7, <4>8
    <3>6. QED
      BY <3>1, <3>4, <3>5 DEF OwnAll
  <2>4. CASE Arrive
    <3>1. UNCHANGED <<inOrder, pc, at, late, out, open, answering, g_ret, g_buf, g_done>>
      BY <2>4 DEF Arrive, fixed, main, library, globals
    <3>2. QED
      BY <3>1 DEF OwnAll, Own, Halfway, Answered
  <2>5. CASE Skip \/ Register
    <3>1. /\ UNCHANGED <<inOrder, late, out, open, answering, g_ret, g_buf, g_done>>
          /\ at = "step" /\ at' \in {"step", "exit"}
      BY <2>5 DEF Skip, Register, Calls, Advance, fixed, library, globals
    <3>2. QED
      BY <3>1 DEF OwnAll, Own
  <2>6. CASE GiveUp \/ Crash
    <3>1. /\ UNCHANGED <<inOrder, pc, late, out, open, answering, g_ret, g_buf, g_done>>
          /\ at = "step" /\ at' \in {"exit", "crashed"}
      BY <2>6 DEF GiveUp, Crash, fixed, library, globals
    <3>2. QED
      BY <3>1 DEF OwnAll, Own
  <2>7. CASE Issue
    <3>1. /\ UNCHANGED <<inOrder, pc, late, answering, g_ret, g_buf>> /\ at = "step"
          /\ at' \in {"wait", "read"} /\ g_done' = FALSE /\ open' = open \cup {pc} /\ out'.call = pc
      BY <2>7 DEF Issue, Calls, Reading, fixed
    <3>2. QED
      BY <3>1, <2>0 DEF OwnAll, Own, Answered, NoCall
  <2>8. CASE Poll
    <3>1. UNCHANGED <<inOrder, pc, at, late, out, open, answering, g_ret, g_buf, g_done>>
      BY <2>8 DEF Poll, fixed, library, globals
    <3>2. QED
      BY <3>1 DEF OwnAll, Own, Halfway, Answered
  <2>9. CASE ReadRet
    <3>1. /\ UNCHANGED <<inOrder, pc, open, answering, g_ret, g_buf, g_done>>
          /\ at \in {"read", "wait"} /\ at' = "print"
          /\ late' = (IF late = NoCall /\ GivenUp THEN pc ELSE late)
          /\ out' = [out EXCEPT !.ret = g_ret]
      BY <2>9 DEF ReadRet, fixed, library, globals
    <3>2. at = "wait" => ~MayPoll
      BY <2>9 DEF ReadRet
    <3>3. ASSUME inOrder', late' = NoCall PROVE Own'
      <4>1. late = NoCall /\ ~GivenUp /\ Own
        BY <3>1, <3>3, <2>0 DEF OwnAll, NoCall
      <4>2. Answered
        BY <3>1, <4>1 DEF GivenUp, Own, Halfway, Answered
      <4>3. out'.call = out.call /\ out'.ret = g_ret
        BY <3>1, <2>0 DEF TypeOK
      <4>4. QED
        BY <3>1, <4>1, <4>2, <4>3 DEF Own, Answered
    <3>4. QED
      BY <3>1, <3>3 DEF OwnAll
  <2>10. CASE ReadBuf
    <3>1. /\ UNCHANGED <<inOrder, late, open, answering, g_ret, g_buf, g_done>> /\ at = "print"
          /\ out' = [out EXCEPT !.buf = g_buf.of, !.whole = g_buf.whole]
          /\ at' \in {"step", "exit"}
      BY <2>10 DEF ReadBuf, Advance, fixed, library, globals
    <3>2. out'.call = out.call /\ out'.ret = out.ret /\ out'.buf = g_buf.of /\ out'.whole = g_buf.whole
      BY <3>1, <2>0 DEF TypeOK
    <3>3. ASSUME inOrder, late = NoCall PROVE Own'
      <4>1. Own /\ open = {} /\ answering.call = NoCall
        BY <3>1, <3>3 DEF OwnAll, Own, Answered
      <4>2. out'.ret = out'.call /\ out'.buf = out'.call /\ out'.whole
        BY <3>1, <3>2, <4>1 DEF Own, AllOf
      <4>3. QED
        BY <3>1, <4>1, <4>2 DEF Own
    <3>4. QED
      BY <3>1, <3>3 DEF OwnAll
  <2>11. QED
    BY <2>1, <2>2, <2>3, <2>4, <2>5, <2>6, <2>7, <2>8, <2>9, <2>10 DEF Next, MainStep
<1>3. OwnAll => OwnUnlessAbandoned
  BY DEF OwnAll, Own, OwnUnlessAbandoned
<1>4. QED
  BY <1>1, <1>2, <1>3, TypedAlways, PTL DEF Spec

-----------------------------------------------------------------------------
(* No message is missed.                                                   *)

\* The script registers its event callback before it starts the node.
RegistersFirst(p) ==
  \A i, j \in DOMAIN p.steps : p.steps[i].kind = "register" /\ p.steps[j].sym = "start" => i < j

\* A registration main has passed was made or could not be; a message that came before it
\* could not have been heard.
Heard ==
  /\ Typed
  /\ \A i \in 1 .. pc - 1 : Script[i].kind = "register" => evcb \/ Script[i].sym \in missing
  /\ at \in {"wait", "read", "print"} => Step.kind # "register"
  /\ NothingUnheard

\* A script that registers first and finds the symbol to register with misses no message
\* for being early, however the library's callbacks and its messages fall between main's
\* steps.
THEOREM HearsEverything == Spec => [](RegistersFirst(prog) => NothingUnheard)
<1>1. Init /\ Typed => Heard
  <2> SUFFICES ASSUME Init, Typed PROVE Heard
    OBVIOUS
  <2>1. pc = 1 /\ unheard = FALSE
    BY DEF Init
  <2>2. at \in {"exit", "step"}
    BY Zenon DEF Init
  <2>3. QED
    BY <2>1, <2>2 DEF Heard, NothingUnheard
<1>2. (RegistersFirst(prog) => Heard) /\ Typed' /\ [Next]_vars => (RegistersFirst(prog) => Heard)'
  <2>p. [Next]_vars => prog' = prog
    BY DEF Next, MainStep, vars, fixed, Answer, Store, Arrive, Skip, GiveUp, Crash, Register,
           Issue, Poll, ReadRet, ReadBuf
  <2> SUFFICES ASSUME RegistersFirst(prog), Heard, Typed', [Next]_vars PROVE Heard'
    BY <2>p DEF RegistersFirst
  <2>0. /\ Typed /\ TypeOK /\ pc \in Nat /\ pc \in 1 .. Len(Script) /\ Len(Script) \in Nat
        /\ DOMAIN Script = 1 .. Len(Script) /\ RegistersFirst(prog)
    <3>1. Typed /\ TypeOK
      BY DEF Heard, Typed
    <3>2. QED
      BY <3>1, ScriptIs, SMTT(30) DEF TypeOK
  <2>1. ASSUME UNCHANGED fixed, UNCHANGED <<evcb, unheard>>, pc' = pc,
               at' \in {"wait", "read", "print"} => Step.kind # "register"
        PROVE  Heard'
    BY <2>0, <2>1, SameScript DEF Heard, NothingUnheard
  <2>2. CASE UNCHANGED vars
    BY <2>1, <2>2 DEF vars, main, events, Heard
  <2>3. ASSUME \/ \E c \in open : Answer(c)
               \/ \E s \in answering.left : Store(s)
               \/ GiveUp \/ Crash \/ Issue \/ Poll \/ ReadRet
        PROVE  Heard'
    BY <2>1, <2>3 DEF Answer, Store, GiveUp, Crash, Issue, Poll, ReadRet, main, events, Heard
  <2>4. CASE Arrive
    <3>1. PICK i \in 1 .. pc : Script[i].sym = "start"
      BY <2>4 DEF Arrive
    <3>2. PICK j \in DOMAIN Script : Script[j].kind = "register"
      BY <2>4 DEF Arrive
    <3>3. j \in 1 .. pc - 1
      BY <2>0, <3>1, <3>2 DEF RegistersFirst, Script
    <3>4. evcb \/ Script[j].sym \in missing
      BY <3>2, <3>3 DEF Heard
    <3>5. UNCHANGED fixed /\ UNCHANGED <<evcb, pc>> /\ unheard' = (unheard \/ ~evcb)
      BY <2>4 DEF Arrive, main
    <3>6. NothingUnheard'
      BY <2>0, <3>2, <3>4, <3>5, SameScript DEF Heard, NothingUnheard
    <3>7. QED
      BY <2>0, <2>4, <3>5, <3>6, SameScript DEF Heard, Arrive, main
  <2>5. ASSUME Advance \/ (pc' = pc /\ at' = "exit"), UNCHANGED fixed, UNCHANGED unheard, evcb => evcb',
               Step.kind = "register" => evcb' \/ Step.sym \in missing
        PROVE  Heard'
    <3>1. (pc' = pc \/ pc' = pc + 1) /\ at' \in {"step", "exit"}
      BY <2>5 DEF Advance
    <3>2. ASSUME NEW i \in 1 .. pc' - 1, Script[i].kind = "register"
          PROVE  evcb' \/ Script[i].sym \in missing
      <4>1. CASE i \in 1 .. pc - 1
        BY <2>5, <3>2, <4>1 DEF Heard
      <4>2. CASE i = pc
        BY <2>5, <3>2, <4>2 DEF Step
      <4>3. QED
        BY <2>0, <3>1, <4>1, <4>2
    <3>3. QED
      BY <2>0, <2>5, <3>1, <3>2, SameScript DEF Heard, NothingUnheard
  <2>6. CASE Skip
    <3>1. Step.kind = "register" => Step.sym \in missing
      BY <2>6 DEF Skip, Skipped
    <3>2. QED
      BY <2>5, <2>6, <3>1 DEF Skip, events
  <2>7. CASE Register
    BY <2>5, <2>7 DEF Register
  <2>8. CASE ReadBuf
    <3>1. Step.kind # "register"
      BY <2>8 DEF ReadBuf, Heard
    <3>2. QED
      BY <2>5, <2>8, <3>1 DEF ReadBuf, events
  <2>9. QED
    BY <2>2, <2>3, <2>4, <2>6, <2>7, <2>8 DEF Next, MainStep
<1>3. (RegistersFirst(prog) => Heard) => (RegistersFirst(prog) => NothingUnheard)
  BY DEF Heard
<1>4. QED
  BY <1>1, <1>2, <1>3, TypedAlways, PTL DEF Spec

\* Of the nine clients recv_diag alone registers a callback.  It does so before it starts
\* the node, so if dlsym has found the symbol it is given every message.
THEOREM RecvDiagHears == Spec => [](prog = RecvDiag /\ "setcb" \notin missing => ~unheard)
<1>1. RegistersFirst(RecvDiag)
  BY DEF RegistersFirst, RecvDiag, On
<1>2. \A i \in DOMAIN RecvDiag.steps :
        RecvDiag.steps[i].kind = "register" => RecvDiag.steps[i].sym = "setcb"
  BY DEF RecvDiag, On
<1>3. (RegistersFirst(prog) => NothingUnheard)
      => (prog = RecvDiag /\ "setcb" \notin missing => ~unheard)
  BY <1>1, <1>2 DEF NothingUnheard, Script
<1>4. QED
  BY <1>3, HearsEverything, PTL

-----------------------------------------------------------------------------
(* A client's end without fairness: main's steps run out, and until they   *)
(* have it waits for nothing but what the library has promised.            *)

\* What main has yet to do at this step, and with the steps after it.
Stage ==
  CASE at = "step"  -> prog.wait + 3
    [] at = "wait"  -> (prog.wait - polled) + 2
    [] at = "read"  -> 2
    [] at = "print" -> 1
    [] OTHER        -> 0

StepCost == prog.wait + 4

MainRest == IF Ended THEN 0 ELSE Stage + (Len(Script) - pc) * StepCost

\* Main can go on, as the guards of its steps say; or the library owes it the end of a
\* callback, or the answer to a query whose time-out is over.
MainReady ==
  \/ at \in {"step", "read", "print"}
  \/ at = "wait" /\ ~(MayPoll /\ IsQuery(pc) /\ ~Answered /\ polled >= prog.timeout)

LibraryOwes ==
  \/ \E s \in answering.left : Seen(s)
  \/ IsQuery(pc) /\ pc \in open /\ answering = Idle

NeverStuck == Ended \/ MainReady \/ LibraryOwes

\* Every step of main's leaves it less to do, and no other step changes that.
MainRunsOut == [][MainRest' \in Nat /\ (MainRest' < MainRest \/ UNCHANGED main)]_vars

\* A step less leaves room for everything one may cost.
LEMMA StepLess ==
  ASSUME NEW n \in Nat \ {0}, NEW r \in Nat, NEW h \in Nat, NEW g \in Nat, g < h + r
  PROVE  g + (n - 1) * r \in Nat /\ g + (n - 1) * r < h + n * r
<1> DEFINE a == (n - 1) * r
           b == n * r
<1>1. a \in Nat /\ b = a + r
  OBVIOUS
<1> HIDE DEF a, b
<1>2. QED
  BY <1>1 DEF a, b

\* A callback that has begun has a store main sees next, until it has ended.
Storing == answering.left = {} => answering = Idle

LEMMA StoringAlways == Spec => []Storing
<1>1. Init => Storing
  BY DEF Init, Storing
<1>2. Storing /\ [Next]_vars => Storing'
  <2> SUFFICES ASSUME Storing, [Next]_vars PROVE Storing'
    OBVIOUS
  <2>1. ASSUME UNCHANGED answering PROVE Storing'
    BY <2>1 DEF Storing, Idle
  <2>2. ASSUME NEW c \in open, Answer(c) PROVE Storing'
    BY <2>2, StoresAre DEF Answer, Storing
  <2>3. ASSUME NEW t \in answering.left, Store(t) PROVE Storing'
    <3> DEFINE rest == answering.left \ {t}
               b    == [call |-> answering.call, left |-> rest]
    <3>1. answering' = IF rest = {} THEN Idle ELSE b
      BY <2>3 DEF Store
    <3>2. b.left = rest /\ Idle' = Idle
      BY DEF Idle, NoCall
    <3> HIDE DEF b, rest
    <3>3. QED
      BY <3>1, <3>2 DEF Storing
  <2>4. QED
    BY <2>1, <2>2, <2>3 DEF Next, MainStep, vars, library, Arrive, Skip, GiveUp, Crash, Register,
                            Issue, Poll, ReadRet, ReadBuf
<1>3. QED
  BY <1>1, <1>2, PTL DEF Spec

LEMMA NextSeen ==
  ASSUME Typed, answering.left # {}
  PROVE  \E t \in answering.left : Seen(t)
<1>1. answering.left \subseteq {"ret", "filling", "filled", "done"}
  BY DEF Typed
<1>2. PICK j \in 1 .. 4 : /\ Stores[j] \in answering.left
                          /\ \A i \in 1 .. 4 : Stores[i] \in answering.left => j <= i
  BY <1>1, StoresAre
<1>3. \A k \in 1 .. 4 : Stores[k] = Stores[j] => k = j
  BY StoresAre
<1>4. QED
  BY <1>2, <1>3, StoresAre DEF Seen

\* No client hangs, though no call but a store query is ever promised an answer: main is
\* never left waiting for anything else, and its steps run out, for any script.
THEOREM ClientsCannotHang == Spec => []NeverStuck /\ MainRunsOut
<1>1. Typed /\ Storing => NeverStuck
  <2> SUFFICES ASSUME Typed, Storing, ~Ended, ~MainReady
               PROVE  LibraryOwes
    BY DEF NeverStuck
  <2>1. at = "wait" /\ IsQuery(pc) /\ ~Answered
    BY DEF Typed, TypeOK, MainReady, Ended
  <2>2. CASE answering = Idle
    <3>1. answering.call # pc
      BY <2>2, ScriptIs DEF Typed, Idle, NoCall
    <3>2. QED
      BY <2>1, <2>2, <3>1 DEF Answered, LibraryOwes
  <2>3. CASE answering # Idle
    BY <2>3, NextSeen DEF Storing, LibraryOwes
  <2>4. QED
    BY <2>2, <2>3
<1>2. Typed /\ [Next]_vars => [MainRest' \in Nat /\ (MainRest' < MainRest \/ UNCHANGED main)]_vars
  <2> SUFFICES ASSUME Typed, Next
               PROVE  MainRest' \in Nat /\ (MainRest' < MainRest \/ UNCHANGED main)
    OBVIOUS
  <2> DEFINE n == Len(Script) - pc
  <2>1. /\ prog.wait \in Nat /\ StepCost \in Nat /\ StepCost = prog.wait + 4
        /\ n \in Nat /\ polled \in Nat /\ polled <= prog.wait
        /\ pc \in Nat /\ pc <= Len(Script) /\ Len(Script) \in Nat
    BY ScriptIs DEF Typed, TypeOK, StepCost
  <2>2. UNCHANGED fixed
    BY DEF Next, MainStep, Answer, Store, Arrive, Skip, GiveUp, Crash, Register, Issue, Poll,
           ReadRet, ReadBuf
  <2>3. Script' = Script /\ prog' = prog /\ StepCost' = StepCost
    BY <2>2, SameScript DEF StepCost
  <2>w. PICK w \in Nat, p \in Nat : prog.wait = w /\ polled = p /\ p <= w
    BY <2>1
  <2>4. Stage \in Nat /\ (~Ended => Stage \in Nat \ {0})
    <3>1. at \in {"step", "wait", "read", "print"} \/ Ended
      BY DEF Typed, TypeOK, Ended
    <3>2. Stage \in {w + 3, (w - p) + 2, 2, 1} \/ (Ended /\ Stage = 0)
      BY <2>w, <3>1 DEF Stage, Ended
    <3>3. QED
      BY <2>w, <3>2
  <2>5. \A x, y \in Nat : x + y * StepCost \in Nat
    BY <2>1
  <2>6. MainRest \in Nat /\ (~Ended => MainRest = Stage + n * StepCost /\ MainRest > 0)
    <3> DEFINE y == n * StepCost
    <3>1. y \in Nat
      BY <2>1
    <3>2. MainRest = IF Ended THEN 0 ELSE Stage + y
      BY DEF MainRest
    <3> HIDE DEF y, n
    <3>3. QED
      BY <2>4, <3>1, <3>2 DEF y
  <2>7. ASSUME UNCHANGED main PROVE MainRest' = MainRest
    BY <2>3, <2>7 DEF main, MainRest, Stage, Ended
  <2>8. ASSUME ~Ended, Ended' PROVE MainRest' \in Nat /\ MainRest' < MainRest
    BY <2>6, <2>8 DEF MainRest
  <2>9. ASSUME ~Ended, ~Ended', pc' = pc, Stage' \in Nat, Stage' < Stage
        PROVE  MainRest' \in Nat /\ MainRest' < MainRest
    <3> DEFINE y == n * StepCost
    <3>1. y \in Nat
      BY <2>1
    <3>2. MainRest' = Stage' + y /\ MainRest = Stage + y
      BY <2>3, <2>6, <2>9 DEF MainRest
    <3>3. \A g, h, x \in Nat : g < h => g + x \in Nat /\ g + x < h + x
      OBVIOUS
    <3> HIDE DEF y
    <3>4. QED
      BY <2>4, <2>9, <3>1, <3>2, <3>3
  <2>10. ASSUME Advance, ~Ended PROVE MainRest' \in Nat /\ MainRest' < MainRest
    <3>1. CASE pc = Len(Script)
      BY <2>8, <2>10, <3>1 DEF Advance, Ended
    <3>2. CASE pc # Len(Script)
      <4>1. at' = "step" /\ pc' = pc + 1 /\ ~Ended'
        BY <2>10, <3>2 DEF Advance, Ended
      <4>2. Stage' = prog.wait + 3
        BY <2>3, <4>1 DEF Stage
      <4>3. n \in Nat \ {0} /\ Len(Script') - pc' = n - 1
        BY <2>1, <2>3, <3>2, <4>1
      <4>4. MainRest' = (prog.wait + 3) + (n - 1) * StepCost
        BY <2>3, <4>1, <4>2, <4>3 DEF MainRest
      <4>5. prog.wait + 3 \in Nat /\ prog.wait + 3 < Stage + StepCost
        BY <2>1, <2>4
      <4> HIDE DEF n
      <4>6. QED
        <5>1. prog.wait + 3 \in Nat /\ StepCost \in Nat /\ Stage \in Nat
          BY <2>1, <2>4
        <5>2. MainRest = Stage + n * StepCost
          BY <2>6, <2>10
        <5>3. QED
          BY <4>3, <4>4, <4>5, <5>1, <5>2, StepLess
    <3>3. QED
      BY <3>1, <3>2
  <2>11. CASE \/ \E c \in open : Answer(c)
              \/ \E t \in answering.left : Store(t)
              \/ Arrive
    BY <2>6, <2>7, <2>11 DEF Answer, Store, Arrive
  <2>12. CASE Skip \/ Register
    BY <2>10, <2>12 DEF Skip, Register, Calls, Ended
  <2>13. CASE GiveUp \/ Crash
    BY <2>8, <2>13 DEF GiveUp, Crash, Ended
  <2>14. CASE Issue
    <3>1. at = "step" /\ at' \in {"read", "wait"} /\ pc' = pc /\ polled' = polled
      BY <2>14 DEF Issue, Calls
    <3>2. Stage = w + 3 /\ Stage' \in {2, (w - p) + 2}
      BY <2>w, <2>3, <3>1 DEF Stage
    <3>3. Stage' \in Nat /\ Stage' < Stage
      BY <2>w, <3>2
    <3>4. QED
      BY <2>9, <3>1, <3>3 DEF Ended
  <2>15. CASE Poll
    <3>1. at = "wait" /\ at' = at /\ pc' = pc /\ polled' = polled + 1 /\ polled < prog.wait
      BY <2>15 DEF Poll, MayPoll
    <3>2. Stage = (w - p) + 2 /\ Stage' = (w - (p + 1)) + 2 /\ p < w
      BY <2>w, <2>3, <3>1 DEF Stage
    <3>3. Stage' \in Nat /\ Stage' < Stage
      BY <2>w, <3>2
    <3>4. QED
      BY <2>9, <3>1, <3>3 DEF Ended
  <2>16. CASE ReadRet
    <3>1. at \in {"read", "wait"} /\ at' = "print" /\ pc' = pc
      BY <2>16 DEF ReadRet
    <3>2. Stage \in {2, (w - p) + 2} /\ Stage' = 1
      BY <2>w, <3>1 DEF Stage
    <3>3. Stage' \in Nat /\ Stage' < Stage
      BY <2>w, <3>2
    <3>4. QED
      BY <2>9, <3>1, <3>3 DEF Ended
  <2>17. CASE ReadBuf
    BY <2>8, <2>10, <2>17 DEF ReadBuf, Ended
  <2>18. QED
    BY <2>11, <2>12, <2>13, <2>14, <2>15, <2>16, <2>17 DEF Next, MainStep
<1>3. QED
  BY <1>1, <1>2, TypedAlways, StoringAlways, PTL DEF Spec, MainRunsOut

-----------------------------------------------------------------------------
(* The nine scripts.                                                       *)

StepRecord == [kind : Kinds, sym : Names, guard : Guards]

\* Doing steps over and over gives steps.
LEMMA RepeatIs ==
  ASSUME NEW s \in Seq(StepRecord), s # <<>>, NEW n \in Nat
  PROVE  Repeat(n, s) \in Seq(StepRecord)
<1> DEFINE N == n * Len(s)
<1>1. Len(s) \in Nat \ {0} /\ N \in Nat /\ DOMAIN s = 1 .. Len(s)
  OBVIOUS
<1>2. \A i \in 1 .. N : ((i - 1) % Len(s)) + 1 \in DOMAIN s
  BY <1>1
<1>3. /\ Repeat(n, s) = [i \in 1 .. N |-> s[((i - 1) % Len(s)) + 1]]
      /\ \A i \in 1 .. N : s[((i - 1) % Len(s)) + 1] \in StepRecord
  BY <1>1, <1>2 DEF Repeat
<1> HIDE DEF N
<1>4. QED
  BY <1>1, <1>3

\* A few steps that are certain to come, and others after them, are a script's.
LEMMA ScriptParts ==
  ASSUME NEW s \in Seq(StepRecord), s # <<>>, NEW t \in Seq(StepRecord)
  PROVE  s \o t \in Seq(StepRecord) /\ s \o t # <<>>
OBVIOUS

\* The nine scripts are what the theorems about any script assume of one, however often
\* their loops go round: DiagAssumption holds with AllDiags for Programs.
THEOREM DiagsArePrograms == \A p \in AllDiags : IsProgram(p)
<1> USE DiagsAssumption
<1>1. \A guard \in Guards :
        /\ On("create", "create", guard) \in StepRecord
        /\ On("register", "setcb", guard) \in StepRecord
        /\ On("call", "start", guard) \in StepRecord /\ On("call", "getids", guard) \in StepRecord
        /\ On("call", "getinfo", guard) \in StepRecord /\ On("call", "sub", guard) \in StepRecord
        /\ On("call", "nconn", guard) \in StepRecord /\ On("call", "nmesh", guard) \in StepRecord
        /\ On("call", "byproto", guard) \in StepRecord /\ On("call", "info", guard) \in StepRecord
        /\ On("call", "send", guard) \in StepRecord
        /\ On("scan", "sq", guard) \in StepRecord /\ On("query", "sq", guard) \in StepRecord
  <2>1. \A kind \in Kinds, sym \in Names, guard \in Guards : On(kind, sym, guard) \in StepRecord
    BY DEF On, StepRecord
  <2>2. /\ "create" \in Kinds /\ "register" \in Kinds /\ "call" \in Kinds
        /\ "scan" \in Kinds /\ "query" \in Kinds
    BY DEF Kinds
  <2>3. /\ "create" \in Names /\ "setcb" \in Names /\ "start" \in Names /\ "sub" \in Names
        /\ "send" \in Names /\ "getids" \in Names /\ "getinfo" \in Names /\ "info" \in Names
        /\ "nconn" \in Names /\ "nmesh" \in Names /\ "byproto" \in Names /\ "sq" \in Names
    BY DEF Names
  <2>4. QED
    BY <2>1, <2>2, <2>3
<1>2. "checks" \in Guards /\ "skips" \in Guards /\ "trusts" \in Guards
  BY DEF Guards
<1>3. /\ \A a \in StepRecord : <<a>> \in Seq(StepRecord) /\ <<a>> # <<>>
      /\ \A a, b \in StepRecord : <<a, b>> \in Seq(StepRecord) /\ <<a, b>> # <<>>
      /\ \A a, b, c \in StepRecord : <<a, b, c>> \in Seq(StepRecord) /\ <<a, b, c>> # <<>>
      /\ \A a, b, c, d \in StepRecord : <<a, b, c, d>> \in Seq(StepRecord) /\ <<a, b, c, d>> # <<>>
  OBVIOUS
<1>4. \A n \in Nat, a, b, c \in StepRecord :
        Repeat(n, <<a>>) \in Seq(StepRecord) /\ Repeat(n, <<a, b, c>>) \in Seq(StepRecord)
  BY <1>3, RepeatIs
<1>5. Started \in Seq(StepRecord) /\ Started # <<>>
  BY <1>1, <1>2, <1>3 DEF Started
<1>6. ConnDiag.steps \in Seq(StepRecord) /\ ConnDiag.steps # <<>>
  BY <1>1, <1>2, <1>3, <1>4, ScriptParts DEF ConnDiag
<1>7. MeshDiag.steps \in Seq(StepRecord) /\ MeshDiag.steps # <<>>
  BY <1>1, <1>2, <1>3, <1>4, ScriptParts DEF MeshDiag
<1>8. EdgeDiag.steps \in Seq(StepRecord) /\ EdgeDiag.steps # <<>>
  BY <1>1, <1>2, <1>3, <1>4, <1>5, ScriptParts DEF EdgeDiag
<1>9. MetricsDiag.steps \in Seq(StepRecord) /\ MetricsDiag.steps # <<>>
  BY <1>1, <1>2, <1>3, <1>5, ScriptParts DEF MetricsDiag
<1>10. RecvDiag.steps \in Seq(StepRecord) /\ RecvDiag.steps # <<>>
  BY <1>1, <1>2, <1>3 DEF RecvDiag
<1>11. SendDiag.steps \in Seq(StepRecord) /\ SendDiag.steps # <<>>
  BY <1>1, <1>2, <1>3, <1>4, <1>5, ScriptParts DEF SendDiag
<1>12. StoreIdDiag.steps \in Seq(StepRecord) /\ StoreIdDiag.steps # <<>>
  BY <1>1, <1>2, <1>3, <1>4, <1>5, ScriptParts DEF StoreIdDiag
<1>13. CtOnlyDiag.steps \in Seq(StepRecord) /\ CtOnlyDiag.steps # <<>>
  BY <1>1, <1>2, <1>3, <1>4, <1>5, ScriptParts DEF CtOnlyDiag
<1>14. TimeWindowDiag.steps \in Seq(StepRecord) /\ TimeWindowDiag.steps # <<>>
  BY <1>1, <1>2, <1>3, <1>4, <1>5, ScriptParts DEF TimeWindowDiag
<1>15. \A p \in AllDiags : p.wait \in Nat /\ p.timeout \in Nat
  BY DEF AllDiags, ConnDiag, MeshDiag, EdgeDiag, MetricsDiag, RecvDiag, SendDiag, StoreIdDiag,
         CtOnlyDiag, TimeWindowDiag
<1>16. \A p \in AllDiags : p.steps \in Seq(StepRecord) /\ p.steps # <<>>
  BY <1>6, <1>7, <1>8, <1>9, <1>10, <1>11, <1>12, <1>13, <1>14 DEF AllDiags
<1>17. QED
  BY <1>15, <1>16 DEF IsProgram, StepRecord
=============================================================================
