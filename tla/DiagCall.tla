------------------------------ MODULE DiagCall ------------------------------
(***************************************************************************)
(* The call protocol all the diagnostic clients of src/scripts share.      *)
(* main runs a straight-line script of calls into liblogosdelivery.so.     *)
(* Each call hands the library one callback, cb, which runs on a thread of *)
(* the library and leaves the answer in three globals; main resets the     *)
(* flag, calls, polls the flag for a bounded time (wait_cb) and prints     *)
(* what the globals then hold.  A wait that gives up abandons its call,    *)
(* whose callback may still run during any later one.                      *)
(*                                                                         *)
(* The library is external: it answers a call once, at any time or never,  *)
(* one callback at a time, and a store query within the timeoutMs it was   *)
(* given.  The globals are shared without synchronisation (volatile orders *)
(* nothing but itself), so whether main sees cb's stores in their order is *)
(* up to the build and the machine: inOrder.  Time is counted only while   *)
(* main polls, in ticks: of 5 s where store queries are made, else of      *)
(* 10 s.  A sleep changes nothing else.                                    *)
(***************************************************************************)
EXTENDS Naturals, Sequences, FiniteSets

CONSTANTS
  Programs,   \* the scripts
  MaxMissing  \* bound on the symbols dlsym does not find

\* A step of a script.  "guard" says what happens when the symbol is missing: main
\* "checks" it before anything else, "skips" the step, or "trusts" and calls it.
Kinds  == {"create", "register", "call", "scan", "query"}
Guards == {"checks", "skips", "trusts"}

\* The functions of liblogosdelivery.so the clients look up, by the names they give them.
Names == {"create", "setcb", "start", "sub", "send", "getids", "getinfo", "info", "nconn",
          "nmesh", "byproto", "sq"}

\* A script: the polls of wait_cb and the timeoutMs of a store query, in ticks.
IsProgram(p) ==
  /\ p.wait \in Nat /\ p.timeout \in Nat
  /\ p.steps \in Seq([kind : Kinds, sym : Names, guard : Guards])
  /\ p.steps # <<>>

ASSUME DiagAssumption ==
  /\ \A p \in Programs : IsProgram(p)
  /\ MaxMissing \in Nat

VARIABLES
  prog, missing, inOrder,  \* chosen once
  pc,         \* the step main is at
  at,         \* what main is doing there
  polled,     \* ticks wait_cb has polled in this step
  open,       \* calls made and not yet answered
  late,       \* the first call main gave up, going on without its answer
  answering,  \* the callback in progress: its call, and its stores still to be seen
  g_ret, g_buf, g_done,
  out,        \* what main has read of this step's answer: whose it is
  found,      \* the call whose answer the scan picked a topic from
  evcb,       \* whether the event callback is registered
  unheard     \* whether a message came before it was

fixed   == <<prog, missing, inOrder>>
main    == <<pc, at, polled, late, out, found>>
library == <<open, answering>>
globals == <<g_ret, g_buf, g_done>>
events  == <<evcb, unheard>>
vars    == <<fixed, main, library, globals, events>>

Script    == prog.steps
Step      == Script[pc]
Symbols(p) == {p.steps[i].sym : i \in DOMAIN p.steps}
IsQuery(c) == Script[c].kind \in {"scan", "query"}

\* The stores of cb, in program order: the buffer is filled while it may be read.
Stores == <<"ret", "filling", "filled", "done">>
NoCall == 0    \* the globals as they are initialised; no callback in progress
Idle   == [call |-> NoCall, left |-> {}]
Reading(c) == [call |-> c, ret |-> NoCall, buf |-> NoCall, whole |-> TRUE]

Ended == at \in {"exit", "crashed"}

Init ==
  /\ prog \in Programs /\ inOrder \in BOOLEAN
  /\ missing \in {M \in SUBSET Symbols(prog) : Cardinality(M) <= MaxMissing}
  /\ pc = 1 /\ polled = 0 /\ late = NoCall /\ out = Reading(NoCall) /\ found = NoCall
  /\ at = IF \E i \in DOMAIN Script : Script[i].guard = "checks" /\ Script[i].sym \in missing
          THEN "exit" ELSE "step"
  /\ open = {} /\ answering = Idle
  /\ g_ret = NoCall /\ g_buf = [of |-> NoCall, whole |-> TRUE] /\ g_done = FALSE
  /\ evcb = FALSE /\ unheard = FALSE

-----------------------------------------------------------------------------
(* The library.                                                            *)

\* cb begins for the call c.
Answer(c) ==
  /\ c \in open /\ answering = Idle /\ ~Ended
  /\ open' = open \ {c}
  /\ answering' = [call |-> c, left |-> {Stores[i] : i \in DOMAIN Stores}]
  /\ UNCHANGED <<fixed, main, globals, events>>

\* The next store of cb main sees: they come in order, but nothing keeps the flag
\* behind the others.
Seen(s) ==
  \/ ~inOrder /\ s = "done"
  \/ \A i, j \in DOMAIN Stores : Stores[j] = s /\ Stores[i] \in answering.left => j <= i

Store(s) ==
  /\ s \in answering.left /\ Seen(s) /\ ~Ended
  /\ LET c == answering.call  rest == answering.left \ {s} IN
     /\ answering' = IF rest = {} THEN Idle ELSE [call |-> c, left |-> rest]
     /\ g_ret' = IF s = "ret" THEN c ELSE g_ret
     /\ g_buf' = CASE s = "filling" -> [of |-> c, whole |-> FALSE]
                   [] s = "filled"  -> [of |-> c, whole |-> TRUE]
                   [] OTHER         -> g_buf
     /\ g_done' = (g_done \/ s = "done")
  /\ UNCHANGED <<fixed, main, open, events>>

\* A message reaches the node, at any time after it was asked to start.
Arrive ==
  /\ "register" \in {Script[i].kind : i \in DOMAIN Script}
  /\ \E i \in 1 .. pc : Script[i].sym = "start" /\ (i < pc \/ at # "step")
  /\ ~Ended
  /\ unheard' = (unheard \/ ~evcb)
  /\ UNCHANGED <<fixed, main, library, globals, evcb>>

-----------------------------------------------------------------------------
(* main.                                                                   *)

\* Go on to the next step, or return from main.
Advance ==
  /\ at' = IF pc = Len(Script) THEN "exit" ELSE "step"
  /\ pc' = IF pc = Len(Script) THEN pc ELSE pc + 1
  /\ polled' = 0

\* A scan is skipped once a topic has been found; without one the queries that need
\* it are not made.
Skipped ==
  \/ Step.sym \in missing /\ Step.guard = "skips"
  \/ Step.kind = "scan" /\ found # NoCall
NoTopic == /\ Step.kind = "query" /\ found = NoCall
           /\ \E i \in DOMAIN Script : Script[i].kind = "scan"

Skip ==
  /\ at = "step" /\ Skipped
  /\ Advance
  /\ UNCHANGED <<fixed, late, out, found, library, globals, events>>

GiveUp ==
  /\ at = "step" /\ NoTopic
  /\ at' = "exit"
  /\ UNCHANGED <<fixed, pc, polled, late, out, found, library, globals, events>>

\* A call through a symbol that was not found.
Crash ==
  /\ at = "step" /\ ~Skipped /\ ~NoTopic /\ Step.sym \in missing
  /\ at' = "crashed"
  /\ UNCHANGED <<fixed, pc, polled, late, out, found, library, globals, events>>

Calls == at = "step" /\ ~Skipped /\ ~NoTopic /\ Step.sym \notin missing

\* set_event_callback takes the event callback itself and is not waited for.
Register ==
  /\ Calls /\ Step.kind = "register"
  /\ evcb' = TRUE
  /\ Advance
  /\ UNCHANGED <<fixed, late, out, found, library, globals, unheard>>

\* Mutant of Issue: the flag keeps the value the previous call left.
IssueNoReset ==
  /\ Calls /\ Step.kind # "register"
  /\ open' = open \cup {pc} /\ out' = Reading(pc)
  /\ at' = IF Step.kind = "create" THEN "read" ELSE "wait"
  /\ UNCHANGED <<fixed, pc, polled, late, found, answering, globals, events>>

\* g_done = 0 and the call.  create_node returns the context and is not waited for.
Issue ==
  /\ Calls /\ Step.kind # "register"
  /\ g_done' = FALSE /\ open' = open \cup {pc} /\ out' = Reading(pc)
  /\ at' = IF Step.kind = "create" THEN "read" ELSE "wait"
  /\ UNCHANGED <<fixed, pc, polled, late, found, answering, g_ret, g_buf, events>>

\* The call of this step has been answered, to the end.
Answered == pc \notin open /\ answering.call # pc

\* main goes on without it: create is not waited for, and wait_cb has its limit.
GivenUp == ~Answered /\ (at = "read" \/ ~g_done)

\* Mutants of MayPoll: wait_cb polls until the flag is raised; it stops a tick early.
MayPollForEver == ~g_done

MayPollShort == ~g_done /\ polled + 1 < prog.wait

MayPoll == ~g_done /\ polled < prog.wait

\* wait_cb polls on; the library keeps its timeout.
Poll ==
  /\ at = "wait" /\ MayPoll
  /\ IsQuery(pc) /\ ~Answered => polled < prog.timeout
  /\ polled' = polled + 1
  /\ UNCHANGED <<fixed, pc, at, late, out, found, library, globals, events>>

\* Mutant of ReadRet: wait_cb waits for the flag, whatever the time.
ReadRetAnswered ==
  /\ at = "read" \/ (at = "wait" /\ g_done)
  /\ at' = "print"
  /\ late' = IF late = NoCall /\ GivenUp THEN pc ELSE late
  /\ out' = [out EXCEPT !.ret = g_ret]
  /\ UNCHANGED <<fixed, pc, polled, found, library, globals, events>>

\* wait_cb ends and returns g_ret; create has no wait_cb, and g_ret is read at once.
ReadRet ==
  /\ at = "read" \/ (at = "wait" /\ ~MayPoll)
  /\ at' = "print"
  /\ late' = IF late = NoCall /\ GivenUp THEN pc ELSE late
  /\ out' = [out EXCEPT !.ret = g_ret]
  /\ UNCHANGED <<fixed, pc, polled, found, library, globals, events>>

\* The buffer is printed or parsed, in whatever state it is.
ReadBuf ==
  /\ at = "print"
  /\ out' = [out EXCEPT !.buf = g_buf.of, !.whole = g_buf.whole]
  /\ \/ found' = IF Step.kind = "scan" THEN g_buf.of ELSE found
     \/ UNCHANGED found
  /\ \/ Advance
     \/ /\ Step.kind = "create"          \* no context
        /\ at' = "exit" /\ UNCHANGED <<pc, polled>>
  /\ UNCHANGED <<fixed, late, library, globals, events>>

MainStep == Skip \/ GiveUp \/ Crash \/ Register \/ Issue \/ Poll \/ ReadRet \/ ReadBuf

Next ==
  \/ MainStep
  \/ \E c \in open : Answer(c)
  \/ \E s \in answering.left : Store(s)
  \/ Arrive

\* main runs; the library keeps the timeout of a store query.
Fairness ==
  /\ WF_vars(MainStep)
  /\ \A s \in {"ret", "filling", "filled", "done"} : WF_vars(Store(s))
  /\ WF_vars(IsQuery(pc) /\ Answer(pc))

Spec == Init /\ [][Next]_vars /\ Fairness

-----------------------------------------------------------------------------
\* Type correctness: a wait never polls longer than its script says, and only calls
\* main has been at are open, being answered or abandoned.
TypeOK ==
  /\ prog \in Programs /\ missing \subseteq Symbols(prog) /\ inOrder \in BOOLEAN
  /\ pc \in DOMAIN Script /\ polled \in 0 .. prog.wait
  /\ at \in {"step", "wait", "read", "print", "exit", "crashed"}
  /\ open \subseteq 1 .. pc /\ late \in 0 .. pc /\ answering.call \in 0 .. pc
  /\ answering.call \notin open
  /\ answering.left \subseteq {Stores[i] : i \in DOMAIN Stores}
  /\ g_ret \in 0 .. pc /\ g_buf \in [of : 0 .. pc, whole : BOOLEAN] /\ g_done \in BOOLEAN
  /\ out \in [call : 0 .. pc, ret : 0 .. pc, buf : 0 .. pc, whole : BOOLEAN]
  /\ found \in 0 .. pc /\ evcb \in BOOLEAN /\ unheard \in BOOLEAN

\* What a client prints for a call is that call's own answer, and all of it, as long
\* as it has given up no call: the shared globals hand no answer to the wrong call.
\* (After one time-out they may, for the rest of the run.)
OwnUnlessAbandoned ==
  at \notin {"wait", "read", "print"} /\ inOrder /\ late = NoCall
    => out.ret = out.call /\ out.buf = out.call /\ out.whole

\* Where wait_cb polls longer than the timeout a store query is given, a query is
\* never the first call to be abandoned.
QueriesOutlasted ==
  prog.timeout < prog.wait => late = NoCall \/ ~IsQuery(late)

\* recv_diag registers its event callback "BEFORE start so no loss window": when the
\* symbol is there, no message comes before the callback.
NothingUnheard == unheard => \E i \in DOMAIN Script : Script[i].kind = "register" /\ Script[i].sym \in missing

\* Every client comes to an end, even if the library never answers.
Ends == <>Ended
=============================================================================
