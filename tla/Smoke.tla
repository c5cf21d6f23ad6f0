------------------------------- MODULE Smoke --------------------------------
(***************************************************************************)
(* The on-device smoke driver (scripts/smoke.c): it mints two addresses    *)
(* without a network, then, by its first argument, opens a client once or  *)
(* opens a persistent identity twice and compares the addresses.  Its      *)
(* second argument names the library and, in "persist" mode, the identity  *)
(* file as well.                                                           *)
(***************************************************************************)
EXTENDS Wrapper

VARIABLES
  mode,     \* the first argument
  given,    \* whether there is a second
  step,     \* where main is
  got,      \* strings main holds
  run,      \* persistent opens begun
  first,    \* the address of the first
  verdict   \* of the comparison

smoke == <<mode, given, step, got, run, first, verdict>>

\* With a second argument the identity file is the library, which is no identity.
SmokeInit ==
  /\ Fresh /\ sound \in BOOLEAN /\ minted = 0 /\ known = {}
  /\ mode \in {"none", "open", "persist"} /\ given \in BOOLEAN
  /\ file = IF given THEN Foreign ELSE Absent
  /\ step = "down" /\ got = 0 /\ run = 0 /\ first = NoSeed /\ verdict = "none"

SmokeEnds ==
  /\ EndProcess
  /\ step' = "down" /\ got' = 0 /\ run' = 0 /\ first' = NoSeed /\ verdict' = "none"
  /\ UNCHANGED <<mode, given>>

\* dlopen fails once the library has been overwritten.
SmokeStarts ==
  /\ step = "down" /\ (given => file = Foreign)
  /\ step' = "mint"
  /\ UNCHANGED <<wrapper, mode, given, got, run, first, verdict>>

Mint ==
  /\ step = "mint" /\ got < 2
  /\ GenAddress /\ got' = got + 1
  /\ UNCHANGED <<mode, given, step, run, first, verdict>>

Minted ==
  /\ step = "mint" /\ got = 2
  /\ FreeStrings(got) /\ got' = 0
  /\ step' = CASE mode = "none" -> "end" [] mode = "open" -> "open" [] mode = "persist" -> "next"
  /\ UNCHANGED <<mode, given, run, first, verdict>>

OpenOnce ==
  /\ step = "open"
  /\ CallOpen
  /\ step' = "opening"
  /\ UNCHANGED <<mode, given, got, run, first, verdict>>

NextRun ==
  /\ step = "next"
  /\ IF run < 2
     THEN run' = run + 1 /\ step' = "opening" /\ CallOpenPersistent
     ELSE step' = "end" /\ UNCHANGED <<wrapper, run>>
  /\ UNCHANGED <<mode, given, got, first, verdict>>

InOpen ==
  /\ step = "opening" /\ OpenStep
  /\ UNCHANGED smoke

OpenedNothing ==
  /\ step = "opening" /\ opening = "no" /\ handle # "open"
  /\ step' = "end"
  /\ UNCHANGED <<wrapper, mode, given, got, run, first, verdict>>

GetAddress ==
  /\ step = "opening" /\ opening = "no" /\ handle = "open"
  /\ Gives /\ got' = 1
  /\ step' = "compare"
  /\ UNCHANGED <<mode, given, run, first, verdict>>

Compare ==
  /\ step = "compare"
  /\ first' = IF run = 1 THEN address ELSE first
  /\ verdict' = IF run = 2 THEN (IF first = address THEN "PASS" ELSE "FAIL") ELSE verdict
  /\ FreeStrings(got) /\ got' = 0
  /\ step' = "shutdown"
  /\ UNCHANGED <<mode, given, run>>

ShutDown ==
  /\ step = "shutdown"
  /\ Shutdown
  /\ step' = IF mode = "persist" THEN "next" ELSE "end"
  /\ UNCHANGED <<mode, given, got, run, first, verdict>>

SmokeReturns == step = "end" /\ SmokeEnds

SmokeMain ==
  \/ Mint \/ Minted \/ OpenOnce \/ NextRun \/ InOpen \/ OpenedNothing
  \/ GetAddress \/ Compare \/ ShutDown \/ SmokeReturns

SmokeNext == SmokeStarts \/ SmokeMain

-----------------------------------------------------------------------------
\* "PERSIST PASS" is the truth, whatever reads and writes failed before: the file holds
\* the address both clients had, so the next start will have it too.
PassIsTrue == verdict = "PASS" => first \in known /\ file = first
=============================================================================
