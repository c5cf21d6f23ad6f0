------------------------------- MODULE Hosts --------------------------------
(***************************************************************************)
(* The programs that use liblogoschat.so, over several runs of the         *)
(* process, each of which may end anywhere: the desktop peer, or the smoke *)
(* driver.  Both keep the contract of liblogoschat.h.                      *)
(***************************************************************************)
EXTENDS Peer, Smoke

CONSTANT MaxRuns  \* bound on the runs of the process

ASSUME HostsAssumption == MaxRuns \in Nat

VARIABLES
  host,  \* which program this machine runs
  runs   \* how often it was started

vars == <<wrapper, peer, smoke, host, runs>>

PeerOff  == at = "off" /\ missing = {} /\ line = NoLine /\ reply = NoReply /\ held = 0 /\ unseen = {} /\ events = 0
SmokeOff == mode = "none" /\ given = FALSE /\ step = "off" /\ got = 0 /\ run = 0 /\ first = NoSeed /\ verdict = "none"

Init ==
  /\ runs = 0
  /\ \/ host = "peer" /\ PeerInit /\ SmokeOff
     \/ host = "smoke" /\ SmokeInit /\ PeerOff

\* The operating system ends the process.
Crash ==
  \/ at \notin {"down", "off"} /\ PeerEnds /\ UNCHANGED smoke
  \/ step \notin {"down", "off"} /\ SmokeEnds /\ UNCHANGED peer

Started == (at = "down" /\ at' # at) \/ (step = "down" /\ step' # step)

Next ==
  /\ \/ host = "peer" /\ PeerNext /\ UNCHANGED smoke
     \/ host = "smoke" /\ SmokeNext /\ UNCHANGED peer
     \/ Crash
  /\ runs' = IF Started THEN runs + 1 ELSE runs
  /\ runs' <= MaxRuns
  /\ UNCHANGED host

Spec == Init /\ [][Next]_vars /\ WF_vars(MainThread /\ UNCHANGED <<smoke, host, runs>>)

-----------------------------------------------------------------------------
\* Type correctness; the identities in hand, on disk and known are ones that were
\* generated, and only a process that runs holds anything.
TypeOK ==
  /\ host \in {"peer", "smoke"} /\ runs \in 0 .. MaxRuns
  /\ handle \in {"none", "open", "shut"} /\ strings \in 0 .. 2 /\ pump \in BOOLEAN
  /\ calls \in Nat /\ error \in 0 .. calls
  /\ opening \in {"no", "load", "write", "client", "ephemeral"}
  /\ seed \in 0 .. minted /\ address \in 0 .. minted /\ known \subseteq 1 .. minted
  /\ sound \in BOOLEAN /\ file \in {Foreign, Partial, Absent} \cup 1 .. minted
  /\ missing \subseteq Optional /\ unseen \subseteq {"usage", "answer"} /\ events \in 0 .. MaxEvents
  /\ held \in 0 .. 2 /\ got \in 0 .. 2 /\ run \in 0 .. 2 /\ first \in 0 .. minted
  /\ verdict \in {"none", "PASS", "FAIL"}
  /\ (handle = "open") = (address # NoSeed)

\* The programs keep to the header, and the wrapper does what it says.
Abi == INSTANCE ChatAbi
ImplementsAbi == Abi!Spec

\* The address is stable across restarts (liblogoschat.h), wherever a run was cut off
\* and whatever read or write of the identity file failed.
AddressStable == Cardinality(known) <= 1

\* It is, wherever a run was cut off and whatever write failed, if the file that is
\* there can be read.
AddressKept == sound => AddressStable
=============================================================================
