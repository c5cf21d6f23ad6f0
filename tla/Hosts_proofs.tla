---------------------------- MODULE Hosts_proofs ----------------------------
(***************************************************************************)
(* Theorems about the wrapper and the two programs that use it, for any    *)
(* number of runs, calls and events: the identity file, the strings, the   *)
(* errors, and that the programs and the wrapper keep to the header.       *)
(***************************************************************************)
EXTENDS MCHosts, Base64_proofs, FiniteSetTheorems

-----------------------------------------------------------------------------
(* The wrapper, whoever calls it.                                          *)

\* Its variables are in range; a client is opened with the identity the file holds, and
\* a file that can always be read and has been used is never written again.
WrapOk ==
  /\ minted \in Nat /\ calls \in Nat /\ error \in 0 .. calls /\ pump \in BOOLEAN /\ sound \in BOOLEAN
  /\ handle \in {"none", "open", "shut"}
  /\ opening \in {"no", "load", "write", "client", "ephemeral"}
  /\ seed \in 0 .. minted /\ address \in 0 .. minted /\ known \subseteq 1 .. minted
  /\ file \in {Foreign, Partial, Absent} \cup 1 .. minted
  /\ (handle = "open") = (address # NoSeed)
  /\ opening # "no" => handle # "open"
  /\ opening = "client" => IsSeed(file) /\ seed = file
  /\ opening \in {"write", "ephemeral"} => seed > 0
  /\ sound /\ opening = "write" => known = {}
  /\ sound => known = {} \/ (IsSeed(file) /\ known = {file})

\* What a program may do with the wrapper.
Legal ==
  \/ EndProcess
  \/ handle = "open" /\ (Gives \/ Does \/ Shutdown)
  \/ handle = "open" /\ ~pump /\ SetEventCallback
  \/ Fails \/ GenAddress
  \/ \E n \in 0 .. strings : FreeStrings(n)
  \/ handle # "open" /\ (CallOpen \/ CallOpenPersistent)
  \/ OpenStep
  \/ UNCHANGED wrapper

\* Steps that leave the files, the identities and the opening alone.
LEMMA CallsKeepWrap ==
  ASSUME WrapOk,
         \/ EndProcess \/ Gives \/ Does \/ Shutdown \/ SetEventCallback \/ Fails \/ GenAddress
         \/ (\E n \in 0 .. strings : FreeStrings(n)) \/ UNCHANGED wrapper
  PROVE  WrapOk' /\ UNCHANGED onDisk
<1> USE DEF WrapOk, onDisk, IsSeed, NoSeed, Absent, Partial, Foreign
<1>1. CASE EndProcess
  <2>1. /\ handle' = "none" /\ pump' = FALSE /\ calls' = 0 /\ error' = 0 /\ opening' = "no"
        /\ seed' = 0 /\ address' = 0 /\ UNCHANGED onDisk
    BY <1>1 DEF EndProcess
  <2>2. pump' \in BOOLEAN
    BY <2>1, Zenon
  <2>3. QED
    BY <2>1, <2>2
<1>2. CASE Gives
  BY <1>2 DEF Gives
<1>3. CASE Does
  BY <1>3 DEF Does
<1>4. CASE Shutdown
  BY <1>4 DEF Shutdown
<1>5. CASE SetEventCallback
  BY <1>5 DEF SetEventCallback
<1>6. CASE Fails
  BY <1>6 DEF Fails
<1>7. CASE GenAddress
  BY <1>7 DEF GenAddress
<1>8. CASE \E n \in 0 .. strings : FreeStrings(n)
  BY <1>8 DEF FreeStrings
<1>9. CASE UNCHANGED wrapper
  BY <1>9 DEF wrapper, abi
<1>10. QED
  BY <1>1, <1>2, <1>3, <1>4, <1>5, <1>6, <1>7, <1>8, <1>9

\* Opening a client, by a program that has none open.
LEMMA OpensKeepWrap ==
  ASSUME WrapOk, \/ handle # "open" /\ (CallOpen \/ CallOpenPersistent)
                 \/ OpenStep
  PROVE  WrapOk' /\ minted' >= minted /\ known \subseteq known'
<1> USE DEF WrapOk, onDisk, abi, IsSeed, NoSeed, Absent, Partial, Foreign
<1>1. CASE handle # "open" /\ CallOpen
  BY <1>1 DEF CallOpen
<1>2. CASE handle # "open" /\ CallOpenPersistent
  BY <1>2 DEF CallOpenPersistent
<1>3. CASE LoadIdentity
  BY <1>3 DEF LoadIdentity
<1>4. CASE MintIdentity
  BY <1>4 DEF MintIdentity, OpenFails
<1>5. CASE WriteFails
  BY <1>5 DEF WriteFails, OpenFails
<1>6. CASE WriteIdentity
  BY <1>6 DEF WriteIdentity
<1>7. CASE OpenClient
  <2>1. pump' = FALSE
    BY <1>7, Zenon DEF OpenClient
  <2>2. pump' \in BOOLEAN
    BY <2>1, Zenon
  <2>3. /\ seed > 0 /\ handle' = "open" /\ address' = seed /\ calls' = calls + 1
        /\ opening' = "no" /\ seed' = 0 /\ UNCHANGED <<error, sound, file, minted>>
    BY <1>7 DEF OpenClient
  <2>4. CASE opening = "client"
    <3>1. known' = known \cup {seed} /\ seed = file /\ IsSeed(file)
      BY <1>7, <2>4 DEF OpenClient
    <3>2. known \subseteq known' /\ known' \subseteq 1 .. minted
      BY <2>3, <3>1
    <3>3. sound => known' = {file}
      BY <3>1
    <3>4. QED
      BY <2>2, <2>3, <3>1, <3>2, <3>3
  <2>5. CASE opening = "ephemeral"
    <3>1. known' = known
      BY <1>7, <2>5 DEF OpenClient
    <3>2. QED
      BY <2>2, <2>3, <3>1
  <2>6. QED
    BY <1>7, <2>4, <2>5 DEF OpenClient
<1>8. CASE ClientFails
  BY <1>8 DEF ClientFails, OpenFails
<1>9. QED
  BY <1>1, <1>2, <1>3, <1>4, <1>5, <1>6, <1>7, <1>8 DEF OpenStep

\* A legal use keeps the wrapper's invariant, takes back no identity and is a step of
\* the contract.
LEMMA LegalKeepsWrap ==
  ASSUME WrapOk, Legal
  PROVE  WrapOk' /\ minted' >= minted /\ known \subseteq known'
<1>1. CASE \/ EndProcess \/ Gives \/ Does \/ Shutdown \/ SetEventCallback \/ Fails \/ GenAddress
           \/ (\E n \in 0 .. strings : FreeStrings(n)) \/ UNCHANGED wrapper
  BY <1>1, CallsKeepWrap DEF onDisk, WrapOk
<1>2. CASE \/ handle # "open" /\ (CallOpen \/ CallOpenPersistent)
           \/ OpenStep
  BY <1>2, OpensKeepWrap
<1>3. QED
  BY <1>1, <1>2 DEF Legal

LEMMA LegalIsAbi ==
  ASSUME WrapOk, strings \in Nat, Legal
  PROVE  [Abi!Next]_(Abi!abi)
<1> USE DEF Abi!Next, Abi!abi, abi
<1>1. CASE EndProcess
  BY <1>1 DEF EndProcess, Abi!End
<1>2. CASE handle = "open" /\ Gives
  BY <1>2 DEF Gives, Abi!Gives
<1>3. CASE handle = "open" /\ Does
  BY <1>3 DEF Does, Abi!Does
<1>4. CASE handle = "open" /\ Shutdown
  BY <1>4 DEF Shutdown, Abi!Shutdown
<1>5. CASE handle = "open" /\ ~pump /\ SetEventCallback
  BY <1>5 DEF SetEventCallback, Abi!SetEventCallback
<1>6. CASE Fails
  BY <1>6 DEF Fails, Abi!Fails
<1>7. CASE GenAddress
  BY <1>7 DEF GenAddress, Abi!GenAddress
<1>8. CASE \E n \in 0 .. strings : FreeStrings(n)
  <2>1. PICK n \in 0 .. strings : FreeStrings(n)
    BY <1>8
  <2>2. strings' \in 0 .. strings
    BY <2>1 DEF FreeStrings
  <2>3. QED
    BY <2>1, <2>2 DEF FreeStrings, Abi!FreeString
<1>9. CASE CallOpen \/ CallOpenPersistent
  BY <1>9 DEF CallOpen, CallOpenPersistent
<1>10. CASE OpenStep
  <2>1. OpenFails => Abi!Fails
    BY DEF OpenFails, Abi!Fails
  <2>2. CASE OpenClient
    BY <2>2 DEF OpenClient, WrapOk, Abi!Open
  <2>3. QED
    BY <2>1, <2>2, <1>10
    DEF OpenStep, LoadIdentity, MintIdentity, WriteFails, WriteIdentity, ClientFails
<1>11. CASE UNCHANGED wrapper
  BY <1>11 DEF wrapper
<1>12. QED
  BY <1>1, <1>2, <1>3, <1>4, <1>5, <1>6, <1>7, <1>8, <1>9, <1>10, <1>11 DEF Legal

-----------------------------------------------------------------------------
(* The peer.                                                               *)

\* What it holds is what it owns; it has a client from the announcement to the quit; an
\* answer is pending only at "reply".
PeerOk ==
  /\ at \in {"down", "opening", "announce", "fgets", "command", "reply", "quit", "bye"}
  /\ missing \subseteq Optional /\ unseen \subseteq {"usage", "answer"} /\ events \in 0 .. MaxEvents
  /\ held \in 0 .. 2 /\ strings = held
  /\ at \notin {"announce", "reply"} => held = 0
  /\ at = "down" => handle = "none" /\ pump = FALSE
  /\ at = "opening" => pump = FALSE
  /\ at \in {"announce", "fgets", "command", "reply", "quit"} => handle = "open"
  /\ at # "opening" => opening = "no"
  /\ at # "reply" => reply = NoReply
  /\ ErrorIsOwn

\* Every operation of the wrapper that is no part of opening a client keeps the opening.
LEMMA OpensAre ==
  ASSUME WrapOk, OpenStep
  PROVE  /\ opening # "no" /\ UNCHANGED strings
         /\ UNCHANGED <<handle, pump>> \/ (handle' = "open" /\ pump' = FALSE)
<1>1. OpenFails => UNCHANGED <<strings, handle, pump>>
  BY DEF OpenFails
<1>2. OpenClient => handle' = "open" /\ pump' = FALSE /\ UNCHANGED strings /\ opening # "no"
  BY DEF OpenClient
<1>3. QED
  BY <1>1, <1>2
  DEF OpenStep, LoadIdentity, MintIdentity, WriteFails, WriteIdentity, ClientFails, abi

LEMMA PeerEndsWell ==
  ASSUME PeerOk, PeerEnds
  PROVE  PeerOk' /\ Legal
<1>1. pump' = FALSE /\ reply' = NoReply
  BY Zenon DEF PeerEnds, EndProcess
<1>2. EndProcess
  BY DEF PeerEnds
<1>3. ErrorIsOwn'
  BY <1>1 DEF PeerEnds, ErrorIsOwn, NoReply
<1>4. QED
  BY <1>1, <1>2, <1>3, PeerAssumption DEF PeerEnds, EndProcess, PeerOk, Legal

\* Each step of the peer is a legal use of the wrapper and keeps PeerOk.
LEMMA PeerSteps ==
  ASSUME PeerOk, WrapOk, PeerNext
  PROVE  PeerOk' /\ Legal
<1> USE DEF PeerOk
<1>1. CASE Start
  BY <1>1 DEF Start, CallOpenPersistent, abi, Legal, ErrorIsOwn
<1>2. CASE Opening
  <2>1. OpenStep /\ at = "opening" /\ UNCHANGED peer
    BY <1>2 DEF Opening
  <2>2. pump' = FALSE /\ UNCHANGED strings
    <3>1. pump = FALSE
      BY <2>1
    <3>2. QED
      BY <2>1, <3>1, OpensAre, Zenon
  <2>3. QED
    BY <2>1, <2>2 DEF peer, Legal, ErrorIsOwn
<1>3. CASE OpenedNull \/ Bye
  BY <1>3, PeerEndsWell DEF OpenedNull, Bye
<1>4. CASE Opened
  BY <1>4 DEF Opened, SetEventCallback, Legal, ErrorIsOwn
<1>5. CASE Announce
  BY <1>5 DEF Announce, Gives, Legal, ErrorIsOwn
<1>6. CASE Ready
  BY <1>6 DEF Ready, FreeStrings, Legal, ErrorIsOwn
<1>7. ASSUME NEW l \in Lines, ReadLine(l) PROVE PeerOk' /\ Legal
  <2>1. at' \in {"fgets", "quit", "command"}
    BY <1>7, Zenon DEF ReadLine
  <2>2. QED
    BY <1>7, <2>1 DEF ReadLine, wrapper, abi, Legal, ErrorIsOwn
<1>8. CASE ReadEof
  BY <1>8 DEF ReadEof, wrapper, abi, Legal, ErrorIsOwn
<1>9. CASE Misuse
  BY <1>9 DEF Misuse, wrapper, abi, Legal, ErrorIsOwn
<1>10. CASE Unknown
  BY <1>10 DEF Unknown, wrapper, abi, Legal, ErrorIsOwn, NoReply
<1>11. CASE Missing
  BY <1>11 DEF Missing, wrapper, abi, Legal, ErrorIsOwn
<1>12. CASE Call
  <2>1. CASE Gives /\ reply' = Returned("string") /\ held' = held + 1
    BY <1>12, <2>1 DEF Call, Gives, Returned, Legal, ErrorIsOwn
  <2>2. CASE Does /\ reply' = [is |-> "0", bytes |-> Decoded[line.text]] /\ UNCHANGED held
    BY <1>12, <2>2 DEF Call, Does, Legal, ErrorIsOwn
  <2>3. CASE Fails /\ UNCHANGED held
    BY <1>12, <2>3 DEF Call, Fails, Legal, ErrorIsOwn
  <2>4. QED
    BY <1>12, <2>1, <2>2, <2>3 DEF Call
<1>13. CASE Reply
  BY <1>13 DEF Reply, FreeStrings, Legal, ErrorIsOwn, NoReply
<1>14. CASE OnEvent
  BY <1>14, PeerAssumption DEF OnEvent, wrapper, abi, Legal, ErrorIsOwn
<1>15. CASE Quit
  BY <1>15 DEF Quit, Shutdown, Legal, ErrorIsOwn
<1>16. QED
  BY <1>1, <1>2, <1>3, <1>4, <1>5, <1>6, <1>7, <1>8, <1>9, <1>10, <1>11, <1>12, <1>13, <1>14, <1>15
  DEF PeerNext, MainThread

-----------------------------------------------------------------------------
(* The smoke driver.                                                       *)

\* What it holds is what it owns; only the second mode opens without a file; in the third
\* an open client has the file's identity; and after a PASS the file is left alone.
SmokeOk ==
  /\ mode \in {"none", "open", "persist"} /\ given \in BOOLEAN
  /\ step \in {"down", "mint", "open", "next", "opening", "compare", "shutdown", "end"}
  /\ got \in 0 .. 2 /\ strings = got /\ run \in 0 .. 2 /\ first \in 0 .. minted
  /\ step \notin {"mint", "compare"} => got = 0
  /\ step \in {"compare", "shutdown"} => handle = "open"
  /\ step \in {"down", "mint", "open", "next", "end"} => handle # "open"
  /\ step # "opening" => opening = "no"
  /\ step = "open" => mode = "open"
  /\ step = "next" \/ run # 0 => mode = "persist"
  /\ opening = "ephemeral" => mode = "open"
  /\ mode = "persist" /\ handle = "open" => address \in known /\ file = address
  /\ verdict \in {"none", "PASS", "FAIL"}
  /\ verdict = "PASS" => /\ run = 2 /\ step \in {"shutdown", "next", "end"}
                         /\ first \in known /\ file = first

\* Each step of the driver is a legal use of the wrapper and keeps SmokeOk.
LEMMA SmokeEndsWell ==
  ASSUME SmokeOk, WrapOk, SmokeEnds
  PROVE  SmokeOk' /\ Legal
<1>1. EndProcess /\ minted' = minted
  BY DEF SmokeEnds, EndProcess, onDisk
<1>2. QED
  BY <1>1 DEF SmokeEnds, EndProcess, SmokeOk, WrapOk, Legal, NoSeed, onDisk

LEMMA SmokeSteps ==
  ASSUME SmokeOk, WrapOk, SmokeNext
  PROVE  SmokeOk' /\ Legal
<1> USE DEF SmokeOk
<1>1. CASE SmokeStarts
  BY <1>1 DEF SmokeStarts, wrapper, abi, onDisk, Legal
<1>2. CASE Mint
  BY <1>2 DEF Mint, GenAddress, onDisk, Legal
<1>3. CASE Minted
  BY <1>3 DEF Minted, FreeStrings, onDisk, Legal
<1>4. CASE OpenOnce
  BY <1>4 DEF OpenOnce, CallOpen, abi, Legal, WrapOk
<1>5. CASE NextRun
  <2>1. CASE run < 2
    BY <1>5, <2>1 DEF NextRun, CallOpenPersistent, abi, onDisk, Legal
  <2>2. CASE ~(run < 2)
    BY <1>5, <2>2 DEF NextRun, wrapper, abi, onDisk, Legal
  <2>3. QED
    BY <2>1, <2>2
<1>6. CASE InOpen
  <2>1. step = "opening" /\ OpenStep /\ UNCHANGED smoke /\ got = 0 /\ verdict # "PASS"
    BY <1>6 DEF InOpen
  <2>2. UNCHANGED strings /\ opening # "no" /\ handle # "open" /\ minted' >= minted /\ minted' \in Nat
    BY <2>1, OpensAre, OpensKeepWrap DEF WrapOk
  <2>3. handle' = "open" => OpenClient
    BY <2>1, <2>2 DEF OpenStep, LoadIdentity, MintIdentity, WriteFails, WriteIdentity, ClientFails,
                      OpenFails, abi
  <2>4. opening' = "ephemeral" => opening = "ephemeral"
    BY <2>1 DEF OpenStep, LoadIdentity, MintIdentity, WriteFails, WriteIdentity, ClientFails,
                OpenFails, OpenClient
  <2>5. mode = "persist" /\ OpenClient => address' \in known' /\ file' = address'
    BY DEF OpenClient, WrapOk
  <2>6. QED
    BY <2>1, <2>2, <2>3, <2>4, <2>5 DEF smoke, Legal, WrapOk
<1>7. CASE OpenedNothing
  BY <1>7 DEF OpenedNothing, wrapper, abi, onDisk, Legal
<1>8. CASE GetAddress
  BY <1>8 DEF GetAddress, Gives, onDisk, Legal
<1>9. CASE Compare
  <2>1. /\ step = "compare" /\ step' = "shutdown" /\ strings' = strings - got /\ got' = 0
        /\ UNCHANGED <<mode, given, run, handle, opening, address, known, file, minted>>
        /\ first' = (IF run = 1 THEN address ELSE first)
        /\ verdict' = (IF run = 2 THEN (IF first = address THEN "PASS" ELSE "FAIL") ELSE verdict)
    BY <1>9 DEF Compare, FreeStrings, onDisk
  <2>2. first' \in 0 .. minted'
    BY <2>1 DEF WrapOk
  <2>3. verdict' \in {"none", "PASS", "FAIL"}
    BY <2>1
  <2>4. verdict' = "PASS" => run' = 2 /\ first' \in known' /\ file' = first'
    BY <2>1
  <2>5. Legal
    BY <1>9 DEF Compare, Legal
  <2>6. QED
    BY <2>1, <2>2, <2>3, <2>4, <2>5
<1>10. CASE ShutDown
  BY <1>10 DEF ShutDown, Shutdown, onDisk, Legal
<1>11. CASE SmokeReturns
  BY <1>11, SmokeEndsWell DEF SmokeReturns
<1>12. QED
  BY <1>1, <1>2, <1>3, <1>4, <1>5, <1>6, <1>7, <1>8, <1>9, <1>10, <1>11 DEF SmokeNext, SmokeMain

-----------------------------------------------------------------------------
(* The machine.                                                            *)

\* The inductive invariant: the wrapper, the program that runs, and the other that does
\* not.
IInv ==
  /\ WrapOk /\ runs \in 0 .. MaxRuns
  /\ \/ host = "peer" /\ PeerOk /\ SmokeOff
     \/ host = "smoke" /\ SmokeOk /\ PeerOff

LEMMA Initially == Init => IInv
<1> SUFFICES ASSUME Init PROVE IInv
  OBVIOUS
<1> USE DEF Fresh, NoSeed, Absent, Foreign, Partial, IsSeed
<1>1. Fresh /\ minted = 0 /\ known = {} /\ sound \in BOOLEAN /\ file \in {Absent, Foreign}
  BY DEF Init, PeerInit, SmokeInit
<1>2. pump \in BOOLEAN
  BY <1>1
<1>3. WrapOk
  BY <1>1, <1>2 DEF WrapOk
<1>4. runs \in 0 .. MaxRuns
  BY HostsAssumption DEF Init
<1>5. CASE host = "peer" /\ PeerInit /\ SmokeOff
  <2>1. missing \subseteq Optional
    BY <1>5 DEF PeerInit, Optional
  <2>2. PeerOk
    BY <1>5, <2>1, PeerAssumption DEF PeerInit, PeerOk, ErrorIsOwn
  <2>3. QED
    BY <1>3, <1>4, <1>5, <2>2 DEF IInv
<1>6. CASE host = "smoke" /\ SmokeInit /\ PeerOff
  <2>1. SmokeOk
    BY <1>6, <1>1 DEF SmokeInit, SmokeOk
  <2>2. QED
    BY <1>3, <1>4, <1>6, <2>1 DEF IInv
<1>7. QED
  BY <1>5, <1>6 DEF Init

\* Every step is a legal use of the wrapper.
LEMMA StepIs ==
  ASSUME IInv, [Next]_vars
  PROVE  /\ Legal /\ runs' \in 0 .. MaxRuns
         /\ \/ host' = "peer" /\ PeerOk' /\ SmokeOff'
            \/ host' = "smoke" /\ SmokeOk' /\ PeerOff'
<1>1. CASE UNCHANGED vars
  BY <1>1 DEF vars, wrapper, abi, onDisk, peer, smoke, IInv, Legal, PeerOk, ErrorIsOwn, PeerOff,
              SmokeOk, SmokeOff
<1>2. CASE Next
  <2>1. runs' \in 0 .. MaxRuns /\ UNCHANGED host
    BY <1>2, HostsAssumption DEF Next, IInv
  <2>2. UNCHANGED smoke /\ SmokeOff => SmokeOff'
    BY DEF smoke, SmokeOff
  <2>3. UNCHANGED peer /\ PeerOff => PeerOff'
    BY DEF peer, PeerOff
  <2>4. ASSUME host = "peer", PeerNext, UNCHANGED smoke PROVE PeerOk' /\ SmokeOff' /\ Legal
    BY <2>2, <2>4, PeerSteps DEF IInv
  <2>5. ASSUME host = "smoke", SmokeNext, UNCHANGED peer PROVE SmokeOk' /\ PeerOff' /\ Legal
    BY <2>3, <2>5, SmokeSteps DEF IInv
  <2>6. ASSUME at \notin {"down", "off"}, PeerEnds, UNCHANGED smoke
        PROVE  host = "peer" /\ PeerOk' /\ SmokeOff' /\ Legal
    <3>1. host = "peer" /\ PeerOk /\ SmokeOff
      BY <2>6 DEF IInv, PeerOff
    <3>2. QED
      BY <3>1, <2>2, <2>6, PeerEndsWell
  <2>7. ASSUME step \notin {"down", "off"}, SmokeEnds, UNCHANGED peer
        PROVE  host = "smoke" /\ SmokeOk' /\ PeerOff' /\ Legal
    <3>1. host = "smoke" /\ SmokeOk /\ PeerOff /\ WrapOk
      BY <2>7 DEF IInv, SmokeOff
    <3>2. QED
      BY <3>1, <2>3, <2>7, SmokeEndsWell
  <2>8. QED
    BY <1>2, <2>1, <2>4, <2>5, <2>6, <2>7 DEF Next, Crash
<1>3. QED
  BY <1>1, <1>2

\* Whatever the two programs do and wherever they end, the wrapper and the program that
\* runs are as WrapOk, PeerOk and SmokeOk say.
THEOREM IInvAlways == Spec => []IInv
<1>1. IInv /\ [Next]_vars => IInv'
  BY StepIs, LegalKeepsWrap DEF IInv
<1>2. QED
  BY Initially, <1>1, PTL DEF Spec

\* Type correctness of the wrapper and of both programs.
THEOREM TypeCorrect == Spec => []TypeOK
<1>1. IInv => TypeOK
  <2>1. WrapOk => /\ calls \in Nat /\ error \in 0 .. calls /\ pump \in BOOLEAN /\ sound \in BOOLEAN
                  /\ handle \in {"none", "open", "shut"} /\ 0 \in 0 .. minted
                  /\ opening \in {"no", "load", "write", "client", "ephemeral"}
                  /\ seed \in 0 .. minted /\ address \in 0 .. minted /\ known \subseteq 1 .. minted
                  /\ file \in {Foreign, Partial, Absent} \cup 1 .. minted
                  /\ (handle = "open") = (address # NoSeed)
    BY DEF WrapOk
  <2>2. host = "peer" /\ PeerOk /\ SmokeOff /\ IInv => TypeOK
    BY <2>1 DEF PeerOk, SmokeOff, IInv, TypeOK, NoSeed
  <2>3. host = "smoke" /\ SmokeOk /\ PeerOff /\ IInv => TypeOK
    BY <2>1, PeerAssumption DEF SmokeOk, PeerOff, IInv, TypeOK
  <2>4. QED
    BY <2>2, <2>3 DEF IInv
<1>2. QED
  BY <1>1, IInvAlways, PTL

\* The address is stable across restarts as long as the identity file, once there, can
\* be read: wherever a run is cut off, whatever write or start of a client fails.
THEOREM AddressIsKept == Spec => []AddressKept
<1>1. IInv => AddressKept
  <2> SUFFICES ASSUME IInv, sound PROVE Cardinality(known) <= 1
    BY DEF AddressKept, AddressStable
  <2>1. known = {} \/ known = {file}
    BY DEF IInv, WrapOk
  <2>2. Cardinality({}) = 0 /\ Cardinality({file}) = 1
    BY FS_EmptySet, FS_Singleton
  <2>3. QED
    BY <2>1, <2>2
<1>2. QED
  BY <1>1, IInvAlways, PTL

\* At every prompt and at its end the peer has freed every string it was given.
THEOREM NothingIsHeld == Spec => []NothingHeld
<1>1. IInv => NothingHeld
  BY DEF IInv, PeerOk, PeerOff, NothingHeld
<1>2. QED
  BY <1>1, IInvAlways, PTL

\* The error printed for a failed command is that command's own.
THEOREM ErrorIsItsOwn == Spec => []ErrorIsOwn
<1>1. IInv => ErrorIsOwn
  BY DEF IInv, PeerOk, PeerOff, ErrorIsOwn
<1>2. QED
  BY <1>1, IInvAlways, PTL

\* "PERSIST PASS" is the truth, whatever reads and writes failed before.
THEOREM PassIsTheTruth == Spec => []PassIsTrue
<1>1. IInv => PassIsTrue
  BY DEF IInv, SmokeOk, SmokeOff, PassIsTrue
<1>2. QED
  BY <1>1, IInvAlways, PTL

\* The two programs keep to the header's contract and the wrapper to its side of it: each
\* step of theirs is one the contract allows, or none.
THEOREM AbiImplemented == Spec => ImplementsAbi
<1>1. Init => Abi!Init
  BY DEF Init, PeerInit, SmokeInit, Fresh, Abi!Init
<1>2. IInv /\ [Next]_vars => [Abi!Next]_(Abi!abi)
  <2>1. IInv => strings \in Nat
    BY DEF IInv, PeerOk, SmokeOk
  <2>2. QED
    BY <2>1, StepIs, LegalIsAbi DEF IInv
<1>3. QED
  BY <1>1, <1>2, IInvAlways, PTL DEF Spec, ImplementsAbi, Abi!Spec

-----------------------------------------------------------------------------
(* What ingest is fed.                                                     *)

\* The line main is at has one of the texts, and an ingest that has been called was handed
\* what that text decodes to.
Fed ==
  /\ line.text \in {<<>>} \cup Texts
  /\ at = "reply" /\ line.cmd = "ingest" /\ "ingest" \notin missing
       => reply.bytes = Decoded[line.text]

LEMMA StaysFed ==
  ASSUME Fed, [Next]_vars
  PROVE  Fed'
<1>1. /\ "ingest" \in StatusCommands /\ "ingest" \notin StringCommands
      /\ NoLine.text = <<>> /\ NoLine.cmd # "ingest"
  BY DEF StatusCommands, StringCommands, NoLine
<1>2. ASSUME line' = NoLine
      PROVE  Fed'
  BY <1>1, <1>2 DEF Fed
<1>3. ASSUME UNCHANGED <<missing, line>>, at' # "reply" \/ UNCHANGED <<at, reply>>
      PROVE  Fed'
  BY <1>3 DEF Fed
<1>4. ASSUME NEW l \in Lines, ReadLine(l)
      PROVE  Fed'
  <2>1. at' # "reply" /\ line' = l
    BY <1>4 DEF ReadLine
  <2>2. l.text \in {<<>>} \cup Texts
    BY DEF Lines
  <2>3. QED
    BY <2>1, <2>2 DEF Fed
<1>5. CASE Unknown
  BY <1>5 DEF Unknown, Fed
<1>6. CASE Missing
  BY <1>6 DEF Missing, Fed
<1>7. CASE Call
  <2>1. CASE line.cmd = "ingest"
    <3>1. reply'.bytes = Decoded[line.text]
      <4>1. reply' \in {[is |-> "0", bytes |-> Decoded[line.text]],
                       [is |-> "-1", bytes |-> Decoded[line.text]]}
        BY <1>1, <1>7, <2>1 DEF Call
      <4>2. \A r, b : [is |-> r, bytes |-> b].bytes = b
        OBVIOUS
      <4>3. QED
        BY <4>1, <4>2
    <3>2. UNCHANGED <<missing, line>>
      BY <1>7 DEF Call
    <3>3. QED
      BY <3>1, <3>2 DEF Fed
  <2>2. CASE line.cmd # "ingest"
    BY <1>7, <2>2 DEF Call, Fed
  <2>3. QED
    BY <2>1, <2>2
<1>8. CASE PeerEnds \/ Misuse \/ Reply
  BY <1>2, <1>8 DEF PeerEnds, Misuse, Reply
<1>9. CASE Start \/ Opening \/ Opened \/ Announce \/ Ready \/ ReadEof \/ OnEvent \/ Quit
  BY <1>3, <1>9 DEF Start, Opening, Opened, Announce, Ready, ReadEof, OnEvent, Quit, peer
<1>10. PeerNext => Fed'
  BY <1>4, <1>5, <1>6, <1>7, <1>8, <1>9 DEF PeerNext, MainThread, OpenedNull, Bye
<1>11. QED
  BY <1>3, <1>8, <1>10 DEF Next, Crash, vars, peer

\* ingest is handed the bytes its text stands for, as many as the buffer takes, whatever the
\* texts and the size of the buffer; and so does any other short text decode.
THEOREM IngestIsRight == Spec => []IngestRight
<1>1. Init => Fed
  BY DEF Init, PeerInit, PeerOff, NoLine, Fed
<1>2. Fed => IngestDecodes
  <2> SUFFICES ASSUME Fed, at = "reply", line.cmd = "ingest", "ingest" \notin missing
               PROVE  LET m == Meant[line.text] IN reply.bytes = SubSeq(m, 1, Smaller(OutMax, Len(m)))
    BY DEF IngestDecodes
  <2> DEFINE t == line.text
  <2>1. t \in {<<>>} \cup Texts /\ reply.bytes = Decoded[t]
    BY DEF Fed
  <2>2. t \in Seq(Char)
    <3>1. Char = -1 .. 63 /\ <<>> \in Seq(Char)
      BY DEF Char, Junk
    <3>2. \A u \in Texts : u \in Seq(Char)
      BY <3>1, PeerAssumption
    <3>3. QED
      BY <2>1, <3>2, <3>1
  <2>3. Decoded[t] = Decode(t, OutMax) /\ Meant[t] = Meaning(t)
    BY <2>1 DEF Decoded, Meant
  <2> HIDE DEF t
  <2>4. Decode(t, OutMax) = SubSeq(Meaning(t), 1, Smaller(OutMax, Len(Meaning(t))))
    BY <2>2, PeerAssumption, DecodesEveryText DEF DecodesRight
  <2>5. QED
    BY <2>1, <2>3, <2>4 DEF t
<1>3. ShortDecoded
  <2>1. ASSUME NEW n \in 0 .. 5, NEW t \in [1 .. n -> {Junk, 0, 22, 41, 63}]
        PROVE  t \in Seq(Char)
    <3>1. {Junk, 0, 22, 41, 63} \subseteq Char
      BY DEF Char, Junk
    <3>2. QED
      BY <3>1
  <2>2. ShortTexts \subseteq Seq(Char) /\ 0 .. 4 \subseteq Nat
    BY <2>1 DEF ShortTexts
  <2>3. QED
    BY <2>2, DecodesEveryText DEF ShortDecoded, DecodesRight
<1>4. QED
  BY <1>1, <1>2, <1>3, StaysFed, PTL DEF Spec, IngestRight

=============================================================================
