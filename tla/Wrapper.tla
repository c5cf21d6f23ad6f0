------------------------------ MODULE Wrapper -------------------------------
(***************************************************************************)
(* What the wrapper (wrapper/src/lib.rs) does for a process that calls it  *)
(* from one thread: its results and the thread's last error, the strings   *)
(* it gives away, and logoschat_open_persistent with the identity file,    *)
(* step by step.  Peer and Smoke are the processes; only the file and what *)
(* others know of the address outlive them.                                *)
(***************************************************************************)
EXTENDS Integers, FiniteSets

CONSTANT MaxCalls  \* bound on the calls of one process

ASSUME WrapperAssumption == MaxCalls \in Nat

VARIABLES
  handle, strings, pump, calls, error,   \* as in ChatAbi
  opening,  \* the step logoschat_open[_persistent] is at
  seed,     \* the identity it has in hand
  sound,    \* whether the identity file, once there, can always be read
  file,     \* what the identity file holds
  minted,   \* number of identities generated so far
  address,  \* the identity of the open handle
  known     \* every identity a client with a persistent one was opened with

abi     == <<handle, strings, pump, calls, error>>
onDisk  == <<sound, file, minted, known>>
wrapper == <<abi, opening, seed, onDisk, address>>

\* Contents of the file that are no identity: none at all, too short, something else.
Absent == 0
Partial == -1
Foreign == -2
NoSeed == 0

\* Mutant of IsSeed: the length is not checked.
IsSeedAny(f) == f # Absent

\* bytes.len() == 64
IsSeed(f) == f > 0

Fresh ==
  /\ handle = "none" /\ strings = 0 /\ pump = FALSE /\ calls = 0 /\ error = 0
  /\ opening = "no" /\ seed = NoSeed /\ address = NoSeed

\* The process is gone.
EndProcess ==
  /\ handle' = "none" /\ strings' = 0 /\ pump' = FALSE /\ calls' = 0 /\ error' = 0
  /\ opening' = "no" /\ seed' = NoSeed /\ address' = NoSeed
  /\ UNCHANGED onDisk

-----------------------------------------------------------------------------
(* Results of a verb.                                                      *)

\* to_c_string(..).into_raw()
Gives ==
  /\ strings' = strings + 1 /\ calls' = calls + 1
  /\ UNCHANGED <<handle, pump, error, opening, seed, onDisk, address>>

\* Ok(()) => 0
Does ==
  /\ calls' = calls + 1
  /\ UNCHANGED <<handle, strings, pump, error, opening, seed, onDisk, address>>

\* Mutant of Fails: an early return that sets no error.
FailsSilently ==
  /\ calls' = calls + 1
  /\ UNCHANGED <<handle, strings, pump, error, opening, seed, onDisk, address>>

\* set_last_error and null or -1: an argument that is not UTF-8, or the core's error.
Fails ==
  /\ calls' = calls + 1 /\ error' = calls'
  /\ UNCHANGED <<handle, strings, pump, opening, seed, onDisk, address>>

\* logoschat_gen_address, which mints an account nobody uses.
GenAddress ==
  /\ strings' = strings + 1
  /\ UNCHANGED <<handle, pump, calls, error, opening, seed, onDisk, address>>

FreeStrings(n) ==
  /\ strings' = strings - n
  /\ UNCHANGED <<handle, pump, calls, error, opening, seed, onDisk, address>>

\* logoschat_set_event_callback: the receiver is there the first time.
SetEventCallback ==
  /\ IF pump THEN error' = calls' ELSE UNCHANGED error
  /\ pump' = TRUE /\ calls' = calls + 1
  /\ UNCHANGED <<handle, strings, opening, seed, onDisk, address>>

Shutdown ==
  /\ handle' = "shut" /\ address' = NoSeed
  /\ UNCHANGED <<strings, pump, calls, error, opening, seed, onDisk>>

-----------------------------------------------------------------------------
(* Opening a client.                                                       *)

CallOpen ==
  /\ opening = "no"
  /\ minted' = minted + 1 /\ seed' = minted'    \* ephemeral
  /\ opening' = "ephemeral"
  /\ UNCHANGED <<abi, sound, file, known, address>>

CallOpenPersistent ==
  /\ opening = "no"
  /\ opening' = "load"
  /\ UNCHANGED <<abi, seed, onDisk, address>>

\* The call returns null.
OpenFails ==
  /\ opening' = "no" /\ seed' = NoSeed
  /\ calls' = calls + 1 /\ error' = calls'
  /\ UNCHANGED <<handle, strings, pump, address>>

\* Mutant of LoadIdentity: the file is opened as for writing, which truncates it.
LoadIdentityTruncates ==
  /\ opening = "load" /\ IsSeed(file)
  /\ seed' = file /\ file' = Partial /\ opening' = "client"
  /\ UNCHANGED <<abi, sound, minted, known, address>>

\* fs::read gives 64 bytes: they are the identity.
LoadIdentity ==
  /\ opening = "load" /\ IsSeed(file)
  /\ seed' = file /\ opening' = "client"
  /\ UNCHANGED <<abi, onDisk, address>>

\* Mutant of MintIdentity: the file that is there is not looked at.
MintIdentityAlways ==
  /\ opening = "load"
  /\ minted' = minted + 1
  /\ \/ /\ file' = Partial /\ seed' = minted' /\ opening' = "write"
        /\ UNCHANGED <<abi, address>>
     \/ OpenFails /\ UNCHANGED file
  /\ UNCHANGED <<sound, known>>

\* Anything else, a read error included, generates an identity and begins to write
\* it: fs::write opens and truncates the file, or fails.
MintIdentity ==
  /\ opening = "load" /\ (~IsSeed(file) \/ ~sound)
  /\ minted' = minted + 1
  /\ \/ /\ file' = Partial /\ seed' = minted' /\ opening' = "write"
        /\ UNCHANGED <<abi, address>>
     \/ OpenFails /\ UNCHANGED file
  /\ UNCHANGED <<sound, known>>

\* The write fails halfway.
WriteFails ==
  /\ opening = "write"
  /\ OpenFails
  /\ UNCHANGED onDisk

WriteIdentity ==
  /\ opening = "write"
  /\ file' = seed /\ opening' = "client"
  /\ UNCHANGED <<abi, seed, sound, minted, known, address>>

\* The node starts and the device bundle is published.
OpenClient ==
  /\ opening \in {"client", "ephemeral"}
  /\ handle' = "open" /\ pump' = FALSE /\ calls' = calls + 1
  /\ address' = seed
  /\ known' = IF opening = "client" THEN known \cup {seed} ELSE known
  /\ opening' = "no" /\ seed' = NoSeed
  /\ UNCHANGED <<strings, error, sound, file, minted>>

ClientFails ==
  /\ opening \in {"client", "ephemeral"}
  /\ OpenFails
  /\ UNCHANGED onDisk

OpenStep ==
  LoadIdentity \/ MintIdentity \/ WriteFails \/ WriteIdentity \/ OpenClient \/ ClientFails
=============================================================================
