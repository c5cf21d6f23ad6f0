-------------------------------- MODULE Peer --------------------------------
(***************************************************************************)
(* The headless desktop peer (scripts/desktop-peer-mls/peer.c): it opens a *)
(* persistent identity, registers the event callback, announces itself and *)
(* then answers one command line at a time until "quit" or the end of its  *)
(* input.  A driver feeds it through a pipe and reads its answers from     *)
(* another; what printf leaves in stdio's buffer it cannot see.  The       *)
(* wrapper's pump thread prints an event now and then.                     *)
(***************************************************************************)
EXTENDS Wrapper, Base64

CONSTANTS
  Texts,    \* texts of an ingest line
  OutMax,   \* size of ingest's buffer
  MaxEvents \* bound on the events of one process

ASSUME PeerAssumption ==
  /\ \A t \in Texts : t \in Seq(-1 .. 63)
  /\ OutMax \in Nat /\ MaxEvents \in Nat

VARIABLES
  missing, \* the commands whose symbol the library does not export
  at,      \* where the peer's main thread is
  line,    \* the command line it is at
  reply,   \* what the call of that command returned
  held,    \* strings main holds
  unseen,  \* what stdio's buffer holds
  events   \* events the pump has printed

peer == <<missing, at, line, reply, held, unseen, events>>

\* The commands by what their verb returns, and the ones of them that want a second
\* word, whose symbol may be missing, and that print the last error when they fail.
StringCommands == {"address", "list", "newconvo", "newgroup", "export", "newoffline", "encrypt"}
StatusCommands == {"addmember", "leave", "send", "groupsend", "pause", "resume", "import", "ingest"}
Commands == StringCommands \cup StatusCommands
TwoWords == {"addmember", "send", "groupsend", "encrypt"}
OffNode  == {"pause", "resume", "export", "import", "newoffline", "ingest", "encrypt"}
Optional == OffNode \cup {"list", "leave"}
Explained == Commands \ {"address", "list", "pause", "resume"}

\* What the texts decode to, and what they stand for: tables, computed once.
Decoded == [t \in {<<>>} \cup Texts |-> Decode(t, OutMax)]
Meant   == [t \in {<<>>} \cup Texts |-> Meaning(t)]

\* A line: its command, whether it has a second word, and the text of an ingest.
Lines == {[cmd |-> c, words |-> w, text |-> t] :
            c \in Commands \cup {"blank", "unknown", "quit"}, w \in 1 .. 2, t \in {<<>>} \cup Texts}
WellSized(l) == /\ l.words = 2 => l.cmd \in TwoWords
                /\ l.text # <<>> => l.cmd = "ingest"
NoLine == [cmd |-> "none", words |-> 1, text |-> <<>>]
NoReply == [is |-> "none", bytes |-> <<>>]
Returned(r) == [is |-> r, bytes |-> <<>>]

PeerInit ==
  /\ Fresh /\ sound \in BOOLEAN /\ file = Absent /\ minted = 0 /\ known = {}
  /\ missing \in {UNION G : G \in SUBSET {OffNode, {"list"}, {"leave"}}}
  /\ at = "down" /\ line = NoLine /\ reply = NoReply
  /\ held = 0 /\ unseen = {} /\ events = 0

\* The process is gone, from its end or from anywhere.
PeerEnds ==
  /\ EndProcess
  /\ at' = "down" /\ line' = NoLine /\ reply' = NoReply
  /\ held' = 0 /\ unseen' = {} /\ events' = 0
  /\ UNCHANGED missing

-----------------------------------------------------------------------------
(* Coming up.                                                              *)

\* dlopen and dlsym; without them it returns at once.
Start ==
  /\ at = "down"
  /\ at' = "opening"
  /\ CallOpenPersistent
  /\ UNCHANGED <<missing, line, reply, held, unseen, events>>

Opening ==
  /\ at = "opening" /\ OpenStep
  /\ UNCHANGED peer

\* die: exit flushes.
OpenedNull ==
  /\ at = "opening" /\ opening = "no" /\ handle # "open"
  /\ PeerEnds

Opened ==
  /\ at = "opening" /\ opening = "no" /\ handle = "open"
  /\ SetEventCallback
  /\ at' = "announce"
  /\ UNCHANGED <<missing, line, reply, held, unseen, events>>

\* The address and the installation name.
Announce ==
  /\ at = "announce" /\ held < 2
  /\ Gives /\ held' = held + 1
  /\ UNCHANGED <<missing, at, line, reply, unseen, events>>

Ready ==
  /\ at = "announce" /\ held = 2
  /\ FreeStrings(held) /\ held' = 0
  /\ at' = "fgets" /\ unseen' = {}
  /\ UNCHANGED <<missing, line, reply, events>>

-----------------------------------------------------------------------------
(* The command loop.                                                       *)

\* The driver's next line.
ReadLine(l) ==
  /\ at = "fgets"
  /\ line' = l
  /\ at' = CASE l.cmd = "blank" -> "fgets"
             [] l.cmd = "quit"  -> "quit"
             [] OTHER           -> "command"
  /\ UNCHANGED <<wrapper, missing, reply, held, unseen, events>>

\* The input ends.
ReadEof ==
  /\ at = "fgets"
  /\ at' = "quit"
  /\ UNCHANGED <<wrapper, missing, line, reply, held, unseen, events>>

\* A line main answers itself: it goes on with the next one, without a flush.
Misused == \/ line.cmd \in TwoWords /\ line.words = 1
           \/ line.cmd = "leave" /\ "leave" \in missing

Misuse ==
  /\ at = "command" /\ Misused
  /\ unseen' = unseen \cup {"usage"} /\ line' = NoLine /\ at' = "fgets"
  /\ UNCHANGED <<wrapper, missing, reply, held, events>>

Unknown ==
  /\ at = "command" /\ line.cmd = "unknown"
  /\ at' = "reply"
  /\ UNCHANGED <<wrapper, missing, line, reply, held, unseen, events>>

\* The verb is not there: NULL or -99 stand for its result.
Missing ==
  /\ at = "command" /\ line.cmd \in missing /\ ~Misused
  /\ reply' = Returned(IF line.cmd \in StringCommands THEN "null" ELSE "-99")
  /\ at' = "reply"
  /\ UNCHANGED <<wrapper, missing, line, held, unseen, events>>

\* The verb is called; ingest is handed what the line decodes to.
Call ==
  /\ at = "command" /\ line.cmd \in Commands \ missing /\ ~Misused
  /\ \/ /\ line.cmd \in StringCommands /\ Gives
        /\ reply' = Returned("string") /\ held' = held + 1
     \/ /\ line.cmd \in StatusCommands /\ Does
        /\ reply' = [is |-> "0", bytes |-> Decoded[line.text]]
        /\ UNCHANGED held
     \/ /\ line.cmd # "address" /\ Fails
        /\ reply' = IF line.cmd \in StringCommands THEN Returned("null")
                    ELSE [is |-> "-1", bytes |-> Decoded[line.text]]
        /\ UNCHANGED held
  /\ at' = "reply"
  /\ UNCHANGED <<missing, line, unseen, events>>

\* Mutants of Reply: the string is not freed; it is freed twice; the answer is not
\* flushed.
ReplyKept ==
  /\ at = "reply"
  /\ FreeStrings(0) /\ held' = 0
  /\ unseen' = {} /\ reply' = NoReply /\ line' = NoLine /\ at' = "fgets"
  /\ UNCHANGED <<missing, events>>

ReplyFreesTwice ==
  /\ at = "reply"
  /\ FreeStrings(2 * held) /\ held' = 0
  /\ unseen' = {} /\ reply' = NoReply /\ line' = NoLine /\ at' = "fgets"
  /\ UNCHANGED <<missing, events>>

ReplyUnflushed ==
  /\ at = "reply"
  /\ FreeStrings(held) /\ held' = 0
  /\ unseen' = unseen \cup {"answer"} /\ reply' = NoReply /\ line' = NoLine /\ at' = "fgets"
  /\ UNCHANGED <<missing, events>>

\* The answer is printed, its string freed, and stdout flushed.
Reply ==
  /\ at = "reply"
  /\ FreeStrings(held) /\ held' = 0
  /\ unseen' = {} /\ reply' = NoReply /\ line' = NoLine /\ at' = "fgets"
  /\ UNCHANGED <<missing, events>>

\* on_event, on the pump's thread: prints and flushes.
OnEvent ==
  /\ pump /\ events < MaxEvents
  /\ events' = events + 1 /\ unseen' = {}
  /\ UNCHANGED <<wrapper, missing, at, line, reply, held>>

\* The pump is detached by the shutdown (EventPump) and may print on.
Quit ==
  /\ at = "quit"
  /\ Shutdown
  /\ at' = "bye"
  /\ UNCHANGED <<missing, line, reply, held, unseen, events>>

Bye == at = "bye" /\ PeerEnds

MainThread ==
  \/ Opening \/ OpenedNull \/ Opened \/ Announce \/ Ready
  \/ Misuse \/ Unknown \/ Missing \/ Call \/ Reply \/ Quit \/ Bye

PeerNext ==
  \/ Start \/ MainThread \/ OnEvent \/ ReadEof
  \/ calls < MaxCalls /\ \E l \in Lines : WellSized(l) /\ ReadLine(l)

-----------------------------------------------------------------------------
\* At every prompt, and when it ends, the peer has freed every string it was given.
NothingHeld == at \in {"fgets", "quit", "bye"} => strings = 0

\* The error the peer prints for a failed command is that command's own, not one an
\* earlier command left behind.  (For a missing symbol, and for a leave that returns
\* 0, it prints whatever the last error was.)
ErrorIsOwn ==
  at = "reply" /\ reply.is \in {"null", "-1"} /\ line.cmd \in Explained \ missing
    => error = calls

\* ingest is handed the bytes its text stands for, as far as the buffer goes.
IngestDecodes ==
  at = "reply" /\ line.cmd = "ingest" /\ "ingest" \notin missing
    => LET m == Meant[line.text] IN reply.bytes = SubSeq(m, 1, Smaller(OutMax, Len(m)))

\* Every command the peer does not reject for its usage is answered where the driver
\* can see it, and "quit" ends the process.
LinesAnswered ==
  /\ (at = "command" /\ ~Misused) ~> ((at = "fgets" /\ unseen = {}) \/ at = "down")
  /\ (at = "quit") ~> (at = "down")
=============================================================================
