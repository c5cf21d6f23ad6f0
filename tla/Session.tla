------------------------------ MODULE Session ------------------------------
(***************************************************************************)
(* The session of one installation: Core (core/conversations/src/core.rs), *)
(* its conversations, the encrypted store below it and the application     *)
(* above it, over several runs of the process.                             *)
(*                                                                         *)
(* openmls keeps every group in the memory of the provider (mls); an entry *)
(* point of Core changes it, publishes, and then writes the whole of it    *)
(* into the store (blob) before it returns.  A crash may come between any  *)
(* two of these, and a write may fail.  As in GroupV1, a group's state is  *)
(* the history of its commits; here it also has the number of messages     *)
(* sealed and the messages read in this epoch, since those are what a      *)
(* process that starts from an old blob does again.                        *)
(*                                                                         *)
(* Two members who commit at once are GroupV1's subject: peers append to   *)
(* one history.  So are the frames for a future epoch: here they are left  *)
(* on the wire, which is never emptied.  Group conversations of kind       *)
(* GroupV2 and the causal history are left out.                            *)
(***************************************************************************)
EXTENDS Integers, Sequences, FiniteSets

CONSTANTS
  Convo,     \* conversations; a conversation's route tag is fixed and its own
  Mine,      \* those this installation creates
  Legacy,    \* those that may be held since before route tags were stored
  Talk,      \* those in which peers send messages
  NoConvo, NoGroup,
  MaxEpoch,  \* bound on commits in a history
  MaxWork,   \* bound on messages and commits made, here and by peers
  MaxOpen    \* bound on runs of the process

VARIABLES
  running,  \* the process is up
  opens,    \* runs so far; each registers the key package of its number
  mls,      \* the MLS provider: groups and private key-package keys, in memory
  blob,     \* its last checkpoint in the store
  rows,     \* rows[c]: the conversation row in the store, with or without a tag
  cached,   \* cached[c]: the object cached for c, if any, and its type
  echo,     \* own messages whose hashes cached objects remember
  index,    \* conversations route_index leads to
  call,     \* the entry point in progress
  wire,     \* frames on the network
  handed,   \* own messages handed out by encrypt_for_convo
  seals,    \* messages and commits this installation has made
  surfaced, \* peers' messages the application has been given
  repeated, \* those it has been given again
  peers,    \* peers[c]: the commits the other members of c have applied
  excused   \* conversations a crash in the middle of a call, a failed write or
            \* an entry point that gave up before its checkpoint has touched

vars == <<running, opens, mls, blob, rows, cached, echo, index, call, wire, handed,
          seals, surfaced, repeated, peers, excused>>
memory  == <<cached, echo, index>>
outside == <<wire, handed, peers, seals>>
app     == <<surfaced, repeated>>

CommitKind == {"self", "peer", "out", "in"}
Commit  == [kind : CommitKind, n : Nat]
History == Seq(Commit)

\* A message or a commit sealed on top of history at; a welcome to history at
\* for the key package n.
Frame == [c : Convo, by : {"self", "peer"}, kind : CommitKind \cup {"app", "welcome"},
          at : History, gen : Nat, n : Nat]

Group == [at : History, gen : Nat, got : SUBSET Frame]

Provider == [group : [Convo -> Group \cup {NoGroup}], keys : SUBSET Nat]

Call == [pc : {"idle", "row", "invite", "persist", "return"},
         op : {"none", "open", "direct", "group", "commit", "send", "encrypt", "handle",
               "echo", "other"},
         c : Convo \cup {NoConvo}, out : SUBSET Frame, ok : BOOLEAN]

ASSUME SessionAssumption ==
  /\ Mine \subseteq Convo /\ Talk \subseteq Convo
  /\ Legacy \subseteq Convo \ Mine
  /\ NoConvo \notin Convo
  /\ NoGroup \notin Group
  /\ MaxEpoch \in Nat /\ MaxWork \in Nat /\ MaxOpen \in Nat

Fresh(h) == [at |-> h, gen |-> 0, got |-> {}]
After(f) == Append(f.at, [kind |-> f.kind, n |-> f.n])
Invited  == <<[kind |-> "in", n |-> 0]>>

\* This installation is a member after the commits of h.  Only a creator evicts.
Member(c, h) ==
  \/ c \in Mine
  \/ \E i \in DOMAIN h : h[i].kind = "in" /\ \A j \in DOMAIN h : j > i => h[j].kind # "out"

Held(c) == mls.group[c] # NoGroup
Row(c)  == rows[c] # "none"

\* A call finds the object in the cache; else load_convo builds one for this call
\* from the row and the provider, and what it remembers goes with it.
Usable(c) == Held(c) /\ (cached[c] # "no" \/ Row(c))

Idle == [pc |-> "idle", op |-> "none", c |-> NoConvo, out |-> {}, ok |-> TRUE]

\* An entry point at work on c; what is left is from pc on.
Calling(pc, op, c, out) == [pc |-> pc, op |-> op, c |-> c, out |-> out, ok |-> TRUE]

Free == running /\ call.pc = "idle"

\* Work is left.
Spare == seals + Cardinality({f \in wire : f.by = "peer" /\ f.kind # "welcome"}) < MaxWork

SetGroup(c, g) == mls' = [mls EXCEPT !.group[c] = g]

-----------------------------------------------------------------------------
NoGroups == [group |-> [c \in Convo |-> NoGroup], keys |-> {}]

Init ==
  /\ running = FALSE /\ opens = 0
  /\ mls = NoGroups
  /\ \E old \in SUBSET Legacy :
       /\ blob  = [NoGroups EXCEPT !.group = [c \in Convo |-> IF c \in old THEN Fresh(Invited) ELSE NoGroup]]
       /\ rows  = [c \in Convo |-> IF c \in old THEN "untagged" ELSE "none"]
       /\ peers = [c \in Convo |-> IF c \in old THEN Invited ELSE <<>>]
  /\ cached = [c \in Convo |-> "no"] /\ echo = {} /\ index = {}
  /\ call = Idle
  /\ wire = {} /\ handed = {}
  /\ seals = 0
  /\ surfaced = {} /\ repeated = {}
  /\ excused = {}

-----------------------------------------------------------------------------
\* persist_mls_state: all of the provider in one row.
Persist ==
  /\ running /\ call.pc = "persist"
  /\ blob' = mls
  /\ call' = [call EXCEPT !.pc = "return"]
  /\ UNCHANGED <<running, opens, mls, rows, memory, outside, app, excused>>

\* Nothing of what was in memory is left.
Vanish ==
  /\ mls' = NoGroups
  /\ cached' = [c \in Convo |-> "no"] /\ echo' = {} /\ index' = {}
  /\ call' = Idle
  /\ excused' = excused \cup ({call.c} \ {NoConvo})

\* Mutant of PersistFails: the error is ignored.
PersistFailsUnseen ==
  /\ running /\ call.pc = "persist"
  /\ call' = [call EXCEPT !.pc = "return"]
  /\ excused' = excused \cup ({call.c} \ {NoConvo})
  /\ UNCHANGED <<running, opens, mls, blob, rows, memory, outside, app>>

\* The write fails: its error replaces the result of the call.  An open that fails
\* leaves no client.
PersistFails ==
  /\ running /\ call.pc = "persist"
  /\ \/ /\ call.op = "open"
        /\ running' = FALSE /\ Vanish
     \/ /\ call.op # "open"
        /\ call' = Idle /\ excused' = excused \cup ({call.c} \ {NoConvo})
        /\ UNCHANGED <<running, mls, memory>>
  /\ UNCHANGED <<opens, blob, rows, outside, app>>

\* The process ends, in the middle of a call or between two.
Crash ==
  /\ running
  /\ running' = FALSE /\ Vanish
  /\ UNCHANGED <<opens, blob, rows, outside, app>>

\* The result reaches the application.
Return ==
  /\ running /\ call.pc = "return"
  /\ call' = Idle
  /\ handed'   = IF call.op = "encrypt" THEN handed \cup call.out ELSE handed
  /\ surfaced' = IF call.op = "handle" THEN surfaced \cup call.out ELSE surfaced
  /\ repeated' = IF call.op = "handle" THEN repeated \cup (call.out \cap surfaced) ELSE repeated
  /\ UNCHANGED <<running, opens, mls, blob, rows, memory, wire, peers, seals, excused>>

\* An entry point gives up with an error and without a checkpoint.
GiveUp(c) ==
  /\ call' = Idle
  /\ excused' = excused \cup {c}

-----------------------------------------------------------------------------
\* Where the rows lead when a session is assembled: by their tags, or by the tag
\* of the group if the row has none.
Indexed(group) ==
  {c \in Convo : rows[c] = "tagged" \/ (rows[c] = "untagged" /\ group[c] # NoGroup)}

\* Mutant of Open: the provider starts empty.
OpenReset ==
  /\ ~running /\ opens < MaxOpen
  /\ running' = TRUE
  /\ opens' = opens + 1
  /\ mls' = [NoGroups EXCEPT !.keys = {opens + 1}]
  /\ call' = Calling("persist", "open", NoConvo, {})
  /\ index' = Indexed(blob.group)
  /\ UNCHANGED <<blob, rows, cached, echo, outside, app, excused>>

\* new_from_store, then register_keypackage.  When the rows cannot be listed the
\* session goes on without an index.
Open ==
  /\ ~running /\ opens < MaxOpen
  /\ running' = TRUE
  /\ opens' = opens + 1
  /\ mls' = [blob EXCEPT !.keys = @ \cup {opens + 1}]
  /\ call' = Calling("persist", "open", NoConvo, {})
  /\ \/ index' = Indexed(blob.group) /\ UNCHANGED excused
     \/ index' = {} /\ excused' = Convo
  /\ UNCHANGED <<blob, rows, cached, echo, outside, app>>

Register(c, type) ==
  /\ index'  = index \cup {c}
  /\ cached' = [cached EXCEPT ![c] = type]
  /\ UNCHANGED echo

\* Mutant of ReplaceConvo: the new tag is put in before the old one is dropped.
ReplaceConvoTagLast(c, type) ==
  /\ index'  = (index \cup {c}) \ {c}
  /\ cached' = [cached EXCEPT ![c] = type]
  /\ echo'   = {f \in echo : f.c # c}

\* The old object's tag is dropped before the new one is put in: it is the same.
ReplaceConvo(c, type) ==
  /\ index'  = (index \ {c}) \cup {c}
  /\ cached' = [cached EXCEPT ![c] = type]
  /\ echo'   = {f \in echo : f.c # c}

\* save_conversation, and what comes after it or not.
SaveRow(c) == rows' = [rows EXCEPT ![c] = "tagged"]

\* Ids are random: when nothing is left of a conversation it is a new one.
Unborn(c) ==
  /\ ~Held(c) /\ ~Row(c) /\ blob.group[c] = NoGroup
  /\ \A f \in wire : f.c # c

\* add_member and remove_member on top of h: merged first, published afterwards.
Commits(c, h) ==
  LET f == [c |-> c, by |-> "self", kind |-> "self", at |-> h, gen |-> 0, n |-> seals + 1] IN
  /\ Spare /\ Len(h) < MaxEpoch
  /\ seals' = seals + 1
  /\ SetGroup(c, Fresh(After(f)))
  /\ wire' \in {wire, wire \cup {f}}
  /\ UNCHANGED <<handed, peers>>

\* create_direct_convo_v1: a group with the peer in it ...
CreateDirect(c) ==
  /\ Free /\ c \in Mine /\ Unborn(c)
  /\ \/ Commits(c, <<>>) /\ wire' # wire
        /\ call' = Calling("row", "direct", c, {}) /\ UNCHANGED excused
     \/ Commits(c, <<>>) /\ wire' = wire /\ GiveUp(c)
     \/ SetGroup(c, Fresh(<<>>)) /\ UNCHANGED outside /\ GiveUp(c)
  /\ UNCHANGED <<running, opens, blob, rows, memory, app>>

\* Mutant of DirectRow: no checkpoint.
DirectRowUnsaved(c) ==
  /\ call.pc = "row" /\ call.c = c
  /\ \/ /\ SaveRow(c) /\ Register(c, "direct")
        /\ call' = [call EXCEPT !.pc = "return"] /\ UNCHANGED excused
     \/ GiveUp(c) /\ UNCHANGED <<rows, memory>>
  /\ UNCHANGED <<running, opens, mls, blob, outside, app>>

\* ... then its row, then the cache.
DirectRow(c) ==
  /\ call.pc = "row" /\ call.c = c
  /\ \/ /\ SaveRow(c) /\ Register(c, "direct")
        /\ call' = [call EXCEPT !.pc = "persist"] /\ UNCHANGED excused
     \/ GiveUp(c) /\ UNCHANGED <<rows, memory>>
  /\ UNCHANGED <<running, opens, mls, blob, outside, app>>

\* create_group_convo_v1: a group of one and its row ...
CreateGroup(c) ==
  /\ Free /\ c \in Mine /\ Unborn(c)
  /\ SetGroup(c, Fresh(<<>>))
  /\ \/ SaveRow(c) /\ call' = Calling("invite", "group", c, {}) /\ UNCHANGED excused
     \/ GiveUp(c) /\ UNCHANGED rows
  /\ UNCHANGED <<running, opens, blob, memory, outside, app>>

\* ... then the members, if any are named, then the cache.
InviteToGroup(c) ==
  /\ call.pc = "invite" /\ call.c = c
  /\ \/ /\ \/ Commits(c, <<>>) /\ wire' # wire
           \/ UNCHANGED <<mls, outside>>
        /\ Register(c, "group")
        /\ call' = [call EXCEPT !.pc = "persist"] /\ UNCHANGED excused
     \/ /\ \/ Commits(c, <<>>) /\ wire' = wire
           \/ UNCHANGED <<mls, outside>>
        /\ GiveUp(c) /\ UNCHANGED memory
  /\ UNCHANGED <<running, opens, blob, rows, app>>

\* group_add_member, group_remove_member: refused for a conversation cached as
\* direct.  Loaded for the call, every conversation is a group.
ChangeMembers(c) ==
  /\ Free /\ Usable(c) /\ cached[c] # "direct"
  /\ Member(c, mls.group[c].at)
  /\ Commits(c, mls.group[c].at)
  /\ call' = Calling("persist", "commit", c, {})
  /\ UNCHANGED <<running, opens, blob, rows, memory, app, excused>>

\* Mutant of Content: the generation is one off.
ContentBefore(c) ==
  [c |-> c, by |-> "self", kind |-> "app", at |-> mls.group[c].at,
   gen |-> mls.group[c].gen - 1, n |-> seals + 1]

\* build_content_envelope: sealed under the next generation of this epoch.
Content(c) ==
  [c |-> c, by |-> "self", kind |-> "app", at |-> mls.group[c].at,
   gen |-> mls.group[c].gen, n |-> seals + 1]

Seals(c) ==
  /\ Usable(c) /\ Member(c, mls.group[c].at) /\ Spare
  /\ SetGroup(c, [mls.group[c] EXCEPT !.gen = @ + 1])
  /\ seals' = seals + 1
  /\ echo' = IF cached[c] # "no" THEN echo \cup {Content(c)} ELSE echo

\* Mutant of SendContent: no checkpoint.
SendContentUnsaved(c) ==
  /\ Free /\ Seals(c)
  /\ wire' \in {wire, wire \cup {Content(c)}}
  /\ call' = Calling("return", "send", c, {})
  /\ UNCHANGED <<running, opens, blob, rows, cached, index, handed, peers, app, excused>>

\* send_content: publishing may fail.
SendContent(c) ==
  /\ Free /\ Seals(c)
  /\ wire' \in {wire, wire \cup {Content(c)}}
  /\ call' = Calling("persist", "send", c, {})
  /\ UNCHANGED <<running, opens, blob, rows, cached, index, handed, peers, app, excused>>

\* encrypt_for_convo: nothing is published, the caller gets the envelope.
EncryptForConvo(c) ==
  /\ Free /\ Seals(c)
  /\ call' = Calling("persist", "encrypt", c, {Content(c)})
  /\ UNCHANGED <<running, opens, blob, rows, cached, index, wire, handed, peers, app, excused>>

-----------------------------------------------------------------------------
\* handle_payload.  A frame reaches a conversation through the cache, or through
\* the index and load_convo.
Routed(c) == Held(c) /\ (cached[c] # "no" \/ (c \in index /\ Row(c)))

Opens(f) ==
  /\ f \in wire /\ Routed(f.c) /\ f.by = "peer"
  /\ f.at = mls.group[f.c].at
  /\ Member(f.c, f.at)

HandleCommit(f) ==
  /\ Free /\ f.kind \in CommitKind /\ Opens(f)
  /\ SetGroup(f.c, Fresh(After(f)))
  /\ call' = Calling("persist", "handle", f.c, {})
  /\ UNCHANGED <<running, opens, blob, rows, memory, outside, app, excused>>

\* Mutant of HandleMessage: no checkpoint.
HandleMessageUnsaved(f) ==
  /\ Free /\ f.kind = "app" /\ Opens(f)
  /\ f \notin mls.group[f.c].got
  /\ SetGroup(f.c, [mls.group[f.c] EXCEPT !.got = @ \cup {f}])
  /\ call' = Calling("return", "handle", f.c, {f})
  /\ UNCHANGED <<running, opens, blob, rows, memory, outside, app, excused>>

HandleMessage(f) ==
  /\ Free /\ f.kind = "app" /\ Opens(f)
  /\ f \notin mls.group[f.c].got
  /\ SetGroup(f.c, [mls.group[f.c] EXCEPT !.got = @ \cup {f}])
  /\ call' = Calling("persist", "handle", f.c, {f})
  /\ UNCHANGED <<running, opens, blob, rows, memory, outside, app, excused>>

\* A message of our own comes back: dropped by its hash, dropped or buffered by its
\* epoch, or an error.
HandleEcho(f) ==
  /\ Free /\ f \in wire /\ f.by = "self" /\ f.kind = "app" /\ Routed(f.c)
  /\ call' = [Calling("persist", "echo", f.c, {}) EXCEPT
                !.ok = f \in echo \/ Len(f.at) # Len(mls.group[f.c].at)]
  /\ UNCHANGED <<running, opens, mls, blob, rows, memory, outside, app, excused>>

\* dispatch_to_inbox2: a welcome to a conversation we do not hold, or the creator's
\* to a later epoch.  A failed write of the row of a conversation that is cached is
\* left out: the old object would go on beside the new group.
HandleWelcome(f) ==
  /\ Free /\ f \in wire /\ f.kind = "welcome" /\ f.n \in mls.keys
  /\ Held(f.c) => Len(f.at) > Len(mls.group[f.c].at)
  /\ SetGroup(f.c, Fresh(f.at))
  /\ call' = Calling("persist", "handle", f.c, {})
  /\ \/ /\ SaveRow(f.c) /\ UNCHANGED excused
        /\ \/ cached[f.c] # "no" /\ ReplaceConvo(f.c, "group")
           \/ cached[f.c] = "no" /\ Register(f.c, "group")
     \/ /\ cached[f.c] = "no" /\ excused' = excused \cup {f.c}
        /\ UNCHANGED <<rows, memory>>
  /\ UNCHANGED <<running, opens, blob, outside, app>>

\* A call that changes nothing and writes the checkpoint all the same: wakeup,
\* persist_mls_state, an error of an inner function, a frame that is not for us.
Checkpoint ==
  /\ Free
  /\ call' = Calling("persist", "other", NoConvo, {})
  /\ UNCHANGED <<running, opens, mls, blob, rows, memory, outside, app, excused>>

-----------------------------------------------------------------------------
\* The other members of c.  A commit adds us (with a welcome for a key package we
\* have registered), evicts us, or is about others.
Welcome(f, k) == [f EXCEPT !.kind = "welcome", !.at = After(f), !.n = k]

Published(c, kind) == [c |-> c, by |-> "peer", kind |-> kind, at |-> peers[c], gen |-> 0, n |-> 0]

PeerCommit(c) ==
  /\ Spare /\ Len(peers[c]) < MaxEpoch
  /\ \E kind \in {"peer", "out", "in"} :
       LET f == Published(c, kind) IN
       /\ kind # "in" => peers[c] # <<>>
       /\ kind = "out" => c \notin Mine /\ Member(c, peers[c])
       /\ kind = "in" => c \notin Mine /\ ~Member(c, peers[c])
       /\ peers' = [peers EXCEPT ![c] = After(f)]
       /\ \/ kind # "in" /\ wire' = wire \cup {f}
          \/ /\ kind = "in"
             /\ \E k \in 1 .. opens :
                  wire' = wire \cup {f, Welcome(f, k)}
  /\ UNCHANGED <<running, opens, mls, blob, rows, memory, call, handed, seals, app, excused>>

PeerSend(c) ==
  /\ Spare
  /\ c \in Talk /\ peers[c] # <<>>
  /\ wire' = wire \cup {Published(c, "app")}
  /\ UNCHANGED <<running, opens, mls, blob, rows, memory, call, handed, seals, peers, app, excused>>

\* They apply a commit of ours.
PeersFollow(f) ==
  /\ f \in wire /\ f.kind = "self" /\ f.at = peers[f.c]
  /\ peers' = [peers EXCEPT ![f.c] = After(f)]
  /\ UNCHANGED <<running, opens, mls, blob, rows, memory, call, wire, handed, seals, app, excused>>

-----------------------------------------------------------------------------
Create  == \E c \in Mine : CreateDirect(c) \/ DirectRow(c) \/ CreateGroup(c) \/ InviteToGroup(c)
Operate == \E c \in Convo : ChangeMembers(c) \/ SendContent(c) \/ EncryptForConvo(c)
Handle  == \E f \in wire : HandleCommit(f) \/ HandleMessage(f) \/ HandleEcho(f) \/ HandleWelcome(f)
Finish  == Persist \/ PersistFails \/ Return
Peers   == \/ \E c \in Convo : PeerCommit(c) \/ PeerSend(c)
           \/ \E f \in wire : PeersFollow(f)

Next == Open \/ Create \/ Operate \/ Handle \/ Checkpoint \/ Finish \/ Crash \/ Peers

Spec == Init /\ [][Next]_vars

-----------------------------------------------------------------------------
(* Properties.                                                             *)

\* Every variable stays in its range.
TypeOK ==
  /\ running \in BOOLEAN /\ opens \in Nat
  /\ mls \in Provider /\ blob \in Provider
  /\ rows \in [Convo -> {"none", "untagged", "tagged"}]
  /\ cached \in [Convo -> {"no", "direct", "group"}]
  /\ index \subseteq Convo /\ excused \subseteq Convo
  /\ call \in Call
  /\ wire \cup echo \cup handed \cup surfaced \cup repeated \subseteq Frame
  /\ seals \in Nat /\ peers \in [Convo -> History]

\* A cached conversation has its group in the provider, its row in the store and its
\* tag in the index, whatever failed before: what was evicted or restarted can be
\* loaded again (register_convo, replace_convo and the order of the writes before).
CacheBacked == \A c \in Convo : cached[c] # "no" => Usable(c) /\ Row(c) /\ c \in index

\* Between two calls the checkpoint is the provider, and every group we hold has a row
\* and can be reached by its tag: nothing that peers have seen of us, and no key
\* package a welcome may name, depends on the process staying up.  Except for the
\* conversations touched by a failure.
RestIsDurable ==
  Free =>
    /\ blob.keys = mls.keys /\ opens \in blob.keys
    /\ \A c \in Convo \ excused :
         /\ blob.group[c] = mls.group[c]
         /\ Held(c) => Row(c) /\ c \in index

SameSeal(f, g) == f.c = g.c /\ f.kind = g.kind /\ f.at = g.at /\ f.gen = g.gen

\* No two messages leave us sealed under the same generation, and no two commits for
\* the same epoch, over any number of restarts between calls.
SealsFresh ==
  \A f, g \in {h \in wire \cup handed : h.by = "self" /\ h.c \notin excused} :
    SameSeal(f, g) => f = g

\* The envelopes encrypt_for_convo has handed out are sealed under different
\* generations even if the process crashed in the middle of calls and writes failed:
\* an envelope is handed out only after its checkpoint.
HandoutsFresh == \A f, g \in handed : SameSeal(f, g) => f = g

\* A frame of our own was sealed before group g came to where it is.
Behind(f, g) ==
  /\ g # NoGroup
  /\ Len(f.at) < Len(g.at) \/ (f.kind = "app" /\ f.at = g.at /\ f.gen < g.gen)

\* A peer's message g can no longer open.
Past(f, g) ==
  /\ g # NoGroup
  /\ (f.at = g.at /\ f \in g.got) \/ Len(f.at) < Len(g.at)

\* The message encrypt_for_convo is about to hand out, and the one handle_payload is
\* about to give to the application.
Out   == IF call.op = "encrypt" THEN call.out ELSE {}
Given == IF call.op = "handle"  THEN call.out ELSE {}

\* The key of a message: of our own the generation it is sealed under, whatever it
\* says.  It is used up in a state of the store that would not use it again.
Key(f) == IF f.by = "self" THEN [f EXCEPT !.n = 0] ELSE f

Spent(k, groups) ==
  IF k.by = "self" THEN Behind(k, groups[k.c]) ELSE Past(k, groups[k.c])

Keys == INSTANCE OneTimeKeys WITH
  Used  <- Spent,
  saved <- blob.group,
  inUse <- {Key(f) : f \in Out \cup Given},
  out   <- {Key(f) : f \in handed \cup surfaced}

\* What encrypt_for_convo hands out and what handle_payload gives to the application
\* leaves a call only when the checkpoint has its key as used up, and no call uses a
\* key the checkpoint has so: wherever the process crashes and whichever writes fail.
ImplementsOneTimeKeys == Keys!Spec

\* No message of a peer is given to the application twice, whatever crashed and failed:
\* it is given only after its checkpoint.  And one whose key has been used up has been
\* given, in every conversation no failure has touched.
ExactlyOnce ==
  /\ repeated = {}
  /\ call.pc = "idle" =>
       \A c \in Convo \ excused :
         LET g == IF running THEN mls.group[c] ELSE blob.group[c]
         IN  g # NoGroup => g.got \subseteq surfaced

AtLeast(new, old) ==
  \/ old = NoGroup
  \/ /\ new # NoGroup
     /\ \/ Len(new.at) > Len(old.at)
        \/ new.at = old.at /\ new.gen >= old.gen /\ old.got \subseteq new.got

\* No checkpoint takes a conversation back behind the one before, or drops it, and no
\* key package is forgotten.
CheckpointNeverBack ==
  [][/\ \A c \in Convo : AtLeast(blob'.group[c], blob.group[c])
     /\ blob.keys \subseteq blob'.keys]_vars
=============================================================================
