--------------------------- MODULE Session_proofs ---------------------------
(***************************************************************************)
(* Theorems about Session, for any conversations and any bounds.           *)
(***************************************************************************)
EXTENDS Session, TLAPS

\* The group as it is, in memory or, while the process is down, in the store.
Now(c) == IF running THEN mls.group[c] ELSE blob.group[c]

\* Where a call can be, and what it has already done to its conversation.
CallShape ==
  /\ ~running => call = Idle /\ \A c \in Convo : cached[c] = "no"
  /\ call.pc = "idle" => call = Idle
  /\ call.op = "open" => call.pc \in {"persist", "return"}
  /\ call.pc \in {"row", "invite"} =>
       /\ call.c \in Mine /\ Held(call.c)
       /\ call.pc = "invite" => Row(call.c) /\ mls.group[call.c] = Fresh(<<>>)
       /\ call.op \in {"direct", "group"}
  /\ CacheBacked

\* The provider is never behind the checkpoint.
Grown ==
  running =>
    /\ blob.keys \subseteq mls.keys
    /\ \A c \in Convo : AtLeast(mls.group[c], blob.group[c])

\* What is checkpointed of a conversation no failure has touched, in the middle of a
\* call as well.
Durable ==
  /\ running => opens \in mls.keys
  /\ running => blob.keys = mls.keys \/ (call.op = "open" /\ call.pc = "persist")
  /\ \A c \in Convo \ excused :
       /\ blob.group[c] # NoGroup => Row(c)
       /\ running =>
            /\ c # call.c \/ call.pc \in {"idle", "return"} => blob.group[c] = mls.group[c]
            /\ c # call.c \/ call.pc \notin {"row", "invite"} => (Held(c) => Row(c) /\ c \in index)

\* What has been handed out is behind the checkpoint.
HandedBehind ==
  /\ HandoutsFresh
  /\ \A f \in handed : f.kind = "app" /\ Behind(f, blob.group[f.c])
  /\ \A f \in Out :
       /\ running /\ f.kind = "app" /\ Behind(f, mls.group[f.c])
       /\ call.pc = "return" => Behind(f, blob.group[f.c])
       /\ \A g \in handed \cup Out : SameSeal(f, g) => f = g

\* What the application has been given is past the checkpoint.
GivenPast ==
  /\ repeated = {}
  /\ \A f \in surfaced : Past(f, blob.group[f.c])
  /\ \A f \in Given :
       /\ running /\ Past(f, mls.group[f.c]) /\ f \notin surfaced
       /\ call.pc = "return" => Past(f, blob.group[f.c])

\* What has been used up has been given to the application or is about to be.
UsedUp ==
  \A c \in Convo \ excused :
    Now(c) # NoGroup => Now(c).got \subseteq surfaced \cup (IF call.c = c THEN Given ELSE {})

\* All of our own that has left us or is about to.
Own    == {f \in wire \cup handed \cup Out : f.by = "self"}
Sealed == {f \in Own : f.c \notin excused}

SealedBehind ==
  /\ \A f \in Sealed : f.kind \in {"app", "self"} /\ Behind(f, Now(f.c))
  /\ \A f, g \in Sealed : SameSeal(f, g) => f = g

-----------------------------------------------------------------------------
\* Types of what the actions build.
LEMMA FreshType ==
  ASSUME NEW h \in History
  PROVE  Fresh(h) \in Group /\ Fresh(h) # NoGroup
BY SessionAssumption DEF Fresh, Group

\* The history after a commit is one longer.
LEMMA AfterType ==
  ASSUME NEW f, f.at \in History, f.kind \in CommitKind, f.n \in Nat
  PROVE  After(f) \in History /\ Len(After(f)) = Len(f.at) + 1
BY DEF After, History, Commit

\* The histories a conversation starts with.
LEMMA EmptyType == <<>> \in History /\ Len(<<>>) = 0 /\ Invited \in History
BY DEF History, Invited, Commit, CommitKind

\* SetGroup puts one group into the provider.
LEMMA SetGroupType ==
  ASSUME NEW c \in Convo, NEW g \in Group, mls \in Provider, SetGroup(c, g)
  PROVE  /\ mls' \in Provider /\ mls'.keys = mls.keys
         /\ mls'.group[c] = g /\ g # NoGroup
         /\ \A d \in Convo \ {c} : mls'.group[d] = mls.group[d]
BY SessionAssumption DEF SetGroup, Provider

\* A group that is held is a group.
LEMMA HeldType ==
  ASSUME mls \in Provider, NEW c \in Convo, Held(c)
  PROVE  /\ mls.group[c] \in Group
         /\ mls.group[c].at \in History /\ mls.group[c].gen \in Nat
         /\ mls.group[c].got \subseteq Frame
BY DEF Held, Provider, Group

\* A commit of our own: one frame more, or none, and the group after it.
LEMMA CommitsType ==
  ASSUME TypeOK, NEW c \in Convo, NEW h \in History, Commits(c, h)
  PROVE  \E f \in Frame :
           /\ f.c = c /\ f.by = "self" /\ f.kind = "self" /\ f.at = h
           /\ wire' \in {wire, wire \cup {f}} /\ UNCHANGED <<handed, peers>>
           /\ seals' = seals + 1
           /\ After(f) \in History /\ Len(After(f)) = Len(h) + 1
           /\ SetGroup(c, Fresh(After(f)))
<1> DEFINE f == [c |-> c, by |-> "self", kind |-> "self", at |-> h, gen |-> 0, n |-> seals + 1]
<1>1. f \in Frame
  BY DEF Frame, CommitKind, TypeOK
<1>2. After(f) \in History /\ Len(After(f)) = Len(h) + 1
  BY AfterType, <1>1 DEF TypeOK, CommitKind
<1>3. QED
  BY <1>1, <1>2 DEF Commits

\* A message of our own.
LEMMA SealsType ==
  ASSUME TypeOK, NEW c \in Convo, Seals(c)
  PROVE  /\ Held(c)
         /\ Content(c) \in Frame
         /\ Content(c).c = c /\ Content(c).by = "self" /\ Content(c).kind = "app"
         /\ Content(c).at = mls.group[c].at /\ Content(c).gen = mls.group[c].gen
         /\ seals' = seals + 1
         /\ echo' \subseteq echo \cup {Content(c)}
         /\ \E g \in Group : /\ SetGroup(c, g) /\ g.at = mls.group[c].at
                             /\ g.gen = mls.group[c].gen + 1 /\ g.got = mls.group[c].got
<1>1. Held(c)
  BY DEF Seals, Usable
<1>2. Content(c) \in Frame
  BY <1>1, HeldType DEF Content, Frame, TypeOK
<1>3. [mls.group[c] EXCEPT !.gen = @ + 1] \in Group
  BY <1>1, HeldType DEF Group, TypeOK
<1>4. QED
  BY <1>1, <1>2, <1>3, HeldType DEF Seals, Content, TypeOK, Group

\* What a frame that opens tells of the group.
LEMMA OpensType ==
  ASSUME TypeOK, NEW f \in wire, Opens(f)
  PROVE  /\ f \in Frame /\ f.c \in Convo /\ f.by = "peer" /\ Held(f.c) /\ Routed(f.c)
         /\ f.at = mls.group[f.c].at /\ f.at \in History /\ f.n \in Nat
         /\ f.kind \in CommitKind =>
              /\ After(f) \in History /\ Len(After(f)) = Len(f.at) + 1
<1>1. f \in Frame /\ f.c \in Convo /\ f.at \in History /\ f.n \in Nat
  BY DEF TypeOK, Frame
<1>2. QED
  BY <1>1, AfterType DEF Opens, Routed

\* A commit of a peer, and what it adds to the network.
LEMMA PeerCommitType ==
  ASSUME TypeOK, NEW c \in Convo, PeerCommit(c)
  PROVE  \E kind \in {"peer", "out", "in"}, f \in Frame :
           /\ After(f) \in History /\ f.by = "peer"
           /\ peers' = [peers EXCEPT ![c] = After(f)]
           /\ \A g \in wire' \ wire :
                \/ g = f
                \/ \E k \in Nat : g = Welcome(f, k)
<1>1. PICK kind \in {"peer", "out", "in"} :
        LET f == Published(c, kind) IN
        /\ peers' = [peers EXCEPT ![c] = After(f)]
        /\ \/ kind # "in" /\ wire' = wire \cup {f}
           \/ /\ kind = "in"
              /\ \E k \in 1 .. opens :
                   wire' = wire \cup {f, Welcome(f, k)}
  BY DEF PeerCommit
<1> DEFINE f == Published(c, kind)
<1>2. /\ f \in Frame /\ f.by = "peer"
      /\ f.at \in History /\ f.kind \in CommitKind /\ f.n \in Nat
  BY DEF Published, Frame, CommitKind, TypeOK
<1>3. After(f) \in History
  BY <1>2, AfterType
<1>4. /\ peers' = [peers EXCEPT ![c] = After(f)]
      /\ wire' = wire \cup {f} \/ \E k \in 1 .. opens : wire' = wire \cup {f, Welcome(f, k)}
  BY <1>1
<1> HIDE DEF f
<1>5. \A k \in 1 .. opens : k \in Nat
  OBVIOUS
<1>6. \A g \in wire' \ wire : g = f \/ \E k \in Nat : g = Welcome(f, k)
  BY <1>4, <1>5
<1>7. QED
  BY <1>2, <1>3, <1>4, <1>6

\* A welcome is a frame of its author's.
LEMMA WelcomeType ==
  ASSUME NEW f \in Frame, After(f) \in History, NEW k \in Nat
  PROVE  /\ Welcome(f, k) \in Frame
         /\ Welcome(f, k).by = f.by /\ Welcome(f, k).c = f.c /\ Welcome(f, k).kind = "welcome"
BY DEF Welcome, Frame

\* What a process that ends leaves in memory has the types as well.
LEMMA VanishType ==
  ASSUME TypeOK, Vanish
  PROVE  /\ mls' \in Provider /\ cached' \in [Convo -> {"no", "direct", "group"}]
         /\ echo' = {} /\ index' = {} /\ call' \in Call /\ excused' \subseteq Convo
BY DEF Vanish, NoGroups, Provider, Idle, Call, TypeOK

\* A call that begins is a call.
LEMMA CallingType ==
  ASSUME NEW pc \in {"row", "invite", "persist", "return"},
         NEW op \in {"open", "direct", "group", "commit", "send", "encrypt", "handle", "echo", "other"},
         NEW c \in Convo \cup {NoConvo}, NEW out \in SUBSET Frame
  PROVE  Calling(pc, op, c, out) \in Call
BY DEF Calling, Call

\* So is none.
LEMMA IdleType == Idle \in Call
BY DEF Idle, Call

\* Every step keeps every variable in its range.
LEMMA TypeNext ==
  ASSUME TypeOK, [Next]_vars
  PROVE  TypeOK'
<1> USE SessionAssumption
<1>1. CASE UNCHANGED vars
  BY <1>1 DEF vars, memory, outside, app, TypeOK
<1>2. CASE Open
  <2>1. mls' \in Provider
    <3>1. mls' = [blob EXCEPT !.keys = @ \cup {opens + 1}]
      BY <1>2 DEF Open
    <3>2. QED
      BY <3>1 DEF TypeOK, Provider
  <2>2. call' \in Call /\ index' \subseteq Convo /\ excused' \subseteq Convo
    BY <1>2, CallingType DEF Open, Indexed, TypeOK
  <2>3. QED
    BY <1>2, <2>1, <2>2 DEF Open, TypeOK, outside, app
<1>3. ASSUME NEW c \in Mine, CreateDirect(c) PROVE TypeOK'
  <2>1. /\ call' \in Call /\ excused' \subseteq Convo
        /\ UNCHANGED <<running, opens, blob, rows, memory, app>>
    BY <1>3, CallingType, IdleType DEF CreateDirect, GiveUp, TypeOK
  <2>2. /\ mls' \in Provider /\ wire' \subseteq Frame /\ seals' \in Nat
        /\ UNCHANGED <<handed, peers>>
    <3>1. CASE Commits(c, <<>>)
      <4>1. PICK f \in Frame : /\ wire' \in {wire, wire \cup {f}} /\ UNCHANGED <<handed, peers>>
                               /\ seals' = seals + 1 /\ After(f) \in History
                               /\ SetGroup(c, Fresh(After(f)))
        BY <3>1, CommitsType, EmptyType
      <4>2. QED
        BY <4>1, FreshType, SetGroupType DEF TypeOK
    <3>2. CASE SetGroup(c, Fresh(<<>>)) /\ UNCHANGED outside
      BY <3>2, FreshType, EmptyType, SetGroupType DEF TypeOK, outside
    <3>3. QED
      BY <1>3, <3>1, <3>2 DEF CreateDirect
  <2>3. QED
    BY <2>1, <2>2 DEF TypeOK, memory, app
<1>4. ASSUME NEW c \in Mine, DirectRow(c) PROVE TypeOK'
  BY <1>4, IdleType DEF DirectRow, GiveUp, SaveRow, Register, TypeOK, Call, memory, outside, app
<1>5. ASSUME NEW c \in Mine, CreateGroup(c) PROVE TypeOK'
  <2>1. mls' \in Provider
    BY <1>5, FreshType, EmptyType, SetGroupType DEF CreateGroup, TypeOK
  <2>2. call' \in Call /\ excused' \subseteq Convo
    BY <1>5, CallingType, IdleType DEF CreateGroup, GiveUp, TypeOK
  <2>3. QED
    BY <1>5, <2>1, <2>2 DEF CreateGroup, SaveRow, TypeOK, memory, outside, app
<1>6. ASSUME NEW c \in Mine, InviteToGroup(c) PROVE TypeOK'
  <2>1. /\ mls' \in Provider /\ wire' \subseteq Frame /\ seals' \in Nat
        /\ UNCHANGED <<handed, peers>>
    <3>1. CASE Commits(c, <<>>)
      <4>1. PICK f \in Frame : /\ wire' \in {wire, wire \cup {f}} /\ UNCHANGED <<handed, peers>>
                               /\ seals' = seals + 1 /\ After(f) \in History
                               /\ SetGroup(c, Fresh(After(f)))
        BY <3>1, CommitsType, EmptyType
      <4>2. QED
        BY <4>1, FreshType, SetGroupType DEF TypeOK
    <3>2. CASE UNCHANGED <<mls, outside>>
      BY <3>2 DEF TypeOK, outside
    <3>3. QED
      BY <1>6, <3>1, <3>2 DEF InviteToGroup
  <2>2. /\ call' \in Call /\ excused' \subseteq Convo
        /\ cached' \in [Convo -> {"no", "direct", "group"}]
        /\ index' \subseteq Convo /\ UNCHANGED echo
    BY <1>6, IdleType DEF InviteToGroup, GiveUp, Register, TypeOK, Call, memory
  <2>3. QED
    BY <1>6, <2>1, <2>2 DEF InviteToGroup, TypeOK, app
<1>7. ASSUME NEW c \in Convo, ChangeMembers(c) PROVE TypeOK'
  <2>1. mls.group[c].at \in History
    BY <1>7, HeldType DEF ChangeMembers, Usable, TypeOK
  <2>2. PICK f \in Frame : /\ wire' \in {wire, wire \cup {f}} /\ UNCHANGED <<handed, peers>>
                           /\ seals' = seals + 1 /\ After(f) \in History
                           /\ SetGroup(c, Fresh(After(f)))
    BY <1>7, <2>1, CommitsType DEF ChangeMembers
  <2>3. mls' \in Provider
    BY <2>2, FreshType, SetGroupType DEF TypeOK
  <2>4. call' \in Call
    BY <1>7, CallingType DEF ChangeMembers
  <2>5. QED
    BY <1>7, <2>2, <2>3, <2>4 DEF ChangeMembers, TypeOK, memory, app
<1>8. ASSUME NEW c \in Convo, SendContent(c) \/ EncryptForConvo(c) PROVE TypeOK'
  <2>1. Seals(c)
    BY <1>8 DEF SendContent, EncryptForConvo
  <2>2. /\ mls' \in Provider /\ seals' \in Nat /\ echo' \subseteq Frame
        /\ Content(c) \in Frame
    BY <2>1, SealsType, SetGroupType DEF TypeOK
  <2>3. call' \in Call
    BY <1>8, <2>2, CallingType DEF SendContent, EncryptForConvo
  <2>4. wire' \subseteq Frame
    BY <1>8, <2>2 DEF SendContent, EncryptForConvo, TypeOK
  <2>5. UNCHANGED <<running, opens, blob, rows, cached, index, handed, peers, app, excused>>
    BY <1>8 DEF SendContent, EncryptForConvo
  <2>6. QED
    BY <2>2, <2>3, <2>4, <2>5 DEF TypeOK, app
<1>9. ASSUME NEW f \in wire, HandleCommit(f) PROVE TypeOK'
  <2>1. f.c \in Convo /\ After(f) \in History
    BY <1>9, OpensType DEF HandleCommit
  <2>2. mls' \in Provider
    BY <1>9, <2>1, FreshType, SetGroupType DEF HandleCommit, TypeOK
  <2>3. call' \in Call
    BY <1>9, <2>1, CallingType DEF HandleCommit
  <2>4. QED
    BY <1>9, <2>2, <2>3 DEF HandleCommit, TypeOK, memory, outside, app
<1>10. ASSUME NEW f \in wire, HandleMessage(f) PROVE TypeOK'
  <2>1. f \in Frame /\ f.c \in Convo /\ Held(f.c)
    BY <1>10, OpensType DEF HandleMessage
  <2>2. [mls.group[f.c] EXCEPT !.got = @ \cup {f}] \in Group
    BY <2>1, HeldType DEF TypeOK, Group
  <2>3. mls' \in Provider
    BY <1>10, <2>1, <2>2, SetGroupType DEF HandleMessage, TypeOK
  <2>4. call' \in Call
    BY <1>10, <2>1, CallingType DEF HandleMessage
  <2>5. QED
    BY <1>10, <2>3, <2>4 DEF HandleMessage, TypeOK, memory, outside, app
<1>11. ASSUME NEW f \in wire, HandleEcho(f) PROVE TypeOK'
  <2>1. f.c \in Convo
    BY DEF TypeOK, Frame
  <2>2. call' \in Call
    BY <1>11, <2>1 DEF HandleEcho, Calling, Call
  <2>3. QED
    BY <1>11, <2>2 DEF HandleEcho, TypeOK, memory, outside, app
<1>12. ASSUME NEW f \in wire, HandleWelcome(f) PROVE TypeOK'
  <2>1. f.c \in Convo /\ f.at \in History
    BY DEF TypeOK, Frame
  <2>2. mls' \in Provider
    BY <1>12, <2>1, FreshType, SetGroupType DEF HandleWelcome, TypeOK
  <2>3. call' \in Call
    BY <1>12, <2>1, CallingType DEF HandleWelcome
  <2>4. /\ rows' \in [Convo -> {"none", "untagged", "tagged"}]
        /\ cached' \in [Convo -> {"no", "direct", "group"}]
        /\ index' \subseteq Convo /\ echo' \subseteq Frame /\ excused' \subseteq Convo
    BY <1>12, <2>1 DEF HandleWelcome, SaveRow, Register, ReplaceConvo, TypeOK, memory
  <2>5. QED
    BY <1>12, <2>2, <2>3, <2>4 DEF HandleWelcome, TypeOK, outside, app
<1>13. CASE Checkpoint
  BY <1>13, CallingType DEF Checkpoint, TypeOK, memory, outside, app
<1>14. CASE Persist
  BY <1>14 DEF Persist, TypeOK, Call, memory, outside, app
<1>15. CASE PersistFails
  <2>1. /\ call' \in Call /\ mls' \in Provider /\ cached' \in [Convo -> {"no", "direct", "group"}]
        /\ echo' \subseteq Frame /\ index' \subseteq Convo /\ excused' \subseteq Convo
        /\ running' \in BOOLEAN
    <3>1. CASE Vanish /\ running' = FALSE
      BY <3>1, VanishType
    <3>2. CASE UNCHANGED <<running, mls, memory>> /\ call' = Idle /\ excused' = excused \cup ({call.c} \ {NoConvo})
      BY <3>2, IdleType DEF TypeOK, memory, Call
    <3>3. QED
      BY <1>15, <3>1, <3>2 DEF PersistFails
  <2>2. QED
    BY <1>15, <2>1 DEF PersistFails, TypeOK, outside, app
<1>16. CASE Return
  BY <1>16, IdleType DEF Return, TypeOK, Call, memory
<1>17. CASE Crash
  BY <1>17, VanishType DEF Crash, TypeOK, outside, app
<1>18. ASSUME NEW c \in Convo, PeerCommit(c) PROVE TypeOK'
  <2>1. PICK kind \in {"peer", "out", "in"}, f \in Frame :
          /\ After(f) \in History
          /\ peers' = [peers EXCEPT ![c] = After(f)]
          /\ \A g \in wire' \ wire : g = f \/ \E k \in Nat : g = Welcome(f, k)
    BY <1>18, PeerCommitType
  <2>2. \A g \in wire' \ wire : g \in Frame
    BY <2>1, WelcomeType
  <2>3. wire' \subseteq Frame
    BY <2>2 DEF TypeOK
  <2>4. QED
    BY <1>18, <2>1, <2>3 DEF PeerCommit, TypeOK, memory, app
<1>19. ASSUME NEW c \in Convo, PeerSend(c) PROVE TypeOK'
  <2>1. Published(c, "app") \in Frame
    BY DEF Published, Frame, TypeOK
  <2>2. QED
    BY <1>19, <2>1 DEF PeerSend, TypeOK, memory, app
<1>20. ASSUME NEW f \in wire, PeersFollow(f) PROVE TypeOK'
  <2>1. f.c \in Convo /\ After(f) \in History
    BY <1>20, AfterType DEF TypeOK, Frame, PeersFollow, CommitKind
  <2>2. QED
    BY <1>20, <2>1 DEF PeersFollow, TypeOK, memory, app
<1>21. QED
  BY <1>1, <1>2, <1>3, <1>4, <1>5, <1>6, <1>7, <1>8, <1>9, <1>10, <1>11, <1>12, <1>13, <1>14,
     <1>15, <1>16, <1>17, <1>18, <1>19, <1>20
     DEF Next, Create, Operate, Handle, Finish, Peers

\* Every variable stays in its range.
THEOREM TypeCorrect == Spec => []TypeOK
<1>1. Init => TypeOK
  <2> SUFFICES ASSUME Init PROVE TypeOK
    OBVIOUS
  <2>1. /\ mls \in Provider
        /\ running \in BOOLEAN /\ opens \in Nat /\ seals \in Nat
        /\ cached \in [Convo -> {"no", "direct", "group"}]
        /\ wire = {} /\ echo = {} /\ handed = {} /\ surfaced = {} /\ repeated = {}
        /\ index = {} /\ excused = {} /\ call \in Call
    BY IdleType DEF Init, NoGroups, Provider
  <2>2. Fresh(Invited) \in Group
    BY FreshType, EmptyType
  <2>3. blob \in Provider /\ rows \in [Convo -> {"none", "untagged", "tagged"}]
        /\ peers \in [Convo -> History]
    <3>1. PICK old \in SUBSET Legacy :
            /\ blob  = [NoGroups EXCEPT !.group = [c \in Convo |-> IF c \in old THEN Fresh(Invited) ELSE NoGroup]]
            /\ rows  = [c \in Convo |-> IF c \in old THEN "untagged" ELSE "none"]
            /\ peers = [c \in Convo |-> IF c \in old THEN Invited ELSE <<>>]
      BY DEF Init
    <3>2. [NoGroups EXCEPT !.group = [c \in Convo |-> IF c \in old THEN Fresh(Invited) ELSE NoGroup]]
            = [group |-> [c \in Convo |-> IF c \in old THEN Fresh(Invited) ELSE NoGroup], keys |-> {}]
      BY DEF NoGroups
    <3>3. QED
      BY <2>2, <3>1, <3>2, EmptyType DEF Provider
  <2>4. QED
    BY <2>1, <2>3 DEF TypeOK
<1>2. TypeOK /\ [Next]_vars => TypeOK'
  BY TypeNext
<1>3. QED
  BY <1>1, <1>2, PTL DEF Spec

-----------------------------------------------------------------------------
\* Where calls can be, and that what is cached is backed.

\* A step that changes nothing CallShape speaks of.
LEMMA CallShapeSame ==
  ASSUME CallShape, UNCHANGED <<running, mls, rows, cached, index, call>>
  PROVE  CallShape'
BY DEF CallShape, CacheBacked, Usable, Held, Row

\* A call on c begins: it changes c's group at most, and leaves it held.
LEMMA CallShapeBegin ==
  ASSUME TypeOK, CallShape, Free,
         NEW c \in Convo, NEW g \in Group, SetGroup(c, g),
         NEW pc \in {"persist", "return"}, NEW op, op # "open", call'.pc = pc, call'.op = op,
         UNCHANGED <<running, rows, cached, index>>
  PROVE  CallShape'
<1>1. Held(c)' /\ \A d \in Convo \ {c} : Held(d)' = Held(d)
  BY SetGroupType DEF TypeOK, Held
<1>2. CacheBacked'
  BY <1>1 DEF CallShape, CacheBacked, Usable, Row
<1>3. QED
  BY <1>2 DEF CallShape, Free

\* When everything in memory is gone.
LEMMA CallShapeVanish ==
  ASSUME ~running', Vanish
  PROVE  CallShape'
BY DEF Vanish, CallShape, CacheBacked, Idle

\* A call is where its entry point can be, and what it has built so far is there.
THEOREM CallsInShape == Spec => []CallShape
<1>1. Init => CallShape
  BY DEF Init, CallShape, CacheBacked, Idle
<1>2. TypeOK /\ CallShape /\ [Next]_vars => CallShape'
  <2> SUFFICES ASSUME TypeOK, CallShape, [Next]_vars PROVE CallShape'
    OBVIOUS
  <2>1. CASE UNCHANGED vars
    BY <2>1, CallShapeSame DEF vars, memory
  <2>2. CASE Open
    BY <2>2 DEF Open, Calling, CallShape, CacheBacked
  <2>3. ASSUME NEW c \in Mine, CreateDirect(c) PROVE CallShape'
    <3>0. c \in Convo
      BY SessionAssumption
    <3>1. \E g \in Group : SetGroup(c, g)
      BY <2>3, <3>0, CommitsType, EmptyType, FreshType DEF CreateDirect
    <3>2. Held(c)' /\ \A d \in Convo \ {c} : Held(d)' = Held(d)
      BY <3>0, <3>1, SetGroupType DEF TypeOK, Held
    <3>3. CacheBacked'
      BY <2>3, <3>2 DEF CreateDirect, CallShape, CacheBacked, Usable, Row, memory
    <3>4. running' /\ (call' = Idle \/ call' = Calling("row", "direct", c, {}))
      BY <2>3 DEF CreateDirect, GiveUp, Free
    <3>5. QED
      BY <3>2, <3>3, <3>4 DEF CallShape, Calling, Idle
  <2>4. ASSUME NEW c \in Mine, DirectRow(c) PROVE CallShape'
    <3>1. CASE GiveUp(c) /\ UNCHANGED <<rows, memory>>
      BY <2>4, <3>1 DEF DirectRow, GiveUp, CallShape, CacheBacked, Usable, Held, Row, Idle, memory
    <3>2. CASE SaveRow(c) /\ Register(c, "direct") /\ call' = [call EXCEPT !.pc = "persist"]
      <4>0. c \in Convo
        BY SessionAssumption
      <4>1. Held(c) /\ running
        BY <2>4 DEF DirectRow, CallShape, Idle
      <4>2. CacheBacked'
        BY <2>4, <3>2, <4>0, <4>1
           DEF DirectRow, SaveRow, Register, CallShape, CacheBacked, Usable, Held, Row, TypeOK
      <4>3. call'.pc = "persist" /\ call'.op = call.op /\ running'
        BY <2>4, <3>2, <4>1 DEF DirectRow, TypeOK, Call
      <4>4. QED
        BY <2>4, <4>2, <4>3 DEF CallShape, DirectRow
    <3>3. QED
      BY <2>4, <3>1, <3>2 DEF DirectRow
  <2>5. ASSUME NEW c \in Mine, CreateGroup(c) PROVE CallShape'
    <3>0. c \in Convo
      BY SessionAssumption
    <3>1. Fresh(<<>>) \in Group /\ SetGroup(c, Fresh(<<>>))
      BY <2>5, FreshType, EmptyType DEF CreateGroup
    <3>2. mls'.group[c] = Fresh(<<>>) /\ Held(c)' /\ \A d \in Convo \ {c} : Held(d)' = Held(d)
      BY <3>0, <3>1, SetGroupType DEF TypeOK, Held
    <3>3. /\ rows' = [rows EXCEPT ![c] = "tagged"] \/ rows' = rows
          /\ UNCHANGED <<cached, index>> /\ running'
      BY <2>5 DEF CreateGroup, SaveRow, memory, Free
    <3>4. CacheBacked'
      BY <3>0, <3>2, <3>3 DEF CallShape, CacheBacked, Usable, Row, TypeOK
    <3>5. call' = Idle \/ (call' = Calling("invite", "group", c, {}) /\ Row(c)')
      BY <2>5, <3>0 DEF CreateGroup, GiveUp, SaveRow, Row, TypeOK
    <3>6. QED
      BY <3>2, <3>3, <3>4, <3>5 DEF CallShape, Calling, Idle
  <2>6. ASSUME NEW c \in Mine, InviteToGroup(c) PROVE CallShape'
    <3>0. c \in Convo /\ Held(c) /\ Row(c) /\ running
      BY <2>6, SessionAssumption DEF InviteToGroup, CallShape, Idle
    <3>1. Held(c)' /\ \A d \in Convo \ {c} : Held(d)' = Held(d)
      <4>1. CASE Commits(c, <<>>)
        BY <3>0, <4>1, CommitsType, EmptyType, FreshType, SetGroupType DEF TypeOK, Held
      <4>2. CASE UNCHANGED mls
        BY <3>0, <4>2 DEF Held
      <4>3. QED
        BY <2>6, <4>1, <4>2 DEF InviteToGroup
    <3>2. CacheBacked'
      BY <2>6, <3>0, <3>1
         DEF InviteToGroup, GiveUp, Register, CallShape, CacheBacked, Usable, Row, TypeOK, memory
    <3>3. \/ call' = Idle
          \/ call'.pc = "persist" /\ call'.op = call.op
      BY <2>6 DEF InviteToGroup, GiveUp, TypeOK, Call
    <3>4. running' /\ call.op # "open"
      BY <2>6, <3>0 DEF InviteToGroup, CallShape
    <3>5. QED
      BY <3>2, <3>3, <3>4 DEF CallShape, Idle
  <2>7. ASSUME NEW c \in Convo, ChangeMembers(c) PROVE CallShape'
    <3>1. \E g \in Group : SetGroup(c, g)
      BY <2>7, HeldType, CommitsType, FreshType DEF ChangeMembers, Usable, TypeOK
    <3>2. QED
      BY <2>7, <3>1, CallShapeBegin DEF ChangeMembers, Calling, memory
  <2>8. ASSUME NEW c \in Convo, SendContent(c) \/ EncryptForConvo(c) PROVE CallShape'
    <3>1. \E g \in Group : SetGroup(c, g)
      BY <2>8, SealsType DEF SendContent, EncryptForConvo
    <3>2. QED
      BY <2>8, <3>1, CallShapeBegin DEF SendContent, EncryptForConvo, Calling
  <2>9. ASSUME NEW f \in wire, HandleCommit(f) PROVE CallShape'
    <3>1. f.c \in Convo /\ \E g \in Group : SetGroup(f.c, g)
      BY <2>9, OpensType, FreshType DEF HandleCommit
    <3>2. QED
      BY <2>9, <3>1, CallShapeBegin DEF HandleCommit, Calling, memory
  <2>10. ASSUME NEW f \in wire, HandleMessage(f) PROVE CallShape'
    <3>1. f \in Frame /\ f.c \in Convo /\ Held(f.c)
      BY <2>10, OpensType DEF HandleMessage
    <3>2. [mls.group[f.c] EXCEPT !.got = @ \cup {f}] \in Group
      BY <3>1, HeldType DEF TypeOK, Group
    <3>3. QED
      BY <2>10, <3>1, <3>2, CallShapeBegin DEF HandleMessage, Calling, memory
  <2>11. ASSUME NEW f \in wire, HandleEcho(f) PROVE CallShape'
    <3>1. call'.pc = "persist" /\ call'.op = "echo" /\ running'
      BY <2>11 DEF HandleEcho, Calling, Free
    <3>2. QED
      BY <2>11, <3>1 DEF HandleEcho, CallShape, CacheBacked, Usable, Held, Row, memory
  <2>12. ASSUME NEW f \in wire, HandleWelcome(f) PROVE CallShape'
    <3>1. f.c \in Convo /\ Fresh(f.at) \in Group
      BY FreshType DEF TypeOK, Frame
    <3>2. Held(f.c)' /\ \A d \in Convo \ {f.c} : Held(d)' = Held(d)
      BY <2>12, <3>1, SetGroupType DEF HandleWelcome, TypeOK, Held
    <3>3. CacheBacked'
      BY <2>12, <3>1, <3>2
         DEF HandleWelcome, SaveRow, Register, ReplaceConvo, CallShape, CacheBacked, Usable, Row,
             TypeOK, memory
    <3>4. QED
      BY <2>12, <3>3 DEF HandleWelcome, CallShape, Calling, Free
  <2>13. CASE Checkpoint
    BY <2>13 DEF Checkpoint, Calling, Free, CallShape, CacheBacked, Usable, Held, Row, memory
  <2>14. CASE Persist
    <3>1. call'.pc = "return" /\ call'.op = call.op /\ running'
      BY <2>14 DEF Persist, TypeOK, Call
    <3>2. QED
      BY <2>14, <3>1 DEF Persist, CallShape, CacheBacked, Usable, Held, Row, memory
  <2>15. CASE PersistFails
    <3>1. CASE Vanish /\ running' = FALSE
      BY <3>1, CallShapeVanish
    <3>2. CASE UNCHANGED <<running, mls, memory>> /\ call' = Idle
      BY <2>15, <3>2 DEF PersistFails, CallShape, CacheBacked, Usable, Held, Row, memory, Idle
    <3>3. QED
      BY <2>15, <3>1, <3>2 DEF PersistFails
  <2>16. CASE Return
    BY <2>16 DEF Return, CallShape, CacheBacked, Usable, Held, Row, memory, Idle
  <2>17. CASE Crash
    BY <2>17, CallShapeVanish DEF Crash
  <2>18. ASSUME NEW c \in Convo, PeerCommit(c) \/ PeerSend(c) PROVE CallShape'
    BY <2>18, CallShapeSame DEF PeerCommit, PeerSend, memory
  <2>19. ASSUME NEW f \in wire, PeersFollow(f) PROVE CallShape'
    BY <2>19, CallShapeSame DEF PeersFollow, memory
  <2>20. QED
    BY <2>1, <2>2, <2>3, <2>4, <2>5, <2>6, <2>7, <2>8, <2>9, <2>10, <2>11, <2>12, <2>13, <2>14,
       <2>15, <2>16, <2>17, <2>18, <2>19
       DEF Next, Create, Operate, Handle, Finish, Peers
<1>3. QED
  BY <1>1, <1>2, TypeCorrect, PTL DEF Spec

\* A cached conversation can be loaded again.
THEOREM CacheIsBacked == Spec => []CacheBacked
<1>1. CallShape => CacheBacked
  BY DEF CallShape
<1>2. QED
  BY <1>1, CallsInShape, PTL

-----------------------------------------------------------------------------
\* The provider grows, and the checkpoint behind it.

\* The epoch of a history is a number.
LEMMA HistoryLen ==
  ASSUME NEW h \in History
  PROVE  Len(h) \in Nat
BY DEF History

\* AtLeast is a preorder.
LEMMA AtLeastRefl ==
  ASSUME NEW g \in Group \cup {NoGroup}
  PROVE  AtLeast(g, g)
BY DEF AtLeast, Group

\* What is not behind g is not behind what g is not behind.
LEMMA AtLeastTrans ==
  ASSUME NEW f \in Group \cup {NoGroup}, NEW g \in Group \cup {NoGroup},
         NEW h \in Group \cup {NoGroup}, AtLeast(f, g), AtLeast(g, h)
  PROVE  AtLeast(f, h)
<1>1. CASE h = NoGroup
  BY <1>1 DEF AtLeast
<1>2. CASE h # NoGroup
  <2>1. f \in Group /\ g \in Group /\ f # NoGroup /\ g # NoGroup
    BY <1>2 DEF AtLeast
  <2>2. /\ Len(f.at) \in Nat /\ Len(g.at) \in Nat /\ Len(h.at) \in Nat
        /\ f.gen \in Nat /\ g.gen \in Nat /\ h.gen \in Nat
    BY <1>2, <2>1, HistoryLen DEF Group
  <2>3. CASE f.at = g.at /\ f.gen >= g.gen /\ g.got \subseteq f.got
    BY <1>2, <2>1, <2>2, <2>3 DEF AtLeast
  <2>4. CASE Len(f.at) > Len(g.at)
    <3>1. Len(g.at) >= Len(h.at)
      BY <1>2, <2>2 DEF AtLeast
    <3>2. QED
      BY <2>1, <2>2, <2>4, <3>1 DEF AtLeast
  <2>5. QED
    BY <2>1, <2>3, <2>4 DEF AtLeast
<1>3. QED
  BY <1>1, <1>2

\* The provider grows, changing only conversations the call is about or that are
\* excused from then on.
Growing ==
  /\ mls'.keys = mls.keys
  /\ \A d \in Convo :
       /\ AtLeast(mls'.group[d], mls.group[d])
       /\ \/ mls'.group[d] = mls.group[d]
          \/ d \in excused'
          \/ d = call'.c /\ call'.pc \in {"row", "invite", "persist"}

\* A step that leaves the provider alone lets it grow.
LEMMA GrowingSame ==
  ASSUME TypeOK, UNCHANGED mls
  PROVE  Growing
BY AtLeastRefl DEF Growing, TypeOK, Provider

\* So does one that puts a later group in for a conversation that its call is about.
LEMMA GrowingBy ==
  ASSUME TypeOK, NEW c \in Convo, NEW g \in Group, SetGroup(c, g), AtLeast(g, mls.group[c]),
         c \in excused' \/ (c = call'.c /\ call'.pc \in {"row", "invite", "persist"})
  PROVE  Growing
<1>1. /\ mls'.keys = mls.keys /\ mls'.group[c] = g
      /\ \A d \in Convo \ {c} : mls'.group[d] = mls.group[d]
  BY SetGroupType DEF TypeOK
<1>2. \A d \in Convo : AtLeast(mls.group[d], mls.group[d])
  BY AtLeastRefl DEF TypeOK, Provider
<1>3. QED
  BY <1>1, <1>2 DEF Growing

\* A group just entered is later than any with a shorter history.
LEMMA FreshAtLeast ==
  ASSUME NEW h \in History, NEW g \in Group \cup {NoGroup}, g # NoGroup => Len(h) > Len(g.at)
  PROVE  Fresh(h) \in Group /\ AtLeast(Fresh(h), g)
BY FreshType DEF AtLeast, Fresh

\* While the process is up the provider only grows.
LEMMA ProviderGrows ==
  ASSUME TypeOK, CallShape, Next, running, running'
  PROVE  Growing
<1>0. \A d \in Convo : mls.group[d] \in Group \cup {NoGroup}
  BY DEF TypeOK, Provider
<1>1. ASSUME NEW c \in Mine, CreateDirect(c) PROVE Growing
  <2>0. c \in Convo /\ mls.group[c] = NoGroup
    BY <1>1, SessionAssumption DEF CreateDirect, Unborn, Held
  <2>1. \E g \in Group : SetGroup(c, g)
    BY <1>1, <2>0, CommitsType, EmptyType, FreshType DEF CreateDirect
  <2>2. c \in excused' \/ (c = call'.c /\ call'.pc = "row")
    BY <1>1 DEF CreateDirect, GiveUp, Calling
  <2>3. QED
    BY <2>0, <2>1, <2>2, GrowingBy DEF AtLeast
<1>2. ASSUME NEW c \in Mine, CreateGroup(c) PROVE Growing
  <2>0. c \in Convo /\ mls.group[c] = NoGroup
    BY <1>2, SessionAssumption DEF CreateGroup, Unborn, Held
  <2>1. \E g \in Group : SetGroup(c, g)
    BY <1>2, <2>0, EmptyType, FreshType DEF CreateGroup
  <2>2. c \in excused' \/ (c = call'.c /\ call'.pc = "invite")
    BY <1>2 DEF CreateGroup, GiveUp, Calling
  <2>3. QED
    BY <2>0, <2>1, <2>2, GrowingBy DEF AtLeast
<1>3. ASSUME NEW c \in Mine, InviteToGroup(c) PROVE Growing
  <2>0. c \in Convo /\ mls.group[c] = Fresh(<<>>)
    BY <1>3, SessionAssumption DEF InviteToGroup, CallShape
  <2>1. CASE UNCHANGED mls
    BY <2>1, GrowingSame
  <2>2. CASE Commits(c, <<>>)
    <3>1. PICK h \in History : Len(h) = Len(<<>>) + 1 /\ SetGroup(c, Fresh(h))
      <4>1. \E f \in Frame : /\ After(f) \in History /\ Len(After(f)) = Len(<<>>) + 1
                             /\ SetGroup(c, Fresh(After(f)))
        BY <2>0, <2>2, CommitsType, EmptyType
      <4>2. QED
        BY <4>1
    <3>2. Fresh(h) \in Group /\ AtLeast(Fresh(h), mls.group[c])
      <4>1. mls.group[c].at = <<>>
        BY <2>0 DEF Fresh
      <4>2. Len(h) > Len(mls.group[c].at)
        BY <3>1, <4>1, EmptyType
      <4>3. QED
        BY <1>0, <2>0, <4>2, FreshAtLeast
    <3>3. c \in excused' \/ (c = call'.c /\ call'.pc = "persist")
      BY <1>3 DEF InviteToGroup, GiveUp, TypeOK, Call
    <3>4. QED
      BY <2>0, <3>1, <3>2, <3>3, GrowingBy
  <2>3. QED
    BY <1>3, <2>1, <2>2 DEF InviteToGroup
<1>4. ASSUME NEW c \in Convo, ChangeMembers(c) PROVE Growing
  <2>1. Held(c) /\ mls.group[c].at \in History
    BY <1>4, HeldType DEF ChangeMembers, Usable, TypeOK
  <2>2. PICK h \in History : Len(h) = Len(mls.group[c].at) + 1 /\ SetGroup(c, Fresh(h))
    BY <1>4, <2>1, CommitsType DEF ChangeMembers
  <2>3. Fresh(h) \in Group /\ AtLeast(Fresh(h), mls.group[c])
    <3>1. Len(mls.group[c].at) \in Nat
      BY <2>1, HistoryLen
    <3>2. Len(h) > Len(mls.group[c].at)
      BY <2>2, <3>1, SMTT(30)
    <3>3. QED
      BY <1>0, <3>2, FreshAtLeast
  <2>4. QED
    BY <1>4, <2>2, <2>3, GrowingBy DEF ChangeMembers, Calling
<1>5. ASSUME NEW c \in Convo, SendContent(c) \/ EncryptForConvo(c) PROVE Growing
  <2>1. Held(c) /\ mls.group[c].gen \in Nat
    BY <1>5, SealsType, HeldType DEF SendContent, EncryptForConvo, TypeOK
  <2>2. PICK g \in Group : /\ SetGroup(c, g) /\ g.at = mls.group[c].at
                           /\ g.gen = mls.group[c].gen + 1 /\ g.got = mls.group[c].got
    BY <1>5, SealsType DEF SendContent, EncryptForConvo
  <2>3. AtLeast(g, mls.group[c])
    BY <2>1, <2>2, SessionAssumption DEF AtLeast
  <2>4. QED
    BY <1>5, <2>2, <2>3, GrowingBy DEF SendContent, EncryptForConvo, Calling
<1>6. ASSUME NEW f \in wire, HandleCommit(f) PROVE Growing
  <2>1. /\ f.c \in Convo /\ f.at = mls.group[f.c].at /\ f.at \in History
        /\ After(f) \in History /\ Len(After(f)) = Len(f.at) + 1
    BY <1>6, OpensType DEF HandleCommit
  <2>2. Len(After(f)) > Len(mls.group[f.c].at)
    <3>1. Len(f.at) \in Nat
      BY <2>1, HistoryLen
    <3>2. Len(mls.group[f.c].at) = Len(f.at) /\ Len(After(f)) = Len(f.at) + 1
      BY <2>1
    <3>3. QED
      BY <3>1, <3>2
  <2>3. Fresh(After(f)) \in Group /\ AtLeast(Fresh(After(f)), mls.group[f.c])
    BY <1>0, <2>1, <2>2, FreshAtLeast
  <2>4. QED
    BY <1>6, <2>1, <2>3, GrowingBy DEF HandleCommit, Calling
<1>7. ASSUME NEW f \in wire, HandleMessage(f) PROVE Growing
  <2>1. f \in Frame /\ f.c \in Convo /\ Held(f.c)
    BY <1>7, OpensType DEF HandleMessage
  <2>2. PICK g \in Group : /\ SetGroup(f.c, g) /\ g.at = mls.group[f.c].at
                           /\ g.gen = mls.group[f.c].gen /\ mls.group[f.c].got \subseteq g.got
    <3>1. [mls.group[f.c] EXCEPT !.got = @ \cup {f}] \in Group
      BY <2>1, HeldType DEF TypeOK, Group
    <3>2. QED
      BY <1>7, <2>1, <3>1, HeldType DEF HandleMessage, TypeOK, Group
  <2>3. AtLeast(g, mls.group[f.c])
    BY <2>1, <2>2, HeldType, SessionAssumption DEF AtLeast, TypeOK
  <2>4. QED
    BY <1>7, <2>1, <2>2, <2>3, GrowingBy DEF HandleMessage, Calling
<1>8. ASSUME NEW f \in wire, HandleWelcome(f) PROVE Growing
  <2>1. f.c \in Convo /\ f.at \in History
    BY DEF TypeOK, Frame
  <2>2. Fresh(f.at) \in Group /\ AtLeast(Fresh(f.at), mls.group[f.c])
    BY <1>0, <1>8, <2>1, FreshAtLeast DEF HandleWelcome, Held
  <2>3. QED
    BY <1>8, <2>1, <2>2, GrowingBy DEF HandleWelcome, Calling
<1>9. CASE UNCHANGED mls
  BY <1>9, GrowingSame
<1>10. QED
  BY <1>1, <1>2, <1>3, <1>4, <1>5, <1>6, <1>7, <1>8, <1>9
     DEF Next, Create, Operate, Handle, Finish, Peers, Open, DirectRow, HandleEcho, Checkpoint,
         Persist, PersistFails, Return, Crash, PeerCommit, PeerSend, PeersFollow

\* Only a successful write changes the checkpoint.
LEMMA BlobChange ==
  ASSUME Next
  PROVE  UNCHANGED blob \/ (running /\ running' /\ call.pc = "persist" /\ blob' = mls /\ UNCHANGED mls)
<1>1. CASE Persist
  BY <1>1 DEF Persist
<1>2. ASSUME Create PROVE UNCHANGED blob
  BY <1>2 DEF Create, CreateDirect, DirectRow, CreateGroup, InviteToGroup
<1>3. ASSUME Operate PROVE UNCHANGED blob
  BY <1>3 DEF Operate, ChangeMembers, SendContent, EncryptForConvo
<1>4. ASSUME Handle PROVE UNCHANGED blob
  BY <1>4 DEF Handle, HandleCommit, HandleMessage, HandleEcho, HandleWelcome
<1>5. ASSUME Peers PROVE UNCHANGED blob
  BY <1>5 DEF Peers, PeerCommit, PeerSend, PeersFollow
<1>6. ASSUME Open \/ Checkpoint \/ PersistFails \/ Return \/ Crash PROVE UNCHANGED blob
  BY <1>6 DEF Open, Checkpoint, PersistFails, Return, Crash
<1>7. QED
  BY <1>1, <1>2, <1>3, <1>4, <1>5, <1>6 DEF Next, Finish

\* The process comes up by Open and goes down by losing everything.
LEMMA RunningChange ==
  ASSUME Next, TypeOK
  PROVE  /\ ~running /\ running' => Open
         /\ running /\ ~running' => Vanish /\ (Crash \/ PersistFails)
         /\ ~running /\ ~running' /\ call = Idle =>
              UNCHANGED <<opens, mls, blob, rows, memory, call, handed, seals, app, excused>>
<1>1. ASSUME Create \/ Operate \/ Handle \/ Persist \/ Return \/ Peers \/ Checkpoint
      PROVE  UNCHANGED running
  BY <1>1 DEF Create, Operate, Handle, Peers, CreateDirect, DirectRow, CreateGroup,
       InviteToGroup, ChangeMembers, SendContent, EncryptForConvo, HandleCommit, HandleMessage,
       HandleEcho, HandleWelcome, Checkpoint, Persist, Return, PeerCommit, PeerSend, PeersFollow
<1>2. ASSUME Create \/ Operate \/ Handle \/ Persist \/ Return \/ Checkpoint, call = Idle
      PROVE  running
  BY <1>2 DEF Create, Operate, Handle, CreateDirect, DirectRow, CreateGroup,
       InviteToGroup, ChangeMembers, SendContent, EncryptForConvo, HandleCommit, HandleMessage,
       HandleEcho, HandleWelcome, Checkpoint, Persist, Return, Free, Idle
<1>3. ASSUME Peers
      PROVE  UNCHANGED <<opens, mls, blob, rows, memory, call, handed, seals, app, excused>>
  BY <1>3 DEF Peers, PeerCommit, PeerSend, PeersFollow
<1>4. ASSUME Open PROVE ~running /\ running'
  BY <1>4 DEF Open
<1>5. ASSUME Crash PROVE running /\ ~running' /\ Vanish
  BY <1>5 DEF Crash
<1>6. ASSUME PersistFails PROVE running /\ (UNCHANGED running \/ Vanish)
  BY <1>6 DEF PersistFails
<1>7. QED
  BY <1>1, <1>2, <1>3, <1>4, <1>5, <1>6 DEF Next, Finish

\* The provider is never behind the checkpoint.
THEOREM ProviderAhead == Spec => []Grown
<1>1. Init => Grown
  BY DEF Init, Grown
<1>2. TypeOK /\ CallShape /\ Grown /\ [Next]_vars => Grown'
  <2> SUFFICES ASSUME TypeOK, CallShape, Grown, [Next]_vars PROVE Grown'
    OBVIOUS
  <2>0. \A d \in Convo : /\ mls.group[d] \in Group \cup {NoGroup}
                         /\ blob.group[d] \in Group \cup {NoGroup}
    BY DEF TypeOK, Provider
  <2>1. CASE UNCHANGED vars
    BY <2>1 DEF vars, Grown
  <2>2. CASE Next /\ running /\ running'
    <3>1. Growing
      BY <2>2, ProviderGrows
    <3>2. \A d \in Convo : mls'.group[d] \in Group \cup {NoGroup}
      <4>1. CASE UNCHANGED blob
        BY <2>2, TypeNext DEF TypeOK, Provider
      <4>2. QED
        BY <2>2, TypeNext DEF TypeOK, Provider
    <3>3. CASE UNCHANGED blob
      BY <2>0, <2>2, <3>1, <3>2, <3>3, AtLeastTrans DEF Growing, Grown
    <3>4. CASE blob' = mls /\ UNCHANGED mls
      BY <3>1, <3>4 DEF Growing, Grown
    <3>5. QED
      BY <2>2, <3>3, <3>4, BlobChange
  <2>3. CASE Next /\ ~running'
    BY <2>3 DEF Grown
  <2>4. CASE Next /\ ~running /\ running'
    <3>1. Open
      BY <2>4, RunningChange
    <3>2. mls'.group = blob.group /\ blob.keys \subseteq mls'.keys /\ UNCHANGED blob
      BY <3>1 DEF Open, TypeOK, Provider
    <3>3. QED
      BY <2>0, <3>2, AtLeastRefl DEF Grown
  <2>5. QED
    BY <2>1, <2>2, <2>3, <2>4
<1>3. QED
  BY <1>1, <1>2, TypeCorrect, CallsInShape, PTL DEF Spec

\* No checkpoint takes a conversation back or forgets a key package.
THEOREM NeverBack == Spec => CheckpointNeverBack
<1>1. TypeOK /\ CallShape /\ Grown /\ [Next]_vars =>
        [/\ \A c \in Convo : AtLeast(blob'.group[c], blob.group[c])
         /\ blob.keys \subseteq blob'.keys]_vars
  <2> SUFFICES ASSUME TypeOK, CallShape, Grown, Next
               PROVE  /\ \A c \in Convo : AtLeast(blob'.group[c], blob.group[c])
                      /\ blob.keys \subseteq blob'.keys
    OBVIOUS
  <2>1. CASE UNCHANGED blob
    BY <2>1, AtLeastRefl DEF TypeOK, Provider
  <2>2. CASE running /\ blob' = mls
    BY <2>2 DEF Grown
  <2>3. QED
    BY <2>1, <2>2, BlobChange
<1>2. QED
  BY <1>1, TypeCorrect, CallsInShape, ProviderAhead, PTL DEF Spec, CheckpointNeverBack

-----------------------------------------------------------------------------
\* What is durable between calls.

\* Rows and excuses are never taken back.
LEMMA RowsGrow ==
  ASSUME Next, TypeOK
  PROVE  /\ \A d \in Convo : Row(d) => Row(d)'
         /\ excused \subseteq excused'
<1>1. CASE UNCHANGED <<rows, excused>>
  BY <1>1 DEF Row
<1>2. CASE Open \/ Checkpoint \/ Finish \/ Crash
  <2>1. UNCHANGED rows
    BY <1>2 DEF Open, Checkpoint, Finish, Persist, PersistFails, Return, Crash
  <2>2. excused \subseteq excused'
    BY <1>2 DEF Open, Checkpoint, Finish, Persist, PersistFails, Return, Crash, Vanish, TypeOK
  <2>3. QED
    BY <2>1, <2>2 DEF Row
<1>3. ASSUME Create PROVE (\A d \in Convo : Row(d) => Row(d)') /\ excused \subseteq excused'
  BY <1>3 DEF Create, CreateDirect, DirectRow, CreateGroup, InviteToGroup, SaveRow, GiveUp, Row, TypeOK
<1>4. ASSUME Operate \/ Peers PROVE UNCHANGED <<rows, excused>>
  BY <1>4 DEF Operate, Peers, ChangeMembers, SendContent, EncryptForConvo, PeerCommit, PeerSend, PeersFollow
<1>5. ASSUME Handle PROVE (\A d \in Convo : Row(d) => Row(d)') /\ excused \subseteq excused'
  BY <1>5 DEF Handle, HandleCommit, HandleMessage, HandleEcho, HandleWelcome, SaveRow, Row, TypeOK
<1>6. QED
  BY <1>1, <1>2, <1>3, <1>4, <1>5 DEF Next

\* How a call that is changing the provider goes on.
LEMMA CallGoesOn ==
  ASSUME Next, TypeOK, CallShape, running, running', call.pc \in {"row", "invite", "persist"}
  PROVE  \/ UNCHANGED call /\ Peers
         \/ Persist /\ call' = [call EXCEPT !.pc = "return"]
         \/ call.pc # "persist" /\ call' = [call EXCEPT !.pc = "persist"]
         \/ call.op # "open" /\ call' = Idle /\ (call.c \in Convo => call.c \in excused')
<1>1. ASSUME Peers PROVE UNCHANGED call
  BY <1>1 DEF Peers, PeerCommit, PeerSend, PeersFollow
<1>2. ASSUME Operate \/ Handle \/ Checkpoint PROVE FALSE
  BY <1>2 DEF Operate, Handle, ChangeMembers, SendContent, EncryptForConvo, HandleCommit,
              HandleMessage, HandleEcho, HandleWelcome, Checkpoint, Free
<1>3. ASSUME NEW c \in Mine, CreateDirect(c) \/ CreateGroup(c) PROVE FALSE
  BY <1>3 DEF CreateDirect, CreateGroup, Free
<1>4. ASSUME NEW c \in Mine, DirectRow(c) \/ InviteToGroup(c)
      PROVE  \/ call.pc # "persist" /\ call' = [call EXCEPT !.pc = "persist"]
             \/ call.op # "open" /\ call' = Idle /\ call.c \in excused'
  BY <1>4 DEF DirectRow, InviteToGroup, GiveUp, CallShape
<1>5. ASSUME PersistFails
      PROVE  call.op # "open" /\ call' = Idle /\ (call.c \in Convo => call.c \in excused')
  BY <1>5, SessionAssumption DEF PersistFails
<1>6. ASSUME Open \/ Crash \/ Return PROVE FALSE
  BY <1>6 DEF Open, Crash, Return
<1>7. ASSUME Persist PROVE call' = [call EXCEPT !.pc = "return"]
  BY <1>7 DEF Persist
<1>8. QED
  BY <1>1, <1>2, <1>3, <1>4, <1>5, <1>6, <1>7 DEF Next, Create, Finish

\* A conversation that is held after a step, out of the middle of its creation, can be
\* reached.
LEMMA StaysReachable ==
  ASSUME TypeOK, CallShape, Durable, Next, running, running',
         NEW c \in Convo, c \notin excused', Held(c)',
         c # call'.c \/ call'.pc \notin {"row", "invite"}
  PROVE  Row(c)' /\ c \in index'
<1>0. c \notin excused /\ (Row(c) => Row(c)')
  BY RowsGrow
<1>1. c # call.c \/ call.pc \notin {"row", "invite"} => (Held(c) => Row(c) /\ c \in index)
  BY <1>0 DEF Durable
<1>2. ASSUME NEW d \in Mine, CreateDirect(d) \/ CreateGroup(d) PROVE Row(c)' /\ c \in index'
  <2>1. /\ d \in excused' \/ (d = call'.c /\ call'.pc \in {"row", "invite"})
        /\ UNCHANGED index /\ call.pc = "idle"
    BY <1>2 DEF CreateDirect, CreateGroup, GiveUp, Calling, memory, Free
  <2>2. c # d
    BY <2>1
  <2>3. \E g \in Group : SetGroup(d, g)
    BY <1>2, SessionAssumption, CommitsType, EmptyType, FreshType DEF CreateDirect, CreateGroup
  <2>4. Held(c)
    BY <2>2, <2>3, SessionAssumption, SetGroupType DEF Held, TypeOK
  <2>5. QED
    BY <1>0, <1>1, <2>1, <2>4
<1>3. ASSUME NEW d \in Mine, DirectRow(d) PROVE Row(c)' /\ c \in index'
  <2>1. CASE c = d
    BY <1>3, <2>1 DEF DirectRow, GiveUp, SaveRow, Register, Row, TypeOK
  <2>2. CASE c # d
    BY <1>0, <1>1, <1>3, <2>2 DEF DirectRow, Held, Register, memory
  <2>3. QED
    BY <2>1, <2>2
<1>4. ASSUME NEW d \in Mine, InviteToGroup(d) PROVE Row(c)' /\ c \in index'
  <2>1. CASE c = d
    BY <1>0, <1>4, <2>1 DEF InviteToGroup, GiveUp, Register, CallShape
  <2>2. CASE c # d
    <3>1. Held(c)
      <4>1. CASE UNCHANGED mls
        BY <4>1 DEF Held
      <4>2. CASE Commits(d, <<>>)
        BY <2>2, <4>2, SessionAssumption, CommitsType, EmptyType, FreshType, SetGroupType DEF Held, TypeOK
      <4>3. QED
        BY <1>4, <4>1, <4>2 DEF InviteToGroup
    <3>2. QED
      BY <1>0, <1>1, <1>4, <2>2, <3>1 DEF InviteToGroup, Register, memory
  <2>3. QED
    BY <2>1, <2>2
<1>5. ASSUME NEW d \in Convo, NEW g \in Group, SetGroup(d, g), Held(d), UNCHANGED index, call.pc = "idle"
      PROVE  Row(c)' /\ c \in index'
  <2>1. Held(c)
    BY <1>5, SetGroupType DEF Held, TypeOK
  <2>2. QED
    BY <1>0, <1>1, <1>5, <2>1
<1>6. ASSUME NEW d \in Convo, ChangeMembers(d) PROVE Row(c)' /\ c \in index'
  <2>1. Held(d) /\ UNCHANGED index /\ call.pc = "idle"
    BY <1>6 DEF ChangeMembers, Usable, memory, Free
  <2>2. \E g \in Group : SetGroup(d, g)
    BY <1>6, <2>1, HeldType, CommitsType, FreshType DEF ChangeMembers, TypeOK
  <2>3. QED
    BY <1>5, <2>1, <2>2
<1>7. ASSUME NEW d \in Convo, SendContent(d) \/ EncryptForConvo(d) PROVE Row(c)' /\ c \in index'
  <2>1. Held(d) /\ UNCHANGED index /\ call.pc = "idle" /\ \E g \in Group : SetGroup(d, g)
    BY <1>7, SealsType DEF SendContent, EncryptForConvo, Free
  <2>2. QED
    BY <1>5, <2>1
<1>8. ASSUME NEW f \in wire, HandleCommit(f) PROVE Row(c)' /\ c \in index'
  <2>1. f.c \in Convo /\ Held(f.c) /\ UNCHANGED index /\ call.pc = "idle" /\ \E g \in Group : SetGroup(f.c, g)
    BY <1>8, OpensType, FreshType DEF HandleCommit, memory, Free
  <2>2. QED
    BY <1>5, <2>1
<1>9. ASSUME NEW f \in wire, HandleMessage(f) PROVE Row(c)' /\ c \in index'
  <2>1. f \in Frame /\ f.c \in Convo /\ Held(f.c) /\ UNCHANGED index /\ call.pc = "idle"
    BY <1>9, OpensType DEF HandleMessage, memory, Free
  <2>2. [mls.group[f.c] EXCEPT !.got = @ \cup {f}] \in Group
    BY <2>1, HeldType DEF TypeOK, Group
  <2>3. QED
    BY <1>5, <1>9, <2>1, <2>2 DEF HandleMessage
<1>10. ASSUME NEW f \in wire, HandleWelcome(f) PROVE Row(c)' /\ c \in index'
  <2>1. f.c \in Convo /\ Fresh(f.at) \in Group
    BY FreshType DEF TypeOK, Frame
  <2>2. CASE c = f.c
    BY <1>10, <2>1, <2>2 DEF HandleWelcome, SaveRow, Register, ReplaceConvo, Row, TypeOK
  <2>3. CASE c # f.c
    <3>1. Held(c) /\ call.pc = "idle"
      BY <1>10, <2>1, <2>3, SetGroupType DEF HandleWelcome, Held, TypeOK, Free
    <3>2. QED
      BY <1>0, <1>1, <1>10, <2>3, <3>1 DEF HandleWelcome, Register, ReplaceConvo, memory
  <2>4. QED
    BY <2>2, <2>3
<1>11. ASSUME UNCHANGED <<mls, index>>, call.pc \in {"row", "invite"} => UNCHANGED call
      PROVE  Row(c)' /\ c \in index'
  BY <1>0, <1>1, <1>11 DEF Held
<1>12. ASSUME NEW f \in wire, HandleEcho(f) \/ PeersFollow(f)
       PROVE  UNCHANGED <<mls, index>> /\ (call.pc \in {"row", "invite"} => UNCHANGED call)
  BY <1>12 DEF HandleEcho, PeersFollow, memory, Free
<1>13. ASSUME Checkpoint \/ Persist \/ PersistFails \/ Return
       PROVE  UNCHANGED <<mls, index>> /\ (call.pc \in {"row", "invite"} => UNCHANGED call)
  BY <1>13 DEF Checkpoint, Persist, PersistFails, Return, memory, Free
<1>14. ASSUME NEW d \in Convo, PeerCommit(d) \/ PeerSend(d)
       PROVE  UNCHANGED <<mls, index>> /\ (call.pc \in {"row", "invite"} => UNCHANGED call)
  BY <1>14 DEF PeerCommit, PeerSend, memory
<1>15. ~Open /\ ~Crash
  BY DEF Open, Crash
<1>16. QED
  BY <1>2, <1>3, <1>4, <1>6, <1>7, <1>8, <1>9, <1>10, <1>11, <1>12, <1>13, <1>14, <1>15
     DEF Next, Create, Operate, Handle, Finish, Peers

\* A step while the process is up keeps what is durable durable.
LEMMA DurableRunning ==
  ASSUME TypeOK, CallShape, Durable, Next, running, running'
  PROVE  Durable'
<1>1. Growing
  BY ProviderGrows
<1>2. ~Open
  BY DEF Open
<1>3. UNCHANGED opens
  BY <1>2 DEF Next, Create, Operate, Handle, Finish, Peers, CreateDirect, DirectRow, CreateGroup,
       InviteToGroup, ChangeMembers, SendContent, EncryptForConvo, HandleCommit, HandleMessage,
       HandleEcho, HandleWelcome, Checkpoint, Persist, PersistFails, Return, Crash,
       PeerCommit, PeerSend, PeersFollow
<1>4. opens' \in mls'.keys
  BY <1>1, <1>3 DEF Growing, Durable
<1>5. blob'.keys = mls'.keys \/ (call'.op = "open" /\ call'.pc = "persist")
  <2>1. CASE blob' = mls /\ UNCHANGED mls
    BY <2>1
  <2>2. CASE UNCHANGED blob /\ blob.keys = mls.keys
    BY <1>1, <2>2 DEF Growing
  <2>3. CASE UNCHANGED blob /\ call.op = "open" /\ call.pc = "persist"
    <3>1. CASE Persist
      BY <3>1 DEF Persist
    <3>2. CASE UNCHANGED call
      BY <2>3, <3>2
    <3>3. QED
      BY <2>3, <3>1, <3>2, CallGoesOn
  <2>4. QED
    BY <2>1, <2>2, <2>3, BlobChange DEF Durable
<1>6. ASSUME NEW c \in Convo, c \notin excused'
      PROVE  /\ blob'.group[c] # NoGroup => Row(c)'
             /\ c # call'.c \/ call'.pc \in {"idle", "return"} => blob'.group[c] = mls'.group[c]
             /\ c # call'.c \/ call'.pc \notin {"row", "invite"} =>
                  (Held(c)' => Row(c)' /\ c \in index')
  <2>0. c \notin excused /\ (Row(c) => Row(c)')
    BY <1>6, RowsGrow
  <2>1. blob'.group[c] # NoGroup => Row(c)'
    <3>1. CASE UNCHANGED blob
      BY <2>0, <3>1 DEF Durable
    <3>2. CASE call.pc = "persist" /\ blob' = mls
      BY <2>0, <3>2 DEF Durable, Held
    <3>3. QED
      BY <3>1, <3>2, BlobChange
  <2>2. ASSUME c # call'.c \/ call'.pc \in {"idle", "return"} PROVE blob'.group[c] = mls'.group[c]
    <3>1. mls'.group[c] = mls.group[c]
      BY <1>1, <1>6, <2>2 DEF Growing
    <3>2. CASE blob' = mls
      BY <3>1, <3>2
    <3>3. CASE UNCHANGED blob /\ (c # call.c \/ call.pc \in {"idle", "return"})
      BY <2>0, <3>1, <3>3 DEF Durable
    <3>4. CASE UNCHANGED blob /\ c = call.c /\ call.pc \in {"row", "invite", "persist"}
      <4>1. ~UNCHANGED call
        BY <2>2, <3>4
      <4>2. call' # [call EXCEPT !.pc = "persist"]
        BY <2>2, <3>4 DEF TypeOK, Call
      <4>3. CASE Persist
        BY <3>1, <4>3 DEF Persist
      <4>4. QED
        BY <1>6, <3>4, <4>1, <4>2, <4>3, CallGoesOn
    <3>5. QED
      <4>1. call.pc \in {"idle", "row", "invite", "persist", "return"}
        BY DEF TypeOK, Call
      <4>2. QED
        BY <3>2, <3>3, <3>4, <4>1, BlobChange
  <2>3. QED
    BY <1>6, <2>1, <2>2, StaysReachable
<1>7. QED
  BY <1>4, <1>5, <1>6 DEF Durable

\* What is durable stays so, and what a failure has touched is excused.
THEOREM StaysDurable == Spec => []Durable
<1>1. Init => Durable
  <2> SUFFICES ASSUME Init PROVE Durable
    OBVIOUS
  <2>1. ASSUME NEW c \in Convo, blob.group[c] # NoGroup PROVE Row(c)
    <3>1. PICK old \in SUBSET Legacy :
            /\ blob = [NoGroups EXCEPT !.group = [d \in Convo |-> IF d \in old THEN Fresh(Invited) ELSE NoGroup]]
            /\ rows = [d \in Convo |-> IF d \in old THEN "untagged" ELSE "none"]
      BY DEF Init
    <3>2. blob.group = [d \in Convo |-> IF d \in old THEN Fresh(Invited) ELSE NoGroup]
      BY <3>1 DEF NoGroups
    <3>3. c \in old
      BY <2>1, <3>2
    <3>4. QED
      BY <3>1, <3>3 DEF Row
  <2>2. QED
    BY <2>1 DEF Init, Durable
<1>2. TypeOK /\ CallShape /\ Durable /\ [Next]_vars => Durable'
  <2> SUFFICES ASSUME TypeOK, CallShape, Durable, [Next]_vars PROVE Durable'
    OBVIOUS
  <2>1. CASE UNCHANGED vars
    BY <2>1 DEF vars, memory, Durable, Held, Row
  <2>2. CASE Next /\ running /\ running'
    BY <2>2, DurableRunning
  <2>3. CASE Next /\ ~running'
    <3>1. UNCHANGED blob
      BY <2>3, BlobChange
    <3>2. QED
      BY <2>3, <3>1, RowsGrow DEF Durable
  <2>4. CASE Next /\ ~running /\ running'
    <3>1. Open
      BY <2>4, RunningChange
    <3>2. /\ mls'.group = blob.group /\ opens' \in mls'.keys /\ UNCHANGED <<blob, rows>>
          /\ call'.op = "open" /\ call'.pc = "persist"
      BY <3>1 DEF Open, TypeOK, Provider, Calling
    <3>3. excused \subseteq excused' /\ (index' = Indexed(blob.group) \/ excused' = Convo)
      BY <3>1 DEF Open, TypeOK
    <3>4. ASSUME NEW c \in Convo \ excused', Held(c)' PROVE Row(c)' /\ c \in index'
      <4>1. Row(c) /\ blob.group[c] # NoGroup
        BY <3>2, <3>3, <3>4 DEF Held, Durable
      <4>2. c \in Indexed(blob.group)
        BY <4>1 DEF Indexed, Row, TypeOK
      <4>3. QED
        BY <3>2, <3>3, <3>4, <4>1, <4>2 DEF Row
    <3>5. ASSUME NEW c \in Convo \ excused' PROVE blob'.group[c] # NoGroup => Row(c)'
      BY <3>2, <3>3, <3>5 DEF Durable, Row
    <3>6. QED
      BY <3>2, <3>4, <3>5 DEF Durable
  <2>5. QED
    BY <2>1, <2>2, <2>3, <2>4
<1>3. QED
  BY <1>1, <1>2, TypeCorrect, CallsInShape, PTL DEF Spec

\* Between two calls nothing a peer may have seen depends on the process staying up.
THEOREM RestDurable == Spec => []RestIsDurable
<1>1. CallShape /\ Durable => RestIsDurable
  <2> SUFFICES ASSUME CallShape, Durable, Free PROVE RestIsDurable
    BY DEF RestIsDurable
  <2>1. call.op # "open" /\ running /\ call.pc = "idle"
    BY DEF CallShape, Free, Idle
  <2>2. QED
    BY <2>1 DEF Durable, RestIsDurable
<1>2. QED
  BY <1>1, CallsInShape, StaysDurable, PTL

-----------------------------------------------------------------------------
\* What has left us, and what has been given to the application.

\* A frame stays behind a group that grows.
LEMMA BehindGrows ==
  ASSUME NEW f \in Frame, NEW g \in Group \cup {NoGroup}, NEW h \in Group \cup {NoGroup},
         AtLeast(h, g), Behind(f, g)
  PROVE  Behind(f, h)
<1>1. g \in Group /\ h \in Group /\ h # NoGroup
  BY DEF AtLeast, Behind
<1>2. /\ Len(f.at) \in Nat /\ Len(g.at) \in Nat /\ Len(h.at) \in Nat
      /\ f.gen \in Nat /\ g.gen \in Nat /\ h.gen \in Nat
  BY <1>1, HistoryLen DEF Frame, Group
<1>3. CASE Len(h.at) > Len(g.at)
  <2>1. Len(f.at) <= Len(g.at)
    BY <1>2 DEF Behind
  <2>2. QED
    BY <1>1, <1>2, <1>3, <2>1 DEF Behind
<1>4. CASE h.at = g.at /\ h.gen >= g.gen
  BY <1>1, <1>2, <1>4 DEF Behind
<1>5. QED
  BY <1>1, <1>3, <1>4 DEF AtLeast, Behind

\* A message stays past a group that grows.
LEMMA PastGrows ==
  ASSUME NEW f \in Frame, NEW g \in Group \cup {NoGroup}, NEW h \in Group \cup {NoGroup},
         AtLeast(h, g), Past(f, g)
  PROVE  Past(f, h)
<1>1. g \in Group /\ h \in Group /\ h # NoGroup
  BY DEF AtLeast, Past
<1>2. Len(f.at) \in Nat /\ Len(g.at) \in Nat /\ Len(h.at) \in Nat
  BY <1>1 DEF Frame, Group, History
<1>3. QED
  BY <1>1, <1>2 DEF AtLeast, Past

\* What is sealed at the front of a group is not sealed like what is behind it.
LEMMA FrontIsNew ==
  ASSUME NEW f \in Frame, NEW h \in Frame, NEW g \in Group, Behind(h, g),
         f.at = g.at, f.kind = "app" => f.gen = g.gen
  PROVE  ~SameSeal(f, h)
<1>1. Len(h.at) \in Nat /\ Len(g.at) \in Nat /\ h.gen \in Nat /\ g.gen \in Nat
  BY DEF Frame, Group, History
<1>2. QED
  BY <1>1 DEF Behind, SameSeal

\* The checkpoint only grows.
LEMMA BlobGrows ==
  ASSUME TypeOK, Grown, Next
  PROVE  \A c \in Convo : AtLeast(blob'.group[c], blob.group[c])
<1>1. CASE UNCHANGED blob
  BY <1>1, AtLeastRefl DEF TypeOK, Provider
<1>2. CASE running /\ blob' = mls
  BY <1>2 DEF Grown
<1>3. QED
  BY <1>1, <1>2, BlobChange

\* The steps by which something gets out of a call.
LEMMA CallStep ==
  ASSUME Next, TypeOK, CallShape
  PROVE  \/ UNCHANGED <<running, call, handed, app, mls, blob>>
         \/ /\ Persist /\ call'.op = call.op /\ call'.out = call.out
            /\ call'.c = call.c /\ call'.pc = "return"
         \/ Return
         \/ \E c \in Convo : EncryptForConvo(c)
         \/ \E f \in wire : HandleMessage(f)
         \/ /\ call'.op # "encrypt" /\ (call'.op = "handle" => call'.out = {})
            /\ UNCHANGED <<handed, app>>
            /\ call.op \in {"encrypt", "handle"} /\ call.c \in Convo => call.c \in excused'
            /\ ~Persist
<1>1. CASE Persist
  BY <1>1 DEF Persist, TypeOK, Call
<1>2. CASE Return
  BY <1>2
<1>3. ASSUME Peers PROVE UNCHANGED <<running, call, handed, app, mls, blob>>
  BY <1>3 DEF Peers, PeerCommit, PeerSend, PeersFollow
<1> DEFINE Quiet == /\ call'.op # "encrypt" /\ (call'.op = "handle" => call'.out = {})
                    /\ UNCHANGED <<handed, app>>
                    /\ call.op \in {"encrypt", "handle"} /\ call.c \in Convo => call.c \in excused'
                    /\ ~Persist
<1>4. ASSUME NEW c \in Mine, CreateDirect(c) PROVE Quiet
  <2>1. UNCHANGED handed
    BY <1>4 DEF CreateDirect, Commits, outside
  <2>2. QED
    BY <1>4, <2>1 DEF CreateDirect, GiveUp, Calling, Idle, Free, CallShape, Persist
<1>5. ASSUME NEW c \in Mine, DirectRow(c) PROVE Quiet
  BY <1>5 DEF DirectRow, GiveUp, Idle, CallShape, Persist, TypeOK, Call, outside
<1>6. ASSUME NEW c \in Mine, CreateGroup(c) PROVE Quiet
  BY <1>6 DEF CreateGroup, GiveUp, Calling, Idle, Free, CallShape, Persist, outside
<1>7. ASSUME NEW c \in Mine, InviteToGroup(c) PROVE Quiet
  <2>1. UNCHANGED handed
    BY <1>7 DEF InviteToGroup, Commits, outside
  <2>2. QED
    BY <1>7, <2>1 DEF InviteToGroup, GiveUp, Idle, CallShape, Persist, TypeOK, Call
<1>8. ASSUME NEW c \in Convo, ChangeMembers(c) PROVE Quiet
  BY <1>8 DEF ChangeMembers, Commits, Calling, Free, CallShape, Idle, Persist
<1>9. ASSUME NEW c \in Convo, SendContent(c) PROVE Quiet
  BY <1>9 DEF SendContent, Calling, Free, CallShape, Idle, Persist
<1>10. ASSUME NEW f \in wire, HandleCommit(f) \/ HandleEcho(f) \/ HandleWelcome(f) PROVE Quiet
  BY <1>10 DEF HandleCommit, HandleEcho, HandleWelcome, Calling, Free, CallShape, Idle, Persist, outside
<1>11. ASSUME Checkpoint \/ Open PROVE Quiet
  BY <1>11 DEF Checkpoint, Open, Calling, Free, CallShape, Idle, Persist, outside
<1>12. ASSUME PersistFails PROVE Quiet \/ Persist
  <2>1. /\ call' = Idle /\ UNCHANGED <<handed, app>>
        /\ excused' = excused \cup ({call.c} \ {NoConvo})
    BY <1>12 DEF PersistFails, Vanish, outside
  <2>2. call'.op = "none" /\ (call.c \in Convo => call.c \in excused')
    BY <2>1, SessionAssumption DEF Idle
  <2>3. QED
    BY <2>1, <2>2
<1>13. ASSUME Crash PROVE Quiet \/ Persist
  BY <1>13, SessionAssumption DEF Crash, Vanish, Idle, outside
<1>14. QED
  BY <1>1, <1>2, <1>3, <1>4, <1>5, <1>6, <1>7, <1>8, <1>9, <1>10, <1>11, <1>12, <1>13
     DEF Next, Create, Operate, Handle, Finish

\* What has been handed out stays behind the checkpoint.
THEOREM HandedStaysBehind == Spec => []HandedBehind
<1>1. Init => HandedBehind
  BY DEF Init, HandedBehind, HandoutsFresh, Out, Idle
<1>2. TypeOK /\ CallShape /\ Grown /\ HandedBehind /\ [Next]_vars => HandedBehind'
  <2> SUFFICES ASSUME TypeOK, CallShape, Grown, HandedBehind, [Next]_vars PROVE HandedBehind'
    OBVIOUS
  <2>0. TypeOK'
    BY TypeNext
  <2>1. /\ \A f \in handed \cup Out : f \in Frame /\ f.c \in Convo
        /\ \A c \in Convo : /\ mls.group[c] \in Group \cup {NoGroup}
                            /\ blob.group[c] \in Group \cup {NoGroup}
                            /\ mls'.group[c] \in Group \cup {NoGroup}
                            /\ blob'.group[c] \in Group \cup {NoGroup}
    BY <2>0 DEF TypeOK, Provider, Call, Frame, Out
  <2>2. CASE UNCHANGED <<running, call, handed, app, mls, blob>>
    BY <2>2 DEF HandedBehind, HandoutsFresh, Out
  <2> SUFFICES ASSUME Next PROVE HandedBehind'
    BY <2>2 DEF vars, app
  <2>3. \A f \in handed : f.kind = "app" /\ Behind(f, blob'.group[f.c])
    BY <2>1, BlobGrows, BehindGrows DEF HandedBehind
  <2>4. CASE Persist /\ call'.op = call.op /\ call'.out = call.out /\ call'.pc = "return"
    <3>1. handed' = handed /\ Out' = Out /\ running' /\ blob' = mls /\ mls' = mls
      BY <2>4 DEF Persist, outside, Out
    <3>2. QED
      BY <2>3, <2>4, <3>1 DEF HandedBehind, HandoutsFresh
  <2>5. CASE Return
    <3>1. handed' = handed \cup Out /\ Out' = {} /\ call.pc = "return" /\ blob' = blob
      BY <2>5 DEF Return, Out, Idle
    <3>2. QED
      BY <2>3, <3>1 DEF HandedBehind, HandoutsFresh, SameSeal
  <2>6. ASSUME NEW c \in Convo, EncryptForConvo(c) PROVE HandedBehind'
    <3>1. handed' = handed /\ Out' = {Content(c)} /\ running' /\ call'.pc = "persist" /\ running
      BY <2>6 DEF EncryptForConvo, Calling, Out, Free
    <3>2. /\ Held(c) /\ Content(c) \in Frame /\ Content(c).c = c /\ Content(c).kind = "app"
          /\ Content(c).at = mls.group[c].at /\ Content(c).gen = mls.group[c].gen
      BY <2>6, SealsType DEF EncryptForConvo
    <3>3. PICK g \in Group : /\ SetGroup(c, g) /\ g.at = mls.group[c].at
                             /\ g.gen = mls.group[c].gen + 1
      BY <2>6, SealsType DEF EncryptForConvo
    <3>4. Behind(Content(c), mls'.group[c])
      <4>1. mls'.group[c] = g /\ g # NoGroup /\ mls.group[c].gen \in Nat
        BY <3>2, <3>3, SetGroupType, HeldType DEF TypeOK
      <4>2. QED
        BY <3>2, <3>3, <4>1 DEF Behind
    <3>5. \A h \in handed : ~SameSeal(Content(c), h)
      <4>1. ASSUME NEW h \in handed, SameSeal(Content(c), h) PROVE FALSE
        <5>1. h.c = c
          BY <3>2, <4>1 DEF SameSeal
        <5>2. Behind(h, mls.group[c])
          BY <2>1, <3>1, <5>1, BehindGrows DEF Grown, HandedBehind
        <5>3. mls.group[c] \in Group
          BY <3>2, HeldType DEF TypeOK
        <5>4. QED
          BY <2>1, <3>2, <4>1, <5>2, <5>3, FrontIsNew
      <4>2. QED
        BY <4>1
    <3>6. HandoutsFresh'
      BY <3>1 DEF HandedBehind, HandoutsFresh, SameSeal
    <3>7. \A f \in handed' : f.kind = "app" /\ Behind(f, blob'.group[f.c])
      BY <2>3, <3>1
    <3>8. \A g1 \in handed' \cup Out' : SameSeal(Content(c), g1) => Content(c) = g1
      BY <3>1, <3>5
    <3>9. \A f \in Out' : /\ running' /\ f.kind = "app" /\ Behind(f, mls'.group[f.c])
                          /\ call'.pc = "return" => Behind(f, blob'.group[f.c])
                          /\ \A g1 \in handed' \cup Out' : SameSeal(f, g1) => f = g1
      <4>1. \A f \in Out' : f = Content(c)
        BY <3>1
      <4>2. call'.pc # "return"
        BY <3>1
      <4>3. QED
        BY <3>1, <3>2, <3>4, <3>8, <4>1, <4>2
    <3>10. QED
      BY <3>6, <3>7, <3>9 DEF HandedBehind
  <2>7. ASSUME handed' = handed, Out' = {} PROVE HandedBehind'
    BY <2>3, <2>7 DEF HandedBehind, HandoutsFresh
  <2>8. ASSUME NEW f \in wire, HandleMessage(f) PROVE handed' = handed /\ Out' = {}
    BY <2>8 DEF HandleMessage, outside, Out, Calling
  <2>9. QED
    BY <2>2, <2>4, <2>5, <2>6, <2>7, <2>8, CallStep DEF Out
<1>3. QED
  BY <1>1, <1>2, TypeCorrect, CallsInShape, ProviderAhead, PTL DEF Spec

\* No two envelopes are handed out under one generation, whatever crashes or fails.
THEOREM HandoutsAreFresh == Spec => []HandoutsFresh
<1>1. HandedBehind => HandoutsFresh
  BY DEF HandedBehind
<1>2. QED
  BY <1>1, HandedStaysBehind, PTL

\* What the application has been given stays past the checkpoint.
THEOREM GivenStaysPast == Spec => []GivenPast
<1>1. Init => GivenPast
  BY DEF Init, GivenPast, Given, Idle
<1>2. TypeOK /\ CallShape /\ Grown /\ GivenPast /\ [Next]_vars => GivenPast'
  <2> SUFFICES ASSUME TypeOK, CallShape, Grown, GivenPast, [Next]_vars PROVE GivenPast'
    OBVIOUS
  <2>0. TypeOK'
    BY TypeNext
  <2>1. /\ \A f \in surfaced \cup Given : f \in Frame /\ f.c \in Convo
        /\ \A c \in Convo : /\ mls.group[c] \in Group \cup {NoGroup}
                            /\ blob.group[c] \in Group \cup {NoGroup}
                            /\ mls'.group[c] \in Group \cup {NoGroup}
                            /\ blob'.group[c] \in Group \cup {NoGroup}
    BY <2>0 DEF TypeOK, Provider, Call, Frame, Given
  <2>2. CASE UNCHANGED <<running, call, handed, app, mls, blob>>
    BY <2>2 DEF GivenPast, Given, app
  <2> SUFFICES ASSUME Next PROVE GivenPast'
    BY <2>2 DEF vars, app
  <2>3. \A f \in surfaced : Past(f, blob'.group[f.c])
    BY <2>1, BlobGrows, PastGrows DEF GivenPast
  <2>4. CASE Persist /\ call'.op = call.op /\ call'.out = call.out /\ call'.pc = "return"
    <3>1. UNCHANGED <<surfaced, repeated>> /\ Given' = Given /\ running' /\ blob' = mls /\ mls' = mls
      BY <2>4 DEF Persist, app, Given
    <3>2. QED
      BY <2>3, <2>4, <3>1 DEF GivenPast
  <2>5. CASE Return
    <3>1. /\ surfaced' = surfaced \cup Given /\ repeated' = repeated \cup (Given \cap surfaced)
          /\ Given' = {} /\ call.pc = "return" /\ blob' = blob
      BY <2>5 DEF Return, Given, Idle
    <3>2. QED
      BY <2>3, <3>1 DEF GivenPast
  <2>6. ASSUME NEW f \in wire, HandleMessage(f) PROVE GivenPast'
    <3>1. /\ surfaced' = surfaced /\ repeated' = repeated /\ Given' = {f}
          /\ running /\ running' /\ call'.pc = "persist" /\ f \notin mls.group[f.c].got
      BY <2>6 DEF HandleMessage, app, Calling, Given, Free
    <3>2. /\ f \in Frame /\ f.c \in Convo /\ Held(f.c) /\ f.at = mls.group[f.c].at
          /\ mls.group[f.c] \in Group
      BY <2>6, OpensType, HeldType DEF HandleMessage, TypeOK
    <3>3. [mls.group[f.c] EXCEPT !.got = @ \cup {f}] \in Group
      BY <3>2 DEF Group
    <3>4. PICK g \in Group : SetGroup(f.c, g) /\ g.at = mls.group[f.c].at /\ f \in g.got
      BY <2>6, <3>2, <3>3 DEF HandleMessage, Group
    <3>5. Past(f, mls'.group[f.c])
      BY <3>2, <3>4, SetGroupType DEF Past, TypeOK
    <3>6. f \notin surfaced
      <4>1. SUFFICES ASSUME f \in surfaced PROVE FALSE
        OBVIOUS
      <4>2. Past(f, mls.group[f.c])
        BY <2>1, <3>1, <4>1, PastGrows DEF Grown, GivenPast
      <4>3. Len(f.at) \in Nat
        BY <3>2 DEF Frame, History
      <4>4. ~(Len(f.at) < Len(mls.group[f.c].at))
        BY <3>2, <4>3
      <4>5. QED
        BY <3>1, <4>2, <4>4 DEF Past
    <3>7. \A h \in Given' : /\ running' /\ Past(h, mls'.group[h.c]) /\ h \notin surfaced'
                            /\ call'.pc = "return" => Past(h, blob'.group[h.c])
      <4>1. \A h \in Given' : h = f
        BY <3>1
      <4>2. QED
        BY <3>1, <3>5, <3>6, <4>1
    <3>8. QED
      BY <2>3, <3>1, <3>7 DEF GivenPast
  <2>7. ASSUME UNCHANGED <<surfaced, repeated>>, Given' = {} PROVE GivenPast'
    BY <2>3, <2>7 DEF GivenPast
  <2>8. ASSUME NEW c \in Convo, EncryptForConvo(c) PROVE UNCHANGED <<surfaced, repeated>> /\ Given' = {}
    BY <2>8 DEF EncryptForConvo, app, Given, Calling
  <2>9. QED
    BY <2>2, <2>4, <2>5, <2>6, <2>7, <2>8, CallStep DEF Given, app
<1>3. QED
  BY <1>1, <1>2, TypeCorrect, CallsInShape, ProviderAhead, PTL DEF Spec

\* A message that is handed out is our own, one that is given to the application a peer's.
Authors ==
  /\ \A f \in handed \cup Out : f.by = "self"
  /\ \A f \in surfaced \cup Given : f.by = "peer"

\* Only a successful write changes the checkpoint, so what is given up leaves it alone.
LEMMA OnlyPersistWrites ==
  ASSUME Next
  PROVE  UNCHANGED blob \/ Persist
<1>1. ASSUME Create PROVE UNCHANGED blob
  BY <1>1 DEF Create, CreateDirect, DirectRow, CreateGroup, InviteToGroup
<1>2. ASSUME Operate PROVE UNCHANGED blob
  BY <1>2 DEF Operate, ChangeMembers, SendContent, EncryptForConvo
<1>3. ASSUME Handle PROVE UNCHANGED blob
  BY <1>3 DEF Handle, HandleCommit, HandleMessage, HandleEcho, HandleWelcome
<1>4. ASSUME Peers PROVE UNCHANGED blob
  BY <1>4 DEF Peers, PeerCommit, PeerSend, PeersFollow
<1>5. ASSUME Open \/ Checkpoint \/ PersistFails \/ Return \/ Crash PROVE UNCHANGED blob
  BY <1>5 DEF Open, Checkpoint, PersistFails, Return, Crash
<1>6. QED
  BY <1>1, <1>2, <1>3, <1>4, <1>5 DEF Next, Finish

\* What is handed out stays our own, what is given a peer's.
THEOREM AuthorsStay == Spec => []Authors
<1>1. Init => Authors
  BY DEF Init, Authors, Out, Given, Idle
<1>2. TypeOK /\ CallShape /\ Authors /\ [Next]_vars => Authors'
  <2> SUFFICES ASSUME TypeOK, CallShape, Authors, [Next]_vars PROVE Authors'
    OBVIOUS
  <2>1. CASE UNCHANGED <<running, call, handed, app, mls, blob>>
    BY <2>1 DEF Authors, Out, Given, app
  <2> SUFFICES ASSUME Next PROVE Authors'
    BY <2>1 DEF vars, app
  <2>2. CASE Persist /\ call'.op = call.op /\ call'.out = call.out
    BY <2>2 DEF Persist, outside, app, Authors, Out, Given
  <2>3. CASE Return
    <3>1. /\ handed' = handed \cup Out /\ surfaced' = surfaced \cup Given
          /\ Out' = {} /\ Given' = {}
      BY <2>3 DEF Return, Out, Given, Idle
    <3>2. QED
      BY <3>1 DEF Authors
  <2>4. ASSUME NEW c \in Convo, EncryptForConvo(c) PROVE Authors'
    <3>1. /\ UNCHANGED <<handed, surfaced>> /\ Out' = {Content(c)} /\ Given' = {}
      BY <2>4 DEF EncryptForConvo, app, Calling, Out, Given
    <3>2. Content(c).by = "self"
      BY DEF Content
    <3>3. QED
      BY <3>1, <3>2 DEF Authors
  <2>5. ASSUME NEW f \in wire, HandleMessage(f) PROVE Authors'
    <3>1. UNCHANGED <<handed, surfaced>> /\ Out' = {} /\ Given' = {f} /\ f.by = "peer"
      BY <2>5 DEF HandleMessage, Opens, outside, app, Calling, Out, Given
    <3>2. QED
      BY <3>1 DEF Authors
  <2>6. ASSUME UNCHANGED <<handed, app>>, Out' = {}, Given' = {} PROVE Authors'
    BY <2>6 DEF Authors, app
  <2>7. QED
    BY <2>1, <2>2, <2>3, <2>4, <2>5, <2>6, CallStep DEF Out, Given
<1>3. QED
  BY <1>1, <1>2, TypeCorrect, CallsInShape, PTL DEF Spec

\* The key of a message is used up when the message is behind or past its group.
LEMMA OwnKey ==
  ASSUME NEW f \in Frame, f.by = "self", NEW groups
  PROVE  Spent(Key(f), groups) <=> Behind(f, groups[f.c])
<1>1. /\ Key(f).by = "self" /\ Key(f).c = f.c /\ Key(f).kind = f.kind
      /\ Key(f).at = f.at /\ Key(f).gen = f.gen
  BY DEF Key, Frame
<1>2. QED
  BY <1>1 DEF Spent, Behind

LEMMA PeersKey ==
  ASSUME NEW f \in Frame, f.by = "peer", NEW groups
  PROVE  Spent(Key(f), groups) <=> Past(f, groups[f.c])
BY DEF Key, Spent

\* The abstract store: keys in use, and keys whose result has been given out.
KeysInUse == {Key(f) : f \in Out \cup Given}
KeysOut   == {Key(f) : f \in handed \cup surfaced}

\* The session's steps, in terms of the keys.
LEMMA KeysStep ==
  ASSUME TypeOK, CallShape, Grown, HandedBehind, GivenPast, Authors, [Next]_vars
  PROVE  [Keys!Next]_(Keys!keys)
<1> SUFFICES Keys!Next \/ UNCHANGED <<blob.group, KeysInUse, KeysOut>>
  BY DEF Keys!keys, KeysInUse, KeysOut
<1>0. TypeOK'
  BY TypeNext
<1>1. /\ \A f \in handed \cup Out \cup surfaced \cup Given : f \in Frame /\ f.c \in Convo
      /\ \A c \in Convo : /\ mls.group[c] \in Group \cup {NoGroup}
                          /\ blob.group[c] \in Group \cup {NoGroup}
                          /\ blob'.group[c] \in Group \cup {NoGroup}
  BY <1>0 DEF TypeOK, Provider, Call, Frame, Out, Given
<1>2. CASE UNCHANGED <<running, call, handed, app, mls, blob>>
  BY <1>2 DEF KeysInUse, KeysOut, Out, Given, app
<1> SUFFICES ASSUME Next PROVE Keys!Next \/ UNCHANGED <<blob.group, KeysInUse, KeysOut>>
  BY <1>2 DEF vars, app
<1>3. CASE Persist /\ call'.op = call.op /\ call'.out = call.out
  <2>1. KeysInUse' = KeysInUse /\ KeysOut' = KeysOut
    BY <1>3 DEF Persist, outside, app, KeysInUse, KeysOut, Out, Given
  <2>2. ASSUME NEW f \in handed PROVE Spent(Key(f), blob'.group)
    <3>1. Behind(f, blob'.group[f.c])
      BY <1>1, BlobGrows, BehindGrows DEF HandedBehind
    <3>2. QED
      BY <1>1, <3>1, OwnKey DEF Authors
  <2>3. ASSUME NEW f \in surfaced PROVE Spent(Key(f), blob'.group)
    <3>1. Past(f, blob'.group[f.c])
      BY <1>1, BlobGrows, PastGrows DEF GivenPast
    <3>2. QED
      BY <1>1, <3>1, PeersKey DEF Authors
  <2>4. \A k \in KeysOut : Spent(k, blob'.group)
    BY <2>2, <2>3 DEF KeysOut
  <2>5. Keys!Save
    BY <2>1, <2>4 DEF Keys!Save, KeysInUse, KeysOut
  <2>6. QED
    BY <2>5 DEF Keys!Next
<1>4. CASE Return
  <2>1. /\ handed' = handed \cup Out /\ surfaced' = surfaced \cup Given
        /\ Out' = {} /\ Given' = {} /\ call.pc = "return" /\ blob' = blob
    BY <1>4 DEF Return, Out, Given, Idle
  <2>2. KeysInUse' = {} /\ KeysOut' = KeysOut \cup KeysInUse
    BY <2>1 DEF KeysInUse, KeysOut
  <2>3. ASSUME NEW f \in Out PROVE Spent(Key(f), blob.group)
    BY <1>1, <2>1, OwnKey DEF HandedBehind, Authors
  <2>4. ASSUME NEW f \in Given PROVE Spent(Key(f), blob.group)
    BY <1>1, <2>1, PeersKey DEF GivenPast, Authors
  <2>5. \A k \in KeysInUse : Spent(k, blob.group)
    BY <2>3, <2>4 DEF KeysInUse
  <2>6. CASE KeysInUse = {}
    BY <2>1, <2>2, <2>6
  <2>7. CASE KeysInUse # {}
    <3>1. Keys!GiveOut
      BY <2>1, <2>2, <2>5, <2>7 DEF Keys!GiveOut, KeysInUse, KeysOut
    <3>2. QED
      BY <3>1 DEF Keys!Next
  <2>8. QED
    BY <2>6, <2>7
<1>5. ASSUME UNCHANGED <<blob, handed, surfaced>>, Out \cup Given = {},
             NEW f \in Frame, Out' \cup Given' = {f}, ~Spent(Key(f), blob.group)
      PROVE  Keys!Next
  <2>1. KeysInUse = {} /\ KeysInUse' = {Key(f)} /\ KeysOut' = KeysOut
    BY <1>5 DEF KeysInUse, KeysOut
  <2>2. Keys!UseKey
    BY <1>5, <2>1 DEF Keys!UseKey, KeysInUse, KeysOut
  <2>3. QED
    BY <2>2 DEF Keys!Next
<1>6. ASSUME NEW c \in Convo, EncryptForConvo(c) PROVE Keys!Next
  <2>1. /\ UNCHANGED <<blob, handed, surfaced>> /\ Out \cup Given = {} /\ running
        /\ Out' \cup Given' = {Content(c)}
    BY <1>6 DEF EncryptForConvo, app, Calling, Out, Given, Free, CallShape, Idle
  <2>2. /\ Held(c) /\ Content(c) \in Frame /\ Content(c).c = c /\ Content(c).kind = "app"
        /\ Content(c).by = "self"
        /\ Content(c).at = mls.group[c].at /\ Content(c).gen = mls.group[c].gen
    BY <1>6, SealsType DEF EncryptForConvo
  <2>3. ~Behind(Content(c), mls.group[c])
    <3>1. Len(mls.group[c].at) \in Nat /\ mls.group[c].gen \in Nat
      BY <2>2, HeldType, HistoryLen DEF TypeOK
    <3>2. QED
      BY <2>2, <3>1 DEF Behind
  <2>4. ~Behind(Content(c), blob.group[c])
    BY <1>1, <2>1, <2>2, <2>3, BehindGrows DEF Grown
  <2>5. ~Spent(Key(Content(c)), blob.group)
    BY <2>2, <2>4, OwnKey
  <2>6. QED
    BY <1>5, <2>1, <2>2, <2>5
<1>7. ASSUME NEW f \in wire, HandleMessage(f) PROVE Keys!Next
  <2>1. /\ UNCHANGED <<blob, handed, surfaced>> /\ Out \cup Given = {} /\ running
        /\ Out' \cup Given' = {f} /\ f \notin mls.group[f.c].got
    BY <1>7 DEF HandleMessage, outside, app, Calling, Out, Given, Free, CallShape, Idle
  <2>2. f \in Frame /\ f.c \in Convo /\ f.by = "peer" /\ f.at = mls.group[f.c].at
    BY <1>7, OpensType DEF HandleMessage
  <2>3. ~Past(f, mls.group[f.c])
    <3>1. Len(f.at) \in Nat
      BY <2>2, HistoryLen DEF Frame
    <3>2. QED
      BY <2>1, <2>2, <3>1 DEF Past
  <2>4. ~Past(f, blob.group[f.c])
    BY <1>1, <2>1, <2>2, <2>3, PastGrows DEF Grown
  <2>5. ~Spent(Key(f), blob.group)
    BY <2>2, <2>4, PeersKey
  <2>6. QED
    BY <1>5, <2>1, <2>2, <2>5
<1>8. ASSUME UNCHANGED <<handed, app>>, ~Persist, Out' = {}, Given' = {} PROVE Keys!Next
  <2>1. UNCHANGED blob
    BY <1>8, OnlyPersistWrites
  <2>2. KeysInUse' = {} /\ KeysOut' = KeysOut
    BY <1>8 DEF KeysInUse, KeysOut, app
  <2>3. Keys!Lose
    BY <2>1, <2>2 DEF Keys!Lose, KeysInUse, KeysOut
  <2>4. QED
    BY <2>3 DEF Keys!Next
<1>9. QED
  BY <1>2, <1>3, <1>4, <1>6, <1>7, <1>8, CallStep DEF Out, Given

\* The session implements OneTimeKeys: what is handed out or given to the application
\* leaves a call only when the checkpoint has its key as used up, for every conversation
\* and wherever the process crashes.
THEOREM ImplementsKeys == Spec => ImplementsOneTimeKeys
<1>1. Init => Keys!Init
  BY DEF Init, Keys!Init, Out, Given, Idle
<1>2. /\ TypeOK /\ CallShape /\ Grown /\ HandedBehind /\ GivenPast /\ Authors /\ [Next]_vars
      => [Keys!Next]_(Keys!keys)
  BY KeysStep
<1>3. QED
  BY <1>1, <1>2, TypeCorrect, CallsInShape, ProviderAhead, HandedStaysBehind, GivenStaysPast,
     AuthorsStay, PTL DEF Spec, ImplementsOneTimeKeys, Keys!Spec

\* What OneTimeKeys is about: whatever keeps to it uses no key it has given out.  So
\* neither does the session.
THEOREM KeysServeOnce == Spec => []Keys!OncePerKey
<1> DEFINE saved == blob.group
           inUse == KeysInUse
           out   == KeysOut
<1>1. Keys!Init => Keys!OncePerKey
  BY DEF Keys!Init, Keys!OncePerKey
<1>2. Keys!OncePerKey /\ [Keys!Next]_(Keys!keys) => Keys!OncePerKey'
  <2> SUFFICES ASSUME Keys!OncePerKey, [Keys!Next]_(Keys!keys) PROVE Keys!OncePerKey'
    OBVIOUS
  <2>1. Keys!OncePerKey <=> inUse \cap out = {} /\ \A k \in out : Spent(k, saved)
    BY DEF Keys!OncePerKey, KeysInUse, KeysOut
  <2>2. Keys!OncePerKey' <=> inUse' \cap out' = {} /\ \A k \in out' : Spent(k, saved')
    BY DEF Keys!OncePerKey, KeysInUse, KeysOut
  <2>3. CASE Keys!UseKey
    <3>1. (\A k \in inUse' : ~Spent(k, saved)) /\ saved' = saved /\ out' = out
      BY <2>3 DEF Keys!UseKey, KeysInUse, KeysOut
    <3>2. QED
      BY <2>1, <2>2, <3>1
  <2>4. CASE Keys!Save
    <3>1. (\A k \in out : Spent(k, saved')) /\ inUse' = inUse /\ out' = out
      BY <2>4 DEF Keys!Save, KeysInUse, KeysOut
    <3>2. QED
      BY <2>1, <2>2, <3>1
  <2>5. CASE Keys!GiveOut
    <3>1. (\A k \in inUse : Spent(k, saved)) /\ out' = out \cup inUse /\ inUse' = {} /\ saved' = saved
      BY <2>5 DEF Keys!GiveOut, KeysInUse, KeysOut
    <3>2. QED
      BY <2>1, <2>2, <3>1
  <2>6. CASE Keys!Lose
    <3>1. inUse' = {} /\ saved' = saved /\ out' = out
      BY <2>6 DEF Keys!Lose, KeysInUse, KeysOut
    <3>2. QED
      BY <2>1, <2>2, <3>1
  <2>7. CASE UNCHANGED (Keys!keys)
    <3>1. saved' = saved /\ inUse' = inUse /\ out' = out
      BY <2>7 DEF Keys!keys, KeysInUse, KeysOut
    <3>2. QED
      BY <2>1, <2>2, <3>1
  <2>8. QED
    BY <2>3, <2>4, <2>5, <2>6, <2>7 DEF Keys!Next
<1>3. QED
  BY <1>1, <1>2, ImplementsKeys, PTL DEF ImplementsOneTimeKeys, Keys!Spec

\* Only a message that is handled adds to what has been read in an epoch.
LEMMA ReadOnlyHandled ==
  ASSUME TypeOK, CallShape, Next, running, running', NEW c \in Convo, mls'.group[c] # NoGroup
  PROVE  \/ mls'.group[c].got = {}
         \/ Held(c) /\ mls'.group[c].got = mls.group[c].got
         \/ \E f \in wire : /\ HandleMessage(f) /\ f.c = c /\ Held(c)
                            /\ mls'.group[c].got = mls.group[c].got \cup {f}
<1> DEFINE Kept == \/ mls'.group[c].got = {}
                   \/ Held(c) /\ mls'.group[c].got = mls.group[c].got
<1>1. ASSUME NEW d \in Convo, NEW g \in Group, SetGroup(d, g),
             g.got = {} \/ (Held(d) /\ g.got = mls.group[d].got)
      PROVE  Kept
  BY <1>1, SetGroupType DEF TypeOK, Held
<1>2. \A h : Fresh(h).got = {}
  BY DEF Fresh
<1>3. ASSUME UNCHANGED mls PROVE Kept
  BY <1>3 DEF Held
<1>4. ASSUME NEW d \in Convo, NEW h \in History, Commits(d, h) PROVE Kept
  BY <1>1, <1>2, <1>4, CommitsType, FreshType
<1>5. ASSUME NEW d \in Mine, CreateDirect(d) \/ CreateGroup(d) \/ InviteToGroup(d) PROVE Kept
  BY <1>1, <1>2, <1>3, <1>4, <1>5, SessionAssumption, EmptyType, FreshType
     DEF CreateDirect, CreateGroup, InviteToGroup
<1>6. ASSUME NEW d \in Convo, ChangeMembers(d) PROVE Kept
  BY <1>4, <1>6, HeldType DEF ChangeMembers, Usable, TypeOK
<1>7. ASSUME NEW d \in Convo, SendContent(d) \/ EncryptForConvo(d) PROVE Kept
  BY <1>1, <1>7, SealsType DEF SendContent, EncryptForConvo
<1>8. ASSUME NEW f \in wire, HandleCommit(f) PROVE Kept
  BY <1>1, <1>2, <1>8, OpensType, FreshType DEF HandleCommit
<1>9. ASSUME NEW f \in wire, HandleWelcome(f) PROVE Kept
  <2>1. f.c \in Convo /\ f.at \in History
    BY DEF TypeOK, Frame
  <2>2. QED
    BY <1>1, <1>2, <1>9, <2>1, FreshType DEF HandleWelcome
<1>10. ASSUME NEW f \in wire, HandleMessage(f)
       PROVE  Kept \/ (f.c = c /\ Held(c) /\ mls'.group[c].got = mls.group[c].got \cup {f})
  <2>1. f \in Frame /\ f.c \in Convo /\ Held(f.c)
    BY <1>10, OpensType DEF HandleMessage
  <2>2. [mls.group[f.c] EXCEPT !.got = @ \cup {f}] \in Group
    BY <2>1, HeldType DEF TypeOK, Group
  <2>3. PICK g \in Group : SetGroup(f.c, g) /\ g.got = mls.group[f.c].got \cup {f}
    BY <1>10, <2>1, <2>2, HeldType DEF HandleMessage, TypeOK, Group
  <2>4. QED
    BY <2>1, <2>3, SetGroupType DEF TypeOK, Held
<1> HIDE DEF Kept
<1>11. UNCHANGED mls \/ Kept \/ \E f \in wire : HandleMessage(f)
  BY <1>5, <1>6, <1>7, <1>8, <1>9
     DEF Next, Create, Operate, Handle, Finish, Peers, Open, DirectRow, HandleEcho, Checkpoint,
         Persist, PersistFails, Return, Crash, PeerCommit, PeerSend, PeersFollow
<1>12. QED
  BY <1>3, <1>10, <1>11 DEF Kept

\* What has been used up has been given, or is about to be.
THEOREM StaysUsedUp == Spec => []UsedUp
<1>1. Init => UsedUp
  <2> SUFFICES ASSUME Init, NEW c \in Convo, blob.group[c] # NoGroup PROVE blob.group[c].got = {}
    BY DEF Init, UsedUp, Now
  <2>1. PICK old \in SUBSET Legacy :
          blob = [NoGroups EXCEPT !.group = [d \in Convo |-> IF d \in old THEN Fresh(Invited) ELSE NoGroup]]
    BY DEF Init
  <2>2. blob.group = [d \in Convo |-> IF d \in old THEN Fresh(Invited) ELSE NoGroup]
    BY <2>1 DEF NoGroups
  <2>3. blob.group[c] = Fresh(Invited)
    BY <2>2
  <2>4. QED
    BY <2>3 DEF Fresh
<1>2. TypeOK /\ CallShape /\ Durable /\ UsedUp /\ [Next]_vars => UsedUp'
  <2> SUFFICES ASSUME TypeOK, CallShape, Durable, UsedUp, [Next]_vars,
                      NEW c \in Convo, c \notin excused', Now(c)' # NoGroup
               PROVE  Now(c)'.got \subseteq surfaced' \cup (IF call'.c = c THEN Given' ELSE {})
    BY DEF UsedUp
  <2>1. CASE UNCHANGED vars
    BY <2>1 DEF vars, UsedUp, Now, Given
  <2> SUFFICES ASSUME Next
               PROVE  Now(c)'.got \subseteq surfaced' \cup (IF call'.c = c THEN Given' ELSE {})
    BY <2>1
  <2>2. /\ c \notin excused
        /\ Now(c) # NoGroup => Now(c).got \subseteq surfaced \cup (IF call.c = c THEN Given ELSE {})
    BY RowsGrow DEF UsedUp
  \* What the call was about to give is given, still about to be, or excused.
  <2>3. surfaced \cup (IF call.c = c THEN Given ELSE {})
          \subseteq surfaced' \cup (IF call'.c = c THEN Given' ELSE {})
    <3>1. CASE UNCHANGED <<running, call, handed, app, mls, blob>>
      BY <3>1 DEF Given, app
    <3>2. CASE Persist /\ call'.op = call.op /\ call'.out = call.out /\ call'.c = call.c
      BY <3>2 DEF Persist, Given, app
    <3>3. CASE Return
      BY <3>3 DEF Return, Given
    <3>4. ASSUME NEW d \in Convo, EncryptForConvo(d) PROVE surfaced' = surfaced /\ Given = {}
      BY <3>4 DEF EncryptForConvo, Free, CallShape, Idle, Given, app
    <3>5. ASSUME NEW f \in wire, HandleMessage(f) PROVE surfaced' = surfaced /\ Given = {}
      BY <3>5 DEF HandleMessage, Free, CallShape, Idle, Given, app
    <3>6. CASE UNCHANGED app /\ (call.op \in {"encrypt", "handle"} /\ call.c \in Convo => call.c \in excused')
      BY <3>6 DEF Given, app
    <3>7. QED
      BY <3>1, <3>2, <3>3, <3>4, <3>5, <3>6, CallStep
  <2>4. CASE running /\ running'
    <3>1. Now(c)' = mls'.group[c] /\ Now(c) = mls.group[c]
      BY <2>4 DEF Now
    <3>2. CASE mls'.group[c].got = {}
      BY <3>1, <3>2
    <3>3. CASE Held(c) /\ mls'.group[c].got = mls.group[c].got
      BY <2>2, <2>3, <3>1, <3>3 DEF Held
    <3>4. ASSUME NEW f \in wire, HandleMessage(f), f.c = c, Held(c),
                 mls'.group[c].got = mls.group[c].got \cup {f}
          PROVE  Now(c)'.got \subseteq surfaced' \cup (IF call'.c = c THEN Given' ELSE {})
      <4>1. call'.c = c /\ Given' = {f}
        BY <3>4 DEF HandleMessage, Calling, Given
      <4>2. QED
        BY <2>2, <2>3, <3>1, <3>4, <4>1 DEF Held
    <3>5. QED
      BY <2>4, <3>1, <3>2, <3>3, <3>4, ReadOnlyHandled
  <2>5. CASE running /\ ~running'
    <3>1. UNCHANGED blob /\ (c # call.c \/ call.pc \in {"idle", "return"})
      <4>1. UNCHANGED blob
        BY <2>5, BlobChange
      <4>2. Vanish
        BY <2>5, RunningChange
      <4>3. excused' = excused \cup ({call.c} \ {NoConvo})
        BY <4>2 DEF Vanish
      <4>4. c # NoConvo
        BY SessionAssumption
      <4>5. c # call.c
        BY <4>3, <4>4
      <4>6. QED
        BY <4>1, <4>5
    <3>2. Now(c)' = blob.group[c] /\ Now(c) = mls.group[c] /\ blob.group[c] = mls.group[c]
      BY <2>2, <2>5, <3>1 DEF Now, Durable
    <3>3. QED
      BY <2>2, <2>3, <3>2
  <2>6. CASE ~running
    <3>1. Now(c)' = Now(c)
      <4>1. CASE running'
        BY <2>6, <4>1, RunningChange DEF Open, Now, TypeOK, Provider
      <4>2. CASE ~running'
        BY <2>6, <4>2, BlobChange DEF Now
      <4>3. QED
        BY <4>1, <4>2
    <3>2. QED
      BY <2>2, <2>3, <3>1
  <2>7. QED
    BY <2>4, <2>5, <2>6
<1>3. QED
  BY <1>1, <1>2, TypeCorrect, CallsInShape, StaysDurable, PTL DEF Spec

\* A peer's message is given to the application once, whatever crashes or fails, and not
\* less than once in a conversation no failure has touched.
THEOREM GivenExactlyOnce == Spec => []ExactlyOnce
<1>1. CallShape /\ GivenPast /\ UsedUp => ExactlyOnce
  <2> SUFFICES ASSUME CallShape, GivenPast, UsedUp PROVE ExactlyOnce
    OBVIOUS
  <2>1. call.pc = "idle" => Given = {}
    BY DEF CallShape, Idle, Given
  <2>2. QED
    BY <2>1 DEF UsedUp, Now, GivenPast, ExactlyOnce
<1>2. QED
  BY <1>1, CallsInShape, GivenStaysPast, StaysUsedUp, PTL

\* A message or commit that a step seals is sealed at the front of its group, which is
\* past it afterwards.
Seal(f) ==
  /\ f \in Frame /\ f.c \in Convo /\ f.kind \in {"app", "self"}
  /\ Own' \subseteq Own \cup {f}
  /\ Behind(f, mls'.group[f.c])
  /\ \/ mls.group[f.c] = NoGroup
     \/ f.at = mls.group[f.c].at /\ (f.kind = "app" => f.gen = mls.group[f.c].gen)

\* A commit of our own is sealed at the front.
LEMMA CommitSeals ==
  ASSUME TypeOK, NEW c \in Convo, NEW h \in History, Commits(c, h), Out' = {},
         mls.group[c] = NoGroup \/ mls.group[c].at = h
  PROVE  \E f \in Frame : Seal(f)
<1>1. PICK f \in Frame :
        /\ f.c = c /\ f.by = "self" /\ f.kind = "self" /\ f.at = h
        /\ wire' \in {wire, wire \cup {f}} /\ UNCHANGED handed
        /\ After(f) \in History /\ Len(After(f)) = Len(h) + 1
        /\ SetGroup(c, Fresh(After(f)))
  BY CommitsType
<1>2. mls'.group[c] = Fresh(After(f)) /\ Fresh(After(f)) # NoGroup
  BY <1>1, FreshType, SetGroupType DEF TypeOK
<1>3. Behind(f, mls'.group[c])
  BY <1>1, <1>2 DEF Behind, Fresh, History
<1>4. Own' \subseteq Own \cup {f}
  BY <1>1 DEF Own
<1>5. QED
  BY <1>1, <1>3, <1>4 DEF Seal

\* So is a message of our own.
LEMMA ContentSeals ==
  ASSUME TypeOK, NEW c \in Convo, Seals(c),
         wire' \cup handed' \cup Out' \subseteq wire \cup handed \cup {Content(c)}
  PROVE  \E f \in Frame : Seal(f)
<1>1. /\ Held(c) /\ Content(c) \in Frame /\ Content(c).c = c
      /\ Content(c).kind = "app"
      /\ Content(c).at = mls.group[c].at /\ Content(c).gen = mls.group[c].gen
  BY SealsType
<1>2. PICK g \in Group : SetGroup(c, g) /\ g.at = mls.group[c].at /\ g.gen = mls.group[c].gen + 1
  BY SealsType
<1>3. mls'.group[c] = g /\ g # NoGroup /\ mls.group[c].gen \in Nat
  BY <1>1, <1>2, SetGroupType, HeldType DEF TypeOK
<1>4. Behind(Content(c), mls'.group[c])
  BY <1>1, <1>2, <1>3 DEF Behind
<1>5. Own' \subseteq Own \cup {Content(c)}
  BY DEF Own
<1>6. QED
  BY <1>1, <1>4, <1>5 DEF Seal

\* A step seals nothing, or one frame.
LEMMA SealStep ==
  ASSUME TypeOK, CallShape, Next
  PROVE  Own' \subseteq Own \/ (running /\ running' /\ \E f \in Frame : Seal(f))
<1> DEFINE Goal == Own' \subseteq Own \/ (running /\ running' /\ \E f \in Frame : Seal(f))
<1>1. ASSUME UNCHANGED <<wire, handed>>, Out' \subseteq Out PROVE Goal
  BY <1>1 DEF Own
<1>2. ASSUME NEW c \in Mine, CreateDirect(c) PROVE Goal
  <2>1. c \in Convo /\ mls.group[c] = NoGroup /\ running /\ running' /\ Out' = {}
    BY <1>2, SessionAssumption
       DEF CreateDirect, Unborn, Held, Free, GiveUp, Calling, Idle, Out
  <2>2. CASE Commits(c, <<>>)
    BY <2>1, <2>2, EmptyType, CommitSeals
  <2>3. CASE UNCHANGED outside
    BY <1>1, <2>1, <2>3 DEF outside
  <2>4. QED
    BY <1>2, <2>2, <2>3 DEF CreateDirect
<1>3. ASSUME NEW c \in Mine, InviteToGroup(c) PROVE Goal
  <2>1. /\ c \in Convo /\ mls.group[c] = Fresh(<<>>) /\ Out' = {}
        /\ running /\ running'
    BY <1>3, SessionAssumption
       DEF InviteToGroup, CallShape, GiveUp, Idle, Out, TypeOK, Call
  <2>2. mls.group[c].at = <<>>
    BY <2>1 DEF Fresh
  <2>3. CASE Commits(c, <<>>)
    BY <2>1, <2>2, <2>3, EmptyType, CommitSeals
  <2>4. CASE UNCHANGED outside
    BY <1>1, <2>1, <2>4 DEF outside
  <2>5. QED
    BY <1>3, <2>3, <2>4 DEF InviteToGroup
<1>4. ASSUME NEW c \in Mine, DirectRow(c) \/ CreateGroup(c) PROVE Goal
  <2>1. UNCHANGED <<wire, handed>>
    BY <1>4 DEF DirectRow, CreateGroup, outside
  <2>2. Out' = {}
    BY <1>4 DEF DirectRow, CreateGroup, GiveUp, Calling, Idle, CallShape, Out, TypeOK, Call
  <2>3. QED
    BY <1>1, <2>1, <2>2
<1>5. ASSUME NEW c \in Convo, ChangeMembers(c) PROVE Goal
  <2>1. Out' = {} /\ running /\ running' /\ mls.group[c].at \in History
    BY <1>5, HeldType DEF ChangeMembers, Usable, Calling, Free, Out, TypeOK
  <2>2. QED
    BY <1>5, <2>1, CommitSeals DEF ChangeMembers
<1>6. ASSUME NEW c \in Convo, SendContent(c) \/ EncryptForConvo(c) PROVE Goal
  <2>1. wire' \cup handed' \cup Out' \subseteq wire \cup handed \cup {Content(c)}
    BY <1>6 DEF SendContent, EncryptForConvo, Calling, Out
  <2>2. Seals(c) /\ running /\ running'
    BY <1>6 DEF SendContent, EncryptForConvo, Free
  <2>3. QED
    BY <2>1, <2>2, ContentSeals
<1>7. ASSUME Handle \/ Checkpoint \/ Open \/ Crash \/ PersistFails PROVE Goal
  <2>1. UNCHANGED <<wire, handed>>
    BY <1>7 DEF Handle, HandleCommit, HandleMessage, HandleEcho, HandleWelcome, Checkpoint,
                Open, Crash, PersistFails, outside
  <2>2. call'.op # "encrypt"
    <3>1. CASE Handle
      BY <3>1 DEF Handle, HandleCommit, HandleMessage, HandleEcho, HandleWelcome, Calling
    <3>2. CASE Checkpoint \/ Open
      BY <3>2 DEF Checkpoint, Open, Calling
    <3>3. CASE Crash \/ PersistFails
      BY <3>3 DEF Crash, PersistFails, Vanish, Idle
    <3>4. QED
      BY <1>7, <3>1, <3>2, <3>3
  <2>3. Out' = {}
    BY <2>2 DEF Out
  <2>4. QED
    BY <1>1, <2>1, <2>3
<1>8. ASSUME Persist PROVE Goal
  BY <1>1, <1>8 DEF Persist, outside, Out
<1>9. ASSUME Return PROVE Own' \subseteq Own
  BY <1>9 DEF Return, Out, Idle, Own
<1>10. ASSUME NEW c \in Convo, PeerCommit(c) PROVE Own' \subseteq Own
  <2>1. PICK f \in Frame :
          /\ After(f) \in History /\ f.by = "peer"
          /\ \A g \in wire' \ wire : g = f \/ \E k \in Nat : g = Welcome(f, k)
    BY <1>10, PeerCommitType
  <2>2. \A g \in wire' \ wire : g.by = "peer"
    BY <2>1, WelcomeType
  <2>3. handed' = handed /\ Out' = Out
    BY <1>10 DEF PeerCommit, Out
  <2>4. QED
    BY <2>2, <2>3 DEF Own
<1>11. ASSUME NEW c \in Convo, PeerSend(c) PROVE Own' \subseteq Own
  <2>1. wire' = wire \cup {Published(c, "app")} /\ Published(c, "app").by = "peer"
    BY <1>11 DEF PeerSend, Published
  <2>2. handed' = handed /\ Out' = Out
    BY <1>11 DEF PeerSend, Out
  <2>3. QED
    BY <2>1, <2>2 DEF Own
<1>12. ASSUME NEW f \in wire, PeersFollow(f) PROVE Goal
  BY <1>1, <1>12 DEF PeersFollow, Out
<1>13. QED
  BY <1>2, <1>3, <1>4, <1>5, <1>6, <1>7, <1>8, <1>9, <1>10, <1>11, <1>12
     DEF Next, Create, Operate, Finish, Peers

\* Whatever a step does, a crash included, a conversation no failure touches does not
\* go back.
LEMMA NeverBehind ==
  ASSUME TypeOK, CallShape, Durable, Next, NEW c \in Convo, c \notin excused'
  PROVE  AtLeast(Now(c)', Now(c))
<1>1. c \notin excused /\ Now(c) \in Group \cup {NoGroup}
  BY RowsGrow DEF Now, TypeOK, Provider
<1>2. CASE running /\ running'
  BY <1>2, ProviderGrows DEF Growing, Now
<1>3. CASE running /\ ~running'
  <2>1. UNCHANGED blob
    BY <1>3, BlobChange
  <2>2. excused' = excused \cup ({call.c} \ {NoConvo})
    BY <1>3, RunningChange DEF Vanish
  <2>3. c # call.c
    BY <2>2, SessionAssumption
  <2>4. Now(c)' = blob.group[c] /\ Now(c) = mls.group[c] /\ blob.group[c] = mls.group[c]
    BY <1>1, <1>3, <2>1, <2>3 DEF Now, Durable
  <2>5. QED
    BY <1>1, <2>4, AtLeastRefl
<1>4. CASE ~running
  <2>1. Now(c)' = Now(c)
    <3>1. CASE running'
      BY <1>4, <3>1, RunningChange DEF Open, Now, TypeOK, Provider
    <3>2. CASE ~running'
      BY <1>4, <3>2, BlobChange DEF Now
    <3>3. QED
      BY <3>1, <3>2
  <2>2. QED
    BY <1>1, <2>1, AtLeastRefl
<1>5. QED
  BY <1>2, <1>3, <1>4

\* What we have sealed stays behind its group, across restarts.
THEOREM SealedStaysBehind == Spec => []SealedBehind
<1>1. Init => SealedBehind
  BY DEF Init, SealedBehind, Sealed, Own, Out, Idle
<1>2. TypeOK /\ CallShape /\ Durable /\ SealedBehind /\ [Next]_vars => SealedBehind'
  <2> SUFFICES ASSUME TypeOK, CallShape, Durable, SealedBehind, [Next]_vars PROVE SealedBehind'
    OBVIOUS
  <2>1. CASE UNCHANGED vars
    BY <2>1 DEF vars, SealedBehind, Sealed, Own, Out, Now
  <2> SUFFICES ASSUME Next PROVE SealedBehind'
    BY <2>1
  <2>2. /\ TypeOK'
        /\ \A f \in Sealed \cup Sealed' : f \in Frame /\ f.c \in Convo
        /\ \A c \in Convo : Now(c) \in Group \cup {NoGroup} /\ Now(c)' \in Group \cup {NoGroup}
    <3>1. TypeOK'
      BY TypeNext
    <3>2. \A f \in Sealed \cup Sealed' : f \in Frame
      BY <3>1 DEF Sealed, Own, Out, TypeOK, Call
    <3>3. \A c \in Convo : Now(c) \in Group \cup {NoGroup} /\ Now(c)' \in Group \cup {NoGroup}
      BY <3>1 DEF Now, TypeOK, Provider
    <3>4. QED
      BY <3>1, <3>2, <3>3 DEF Frame
  <2>3. \A f \in Sealed : f.c \notin excused' => Behind(f, Now(f.c)')
    <3> SUFFICES ASSUME NEW f \in Sealed, f.c \notin excused' PROVE Behind(f, Now(f.c)')
      OBVIOUS
    <3>1. AtLeast(Now(f.c)', Now(f.c)) /\ Behind(f, Now(f.c))
      BY <2>2, NeverBehind DEF SealedBehind
    <3>2. f \in Frame /\ Now(f.c) \in Group \cup {NoGroup} /\ Now(f.c)' \in Group \cup {NoGroup}
      BY <2>2
    <3>3. QED
      BY <3>1, <3>2, BehindGrows
  <2>4. CASE Own' \subseteq Own
    <3>1. \A f \in Sealed' : f \in Sealed /\ f.c \notin excused'
      BY <2>4, RowsGrow DEF Sealed
    <3>2. QED
      BY <2>3, <3>1 DEF SealedBehind
  <2>5. ASSUME running, running', NEW f \in Frame, Seal(f) PROVE SealedBehind'
    <3>1. \A h \in Sealed' : h.c \notin excused' /\ (h = f \/ h \in Sealed)
      BY <2>5, RowsGrow DEF Sealed, Seal
    <3>2. f.kind \in {"app", "self"} /\ Behind(f, Now(f.c)')
      BY <2>5 DEF Seal, Now
    <3>3. \A h \in Sealed : ~SameSeal(f, h)
      <4> SUFFICES ASSUME NEW h \in Sealed, SameSeal(f, h) PROVE FALSE
        OBVIOUS
      <4>1. h.c = f.c /\ h \in Frame
        BY <2>2 DEF SameSeal
      <4>2. Behind(h, mls.group[f.c])
        BY <2>5, <4>1 DEF SealedBehind, Now
      <4>3. mls.group[f.c] # NoGroup /\ f.c \in Convo
        BY <2>5, <4>2 DEF Behind, Seal
      <4>4. mls.group[f.c] \in Group /\ f.at = mls.group[f.c].at
        BY <2>5, <4>3, HeldType DEF TypeOK, Held, Seal
      <4>5. f.kind = "app" => f.gen = mls.group[f.c].gen
        BY <2>5, <4>3 DEF Seal
      <4>6. QED
        BY <4>1, <4>2, <4>4, <4>5, FrontIsNew
    <3>4. \A h \in Sealed' : h.kind \in {"app", "self"} /\ Behind(h, Now(h.c)')
      BY <2>3, <3>1, <3>2 DEF SealedBehind
    <3>5. \A h \in Sealed : SameSeal(h, f) => SameSeal(f, h)
      BY DEF SameSeal
    <3>6. \A h, k \in Sealed' : SameSeal(h, k) => h = k
      BY <3>1, <3>3, <3>5 DEF SealedBehind
    <3>7. QED
      BY <3>4, <3>6 DEF SealedBehind
  <2>6. QED
    BY <2>4, <2>5, SealStep
<1>3. QED
  BY <1>1, <1>2, TypeCorrect, CallsInShape, StaysDurable, PTL DEF Spec

\* Nothing we publish or hand out is sealed under a generation, or for an epoch, used
\* before, over any number of restarts between calls.
THEOREM SealsAreFresh == Spec => []SealsFresh
<1>1. SealedBehind => SealsFresh
  BY DEF SealedBehind, Sealed, Own, SealsFresh
<1>2. QED
  BY <1>1, SealedStaysBehind, PTL
=============================================================================
