-------------------------- MODULE Contacts_proofs ---------------------------
(***************************************************************************)
(* Theorems about contact cards, for any number of people and of openings. *)
(***************************************************************************)
EXTENDS Contacts, TLAPS

\* TypeOK, and a client being opened has a package left to generate.
Typed ==
  /\ TypeOK
  /\ \A p \in People : at[p] \in {"publish", "register"} => opens[p] < MaxOpens

\* What a client has captured is its own; once it is up, it is in its store and the
\* server has nothing newer of it.
Owned ==
  \A p \in People :
    /\ own[p].package # None => own[p].package[1] = p
    /\ at[p] \in {"submit", "persist", "up"} => own[p].package # None
    /\ at[p] \in {"persist", "up"} => directory.newest[p] = own[p].package
    /\ at[p] = "up" => own[p].package \in store[p]

\* Cards are exported whole, by a client whose package is in its store.
Genuinely ==
  \A c \in cards :
    /\ c.account = c.payload[1] /\ c.signed = c.payload
    /\ c.payload \in store[c.payload[1]]

\* What is cached came off a card, with both halves of it.
Cached ==
  \A p, q \in People :
    /\ q \in accounts[p] => packages[p][q] # None
    /\ packages[p][q] # None => /\ q \in accounts[p] /\ packages[p][q][1] = q
                                /\ packages[p][q] \in store[q]

\* An invitation that is sure is by a package in the store.
Sure == \A w \in welcomes : w.sure => w.package \in store[w.to]

IInv == Typed /\ Owned /\ Genuinely /\ Cached /\ Sure

-----------------------------------------------------------------------------
\* A card that passes says what its person has published.
LEMMA AcceptedIs ==
  ASSUME Typed, Genuinely, NEW c \in Incoming, BundleOk(c), PublicationOk(c)
  PROVE  /\ c.account \in People /\ c.device = c.account /\ c.payload \in Package
         /\ c.payload # None /\ c.payload[1] = c.device /\ c.payload \in store[c.device]
<1>1. PICK i, k, s, b \in cards :
        c = [account |-> i.account, device |-> i.device, payload |-> k.payload,
             signed |-> s.signed, bundle |-> b.bundle]
  BY DEF Incoming
<1>2. c.account = i.account /\ c.device = i.device /\ c.payload = k.payload /\ c.signed = s.signed
  BY <1>1
<1>3. c.device = c.account /\ c.payload = s.payload /\ c.payload[1] = c.device
  BY <1>2 DEF BundleOk, PublicationOk, Genuinely
<1>4. c.account \in People /\ c.payload \in Package
  BY <1>2 DEF Typed, TypeOK
<1>5. c.payload \in store[c.device]
  BY <1>2, <1>3 DEF Genuinely
<1>6. c.payload # None
  BY <1>4, ContactsAssumption DEF Package
<1>7. QED
  BY <1>3, <1>4, <1>5, <1>6

\* What a bundle sent or captured changes.
LEMMA BundleAt ==
  ASSUME TypeOK, NEW p \in People
  PROVE  LET d == [directory EXCEPT !.bundles = @ \cup {p}]
             o == [own EXCEPT ![p].bundle = TRUE] IN
         /\ d \in [bundles : SUBSET People, newest : [People -> Package \cup {None}]]
         /\ d.newest = directory.newest
         /\ o \in [People -> [bundle : BOOLEAN, package : Package \cup {None}]]
         /\ \A q \in People : o[q].package = own[q].package
<1>1. /\ directory \in [bundles : SUBSET People, newest : [People -> Package \cup {None}]]
      /\ own \in [People -> [bundle : BOOLEAN, package : Package \cup {None}]]
  BY DEF TypeOK
<1>2. DEFINE d == [directory EXCEPT !.bundles = @ \cup {p}]
             o == [own EXCEPT ![p].bundle = TRUE]
<1>3. d \in [bundles : SUBSET People, newest : [People -> Package \cup {None}]]
  BY <1>1
<1>4. d.newest = directory.newest
  BY <1>1
<1>5. o \in [People -> [bundle : BOOLEAN, package : Package \cup {None}]]
  BY <1>1
<1>6. \A q \in People : o[q].package = own[q].package
  BY <1>1
<1>7. QED
  BY <1>3, <1>4, <1>5, <1>6

\* A client that is gone leaves nothing in memory.
LEMMA GoneIs ==
  ASSUME IInv, NEW p \in People, NEW place \in {"down", "null"}, Gone(p, place)
  PROVE  /\ at' \in [People -> {"down", "null", "publish", "register", "submit", "persist", "up"}]
         /\ own' \in [People -> [bundle : BOOLEAN, package : Package \cup {None}]]
         /\ accounts' \in [People -> SUBSET People]
         /\ packages' \in [People -> [People -> Package \cup {None}]]
         /\ at'[p] = place /\ own'[p].package = None /\ accounts'[p] = {} /\ packages'[p] = NoCache
         /\ \A q \in People \ {p} : /\ at'[q] = at[q] /\ own'[q] = own[q]
                                    /\ accounts'[q] = accounts[q] /\ packages'[q] = packages[q]
BY DEF IInv, Typed, TypeOK, Gone, Nothing, NoCache

\* So nothing that was true of the others, of the cards and of the invitations is lost,
\* whatever the server has of it.
LEMMA GoneKeeps ==
  ASSUME IInv, NEW p \in People, NEW place \in {"down", "null"}, Gone(p, place),
         UNCHANGED <<store, cards, welcomes>>,
         opens' = opens,
         \/ directory' = directory
         \/ directory' = [directory EXCEPT !.bundles = @ \cup {p}]
         \/ own[p].package # None /\ directory' = [directory EXCEPT !.newest[p] = own[p].package]
  PROVE  IInv'
<1>0. /\ at' \in [People -> {"down", "null", "publish", "register", "submit", "persist", "up"}]
      /\ own' \in [People -> [bundle : BOOLEAN, package : Package \cup {None}]]
      /\ accounts' \in [People -> SUBSET People]
      /\ packages' \in [People -> [People -> Package \cup {None}]]
      /\ at'[p] = place /\ own'[p].package = None /\ accounts'[p] = {} /\ packages'[p] = NoCache
      /\ \A q \in People \ {p} : /\ at'[q] = at[q] /\ own'[q] = own[q]
                                 /\ accounts'[q] = accounts[q] /\ packages'[q] = packages[q]
  BY GoneIs
<1>1. /\ directory' \in [bundles : SUBSET People, newest : [People -> Package \cup {None}]]
      /\ \A q \in People \ {p} : directory'.newest[q] = directory.newest[q]
  <2>1. CASE directory' = [directory EXCEPT !.bundles = @ \cup {p}]
    BY <2>1, BundleAt DEF IInv, Typed
  <2>2. CASE own[p].package # None /\ directory' = [directory EXCEPT !.newest[p] = own[p].package]
    BY <2>2 DEF IInv, Typed, TypeOK
  <2>3. QED
    BY <2>1, <2>2 DEF IInv, Typed, TypeOK
<1>2. Typed'
  <2>1. /\ opens' \in [People -> 0 .. MaxOpens] /\ store' \in [People -> SUBSET Package]
        /\ cards' \subseteq [account : People, device : People, payload : Package,
                            signed : Package, bundle : People]
        /\ welcomes' \subseteq [to : People, package : Package, sure : BOOLEAN]
    BY DEF IInv, Typed, TypeOK
  <2>2. \A q \in People : at'[q] # "up" => accounts'[q] = {} /\ packages'[q] = NoCache
    BY <1>0 DEF IInv, Typed, TypeOK
  <2>3. \A q \in People : at'[q] \in {"publish", "register"} => opens'[q] < MaxOpens
    BY <1>0 DEF IInv, Typed
  <2>4. NoCache' = NoCache
    BY DEF NoCache
  <2>5. QED
    BY <1>0, <1>1, <2>1, <2>2, <2>3, <2>4 DEF Typed, TypeOK
<1>3. Owned'
  BY <1>0, <1>1 DEF IInv, Owned
<1>4. Genuinely' /\ Sure'
  BY DEF IInv, Genuinely, Sure
<1>5. Cached'
  <2> SUFFICES ASSUME NEW r \in People, NEW q \in People
               PROVE  /\ q \in accounts'[r] => packages'[r][q] # None
                      /\ packages'[r][q] # None => /\ q \in accounts'[r] /\ packages'[r][q][1] = q
                                                   /\ packages'[r][q] \in store'[q]
    BY DEF Cached
  <2>1. CASE r = p
    BY <2>1, <1>0 DEF NoCache
  <2>2. CASE r # p
    <3>1. accounts'[r] = accounts[r] /\ packages'[r] = packages[r] /\ store' = store
      BY <2>2, <1>0
    <3>2. QED
      BY <3>1 DEF IInv, Cached
  <2>3. QED
    BY <2>1, <2>2
<1>6. QED
  BY <1>2, <1>3, <1>4, <1>5 DEF IInv

-----------------------------------------------------------------------------
LEMMA Initially == Init => IInv
BY ContactsAssumption DEF Init, IInv, Typed, TypeOK, Owned, Genuinely, Cached, Sure, Nothing, NoCache

LEMMA Inductive == IInv /\ [Next]_vars => IInv'
<1> SUFFICES ASSUME IInv, [Next]_vars PROVE IInv'
  OBVIOUS
<1>1. CASE UNCHANGED vars
  BY <1>1 DEF vars, object, IInv, Typed, TypeOK, Owned, Genuinely, Cached, Sure
<1>2. ASSUME NEW p \in People, StartOpen(p) PROVE IInv'
  BY <1>2 DEF StartOpen, Goes, object, IInv, Typed, TypeOK, Owned, Genuinely, Cached, Sure
<1>3. ASSUME NEW p \in People, PublishBundle(p) PROVE IInv'
  <2>1. CASE Gone(p, "null")
    BY <1>3, <2>1, GoneKeeps DEF PublishBundle
  <2>2. CASE Goes(p, "register") /\ own' = [own EXCEPT ![p].bundle = TRUE]
             /\ directory' = [directory EXCEPT !.bundles = @ \cup {p}] /\ UNCHANGED <<accounts, packages>>
    <3>1. /\ UNCHANGED <<opens, store, accounts, packages, cards, welcomes>> /\ at[p] = "publish"
          /\ at' = [at EXCEPT ![p] = "register"]
      BY <1>3, <2>2 DEF PublishBundle, Goes
    <3>2. /\ own' \in [People -> [bundle : BOOLEAN, package : Package \cup {None}]]
          /\ \A q \in People : own'[q].package = own[q].package
      BY <2>2, BundleAt DEF IInv, Typed
    <3>3. /\ directory' \in [bundles : SUBSET People, newest : [People -> Package \cup {None}]]
          /\ directory'.newest = directory.newest
      BY <2>2, BundleAt DEF IInv, Typed
    <3>4. Typed'
      BY <3>1, <3>2, <3>3 DEF IInv, Typed, TypeOK
    <3>5. Owned'
      BY <3>1, <3>2, <3>3 DEF IInv, Typed, TypeOK, Owned
    <3>6. QED
      BY <3>1, <3>4, <3>5 DEF IInv, Genuinely, Cached, Sure
  <2>3. QED
    BY <1>3, <2>1, <2>2 DEF PublishBundle
<1>4. ASSUME NEW p \in People, Register(p) PROVE IInv'
  <2>1. CASE Gone(p, "null") /\ UNCHANGED opens
    BY <1>4, <2>1, GoneKeeps DEF Register
  <2>2. CASE opens' = [opens EXCEPT ![p] = @ + 1] /\ Goes(p, "submit")
             /\ own' = [own EXCEPT ![p].package = <<p, opens'[p]>>] /\ UNCHANGED <<accounts, packages>>
    <3>1. /\ UNCHANGED <<store, accounts, packages, directory, cards, welcomes>> /\ at[p] = "register"
          /\ at' = [at EXCEPT ![p] = "submit"]
      BY <1>4, <2>2 DEF Register, Goes
    <3>2. opens'[p] \in 1 .. MaxOpens /\ opens' \in [People -> 0 .. MaxOpens]
      BY <2>2, <3>1, ContactsAssumption DEF IInv, Typed, TypeOK
    <3>3. <<p, opens'[p]>> \in Package /\ <<p, opens'[p]>> # None /\ <<p, opens'[p]>>[1] = p
      BY <3>2, ContactsAssumption DEF Package
    <3>4. /\ own' \in [People -> [bundle : BOOLEAN, package : Package \cup {None}]]
          /\ own'[p].package = <<p, opens'[p]>>
          /\ \A q \in People \ {p} : own'[q].package = own[q].package /\ opens'[q] = opens[q]
      <4>1. /\ own \in [People -> [bundle : BOOLEAN, package : Package \cup {None}]]
            /\ opens \in [People -> 0 .. MaxOpens]
        BY DEF IInv, Typed, TypeOK
      <4>2. own' = [own EXCEPT ![p] = [@ EXCEPT !.package = <<p, opens'[p]>>]]
        BY <2>2, <4>1
      <4>3. [own[p] EXCEPT !.package = <<p, opens'[p]>>] \in [bundle : BOOLEAN, package : Package \cup {None}]
        BY <3>3, <4>1
      <4>4. own'[p].package = <<p, opens'[p]>> /\ \A q \in People \ {p} : own'[q] = own[q]
        BY <4>1, <4>2
      <4>5. \A q \in People \ {p} : opens'[q] = opens[q]
        BY <2>2, <4>1
      <4>6. QED
        BY <4>1, <4>2, <4>3, <4>4, <4>5
    <3>5. Typed'
      BY <3>1, <3>2, <3>4 DEF IInv, Typed, TypeOK
    <3>6. Owned'
      <4>1. at'[p] = "submit" /\ \A q \in People \ {p} : at'[q] = at[q]
        BY <3>1 DEF IInv, Typed, TypeOK
      <4>2. own'[p].package # None /\ own'[p].package[1] = p
        BY <3>3, <3>4
      <4>3. QED
        BY ZenonT(40), <3>1, <3>4, <4>1, <4>2 DEF IInv, Owned
    <3>7. QED
      BY <3>1, <3>5, <3>6 DEF IInv, Genuinely, Cached, Sure
  <2>3. QED
    BY <1>4, <2>1, <2>2 DEF Register
<1>5. ASSUME NEW p \in People, Submit(p) PROVE IInv'
  <2>1. own[p].package # None /\ UNCHANGED <<opens, store, cards, welcomes>> /\ at[p] = "submit"
    BY <1>5 DEF Submit, IInv, Owned
  <2>2. CASE Gone(p, "null") /\ directory' \in {directory, [directory EXCEPT !.newest[p] = own[p].package]}
    BY <2>1, <2>2, GoneKeeps
  <2>3. CASE Goes(p, "persist") /\ directory' = [directory EXCEPT !.newest[p] = own[p].package]
             /\ UNCHANGED object
    <3>1. /\ directory' \in [bundles : SUBSET People, newest : [People -> Package \cup {None}]]
          /\ directory'.newest[p] = own[p].package
          /\ \A q \in People \ {p} : directory'.newest[q] = directory.newest[q]
      BY <2>1, <2>3 DEF IInv, Typed, TypeOK
    <3>2. at' = [at EXCEPT ![p] = "persist"] /\ UNCHANGED <<own, accounts, packages>>
      BY <2>3 DEF Goes, object
    <3>3. Typed'
      BY <2>1, <3>1, <3>2 DEF IInv, Typed, TypeOK
    <3>4. Owned'
      BY <2>1, <3>1, <3>2 DEF IInv, Typed, TypeOK, Owned
    <3>5. QED
      BY <2>1, <3>2, <3>3, <3>4 DEF IInv, Genuinely, Cached, Sure
  <2>4. QED
    BY <1>5, <2>2, <2>3 DEF Submit
<1>6. ASSUME NEW p \in People, Persist(p) PROVE IInv'
  <2>1. CASE Gone(p, "null") /\ UNCHANGED store
    BY <1>6, <2>1, GoneKeeps DEF Persist
  <2>2. CASE Goes(p, "up") /\ UNCHANGED object /\ store' = [store EXCEPT ![p] = @ \cup {own[p].package}]
    <3>1. /\ UNCHANGED <<opens, own, accounts, packages, directory, cards, welcomes>>
          /\ at[p] = "persist" /\ at' = [at EXCEPT ![p] = "up"]
      BY <1>6, <2>2 DEF Persist, Goes, object
    <3>2. own[p].package \in Package
      BY <3>1 DEF IInv, Typed, TypeOK, Owned
    <3>3. /\ store' \in [People -> SUBSET Package] /\ own[p].package \in store'[p]
          /\ \A q \in People : store[q] \subseteq store'[q]
      BY <2>2, <3>2 DEF IInv, Typed, TypeOK
    <3>4. Typed'
      BY <3>1, <3>3 DEF IInv, Typed, TypeOK
    <3>5. Owned'
      BY <3>1, <3>3 DEF IInv, Typed, TypeOK, Owned
    <3>6. Genuinely' /\ Sure'
      BY <3>1, <3>3 DEF IInv, Typed, TypeOK, Genuinely, Sure, Package
    <3>7. Cached'
      BY <3>1, <3>3 DEF IInv, Cached
    <3>8. QED
      BY <3>4, <3>5, <3>6, <3>7 DEF IInv
  <2>3. QED
    BY <1>6, <2>1, <2>2 DEF Persist
<1>7. ASSUME NEW p \in People, Shutdown(p) \/ Crash(p) PROVE IInv'
  BY <1>7, GoneKeeps DEF Shutdown, Crash
<1>8. ASSUME NEW p \in People, ExportContact(p) PROVE IInv'
  <2>1. /\ UNCHANGED <<at, opens, store, own, accounts, packages, directory, welcomes>>
        /\ at[p] = "up" /\ own[p].package # None /\ cards' = cards \cup {Genuine(p)}
    BY <1>8 DEF ExportContact, object
  <2>2. /\ own[p].package \in Package /\ own[p].package[1] = p /\ own[p].package \in store[p]
    BY <2>1 DEF IInv, Typed, TypeOK, Owned
  <2>3. Typed'
    BY <2>1, <2>2 DEF IInv, Typed, TypeOK, Genuine
  <2>4. Genuinely'
    BY <2>1, <2>2 DEF IInv, Genuinely, Genuine
  <2>5. QED
    BY <2>1, <2>3, <2>4 DEF IInv, Owned, Cached, Sure
<1>9. ASSUME NEW p \in People, ImportContact(p) PROVE IInv'
  <2>1. PICK c \in Incoming :
          /\ BundleOk(c) /\ PublicationOk(c)
          /\ accounts' = [accounts EXCEPT ![p] = @ \cup {c.account}]
          /\ packages' = [packages EXCEPT ![p][c.device] = c.payload]
    BY <1>9 DEF ImportContact
  <2>2. UNCHANGED <<at, opens, store, own, directory, cards, welcomes>> /\ at[p] = "up"
    BY <1>9 DEF ImportContact
  <2>3. /\ c.account \in People /\ c.device = c.account /\ c.payload \in Package
        /\ c.payload # None /\ c.payload[1] = c.device /\ c.payload \in store[c.device]
    BY <2>1, AcceptedIs DEF IInv
  <2>4. /\ accounts' \in [People -> SUBSET People] /\ accounts'[p] = accounts[p] \cup {c.device}
        /\ \A q \in People \ {p} : accounts'[q] = accounts[q]
    BY <2>1, <2>3 DEF IInv, Typed, TypeOK
  <2>5. /\ packages' \in [People -> [People -> Package \cup {None}]]
        /\ packages'[p][c.device] = c.payload
        /\ \A q \in People \ {c.device} : packages'[p][q] = packages[p][q]
        /\ \A q \in People \ {p} : packages'[q] = packages[q]
    BY <2>1, <2>3 DEF IInv, Typed, TypeOK
  <2>6. Typed'
    BY <2>2, <2>4, <2>5 DEF IInv, Typed, TypeOK
  <2>7. Cached'
    BY <2>2, <2>3, <2>4, <2>5 DEF IInv, Cached
  <2>8. QED
    BY <2>2, <2>6, <2>7 DEF IInv, Owned, Genuinely, Sure
<1>10. ASSUME NEW p \in People, NEW q \in People, Invite(p, q) PROVE IInv'
  <2>1. UNCHANGED <<at, opens, store, own, accounts, packages, directory, cards>>
    BY <1>10 DEF Invite, object
  <2>2. PICK online \in BOOLEAN :
          /\ CanAdd(p, q, online)
          /\ welcomes' = welcomes \cup {[to |-> q, package |-> Retrieved(p, q, online),
                                         sure |-> packages[p][q] # None \/ at[q] = "up"]}
    BY <1>10 DEF Invite
  <2>3. Retrieved(p, q, online) \in Package /\ Retrieved(p, q, online) # None
    BY <2>2 DEF CanAdd, Usable, Retrieved, IInv, Typed, TypeOK
  <2>4. packages[p][q] # None \/ at[q] = "up" => Retrieved(p, q, online) \in store[q]
    BY <2>3 DEF Retrieved, IInv, Owned, Cached
  <2> DEFINE sure == packages[p][q] # None \/ at[q] = "up"
             w == [to |-> q, package |-> Retrieved(p, q, online), sure |-> sure]
  <2>5. sure \in BOOLEAN
    BY Zenon
  <2>6. welcomes' = welcomes \cup {w}
    BY <2>2
  <2>7. sure => Retrieved(p, q, online) \in store[q]
    BY <2>4
  <2> HIDE DEF sure
  <2>8. Typed'
    <3>1. w \in [to : People, package : Package, sure : BOOLEAN]
      BY <2>3, <2>5
    <3>2. QED
      BY <2>1, <2>6, <3>1 DEF IInv, Typed, TypeOK
  <2>9. Sure'
    <3>1. w.sure => w.package \in store[w.to]
      BY <2>7
    <3>2. QED
      BY <2>1, <2>6, <3>1 DEF IInv, Sure
  <2>10. QED
    BY <2>1, <2>8, <2>9 DEF IInv, Owned, Genuinely, Cached
<1>11. QED
  BY <1>1, <1>2, <1>3, <1>4, <1>5, <1>6, <1>7, <1>8, <1>9, <1>10 DEF Next

\* What a client has captured, exported, cached and used is as IInv says, however openings
\* and processes end and whatever cards come in.
THEOREM IInvAlways == Spec => []IInv
BY Initially, Inductive, PTL DEF Spec

\* Type correctness; nothing but an open client has anything cached.
THEOREM TypeCorrect == Spec => []TypeOK
<1>1. IInv => TypeOK
  BY DEF IInv, Typed
<1>2. QED
  BY <1>1, IInvAlways, PTL

\* Whoever's card was taken can be added with no network, whatever other cards and parts
\* of cards came in.
THEOREM AlwaysAddable == Spec => []AddableOffline
<1>1. IInv => AddableOffline
  BY DEF IInv, Cached, AddableOffline, CanAdd, Resolves, Retrieved, Usable
<1>2. QED
  BY <1>1, IInvAlways, PTL

\* Invitations by a card, however old, and ones made while their person was up can be
\* opened, whatever crashed and failed.
THEOREM InvitationsAlwaysOpen == Spec => []InvitationsOpen
<1>1. IInv => InvitationsOpen
  BY DEF IInv, Genuinely, Sure, InvitationsOpen
<1>2. QED
  BY <1>1, IInvAlways, PTL
=============================================================================
