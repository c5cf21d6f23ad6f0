------------------------------ MODULE Contacts ------------------------------
(***************************************************************************)
(* How people come to hold each other's key packages (HttpRegistry and the *)
(* verbs export_contact, import_contact and create_conversation[_offline]).*)
(* Opening a persistent client publishes the device bundle, then registers *)
(* a new key package, then writes its private key to the store; each of    *)
(* the first two needs the network.  A contact card carries both, and goes *)
(* from hand to hand (BLE): it may come late, twice, or with its parts     *)
(* mixed up with another card's.                                           *)
(*                                                                         *)
(* An account of this library has one device, and both go by its person.   *)
(* The n-th key package of p is <<p, n>>; its publication is the package   *)
(* with p's signature over it.                                             *)
(***************************************************************************)
EXTENDS Naturals

CONSTANTS
  People,
  None,     \* no key package
  MaxOpens  \* bound on the packages of one person

ASSUME ContactsAssumption ==
  /\ MaxOpens \in Nat
  /\ None \notin People \X Nat

VARIABLES
  at,        \* where each process is: "down", or "null" after a failed open or a shutdown
  opens,     \* key packages generated
  store,     \* those whose private key is in the store
  own,       \* what the registry object has captured of us: bundle and publication
  accounts,  \* whose device set is cached
  packages,  \* key package cached for each device
  directory, \* the registry server: whose bundle it has, and the newest package of each
  cards,     \* every card exported so far
  welcomes   \* every invitation made: to whom, by which package, and whether it is sure

object == <<own, accounts, packages>>
vars   == <<at, opens, store, object, directory, cards, welcomes>>

Package == People \X (1 .. MaxOpens)
Nothing == [bundle |-> FALSE, package |-> None]
NoCache == [q \in People |-> None]

Init ==
  /\ at = [p \in People |-> "down"]
  /\ opens = [p \in People |-> 0]
  /\ store = [p \in People |-> {}]
  /\ own = [p \in People |-> Nothing]
  /\ accounts = [p \in People |-> {}]
  /\ packages = [p \in People |-> NoCache]
  /\ directory = [bundles |-> {}, newest |-> NoCache]
  /\ cards = {} /\ welcomes = {}

-----------------------------------------------------------------------------
(* Opening a client.                                                       *)

\* The client is gone, and its registry object with it.
Gone(p, place) ==
  /\ at' = [at EXCEPT ![p] = place]
  /\ own' = [own EXCEPT ![p] = Nothing]
  /\ accounts' = [accounts EXCEPT ![p] = {}]
  /\ packages' = [packages EXCEPT ![p] = NoCache]

Goes(p, place) == at' = [at EXCEPT ![p] = place]

StartOpen(p) ==
  /\ at[p] \in {"down", "null"} /\ opens[p] < MaxOpens
  /\ Goes(p, "publish")
  /\ UNCHANGED <<opens, store, object, directory, cards, welcomes>>

\* add_delegate_signer: the bundle is captured and sent.
PublishBundle(p) ==
  /\ at[p] = "publish"
  /\ \/ /\ own' = [own EXCEPT ![p].bundle = TRUE]
        /\ Goes(p, "register")
        /\ directory' = [directory EXCEPT !.bundles = @ \cup {p}]
        /\ UNCHANGED <<accounts, packages>>
     \/ /\ Gone(p, "null")     \* no network, or the answer is lost
        /\ directory' \in {directory, [directory EXCEPT !.bundles = @ \cup {p}]}
  /\ UNCHANGED <<opens, store, cards, welcomes>>

\* register: a new package, captured before it is sent.  What comes before it can fail.
Register(p) ==
  /\ at[p] = "register"
  /\ \/ /\ opens' = [opens EXCEPT ![p] = @ + 1]
        /\ own' = [own EXCEPT ![p].package = <<p, opens'[p]>>]
        /\ Goes(p, "submit")
        /\ UNCHANGED <<accounts, packages>>
     \/ Gone(p, "null") /\ UNCHANGED opens
  /\ UNCHANGED <<store, directory, cards, welcomes>>

Submit(p) ==
  /\ at[p] = "submit"
  /\ LET served == [directory EXCEPT !.newest[p] = own[p].package] IN
     \/ Goes(p, "persist") /\ directory' = served /\ UNCHANGED object
     \/ Gone(p, "null") /\ directory' \in {directory, served}
  /\ UNCHANGED <<opens, store, cards, welcomes>>

\* Mutant of Persist: a failed write of the checkpoint does not fail the open.
PersistMaybe(p) ==
  /\ at[p] = "persist"
  /\ Goes(p, "up")
  /\ store' \in {store, [store EXCEPT ![p] = @ \cup {own[p].package}]}
  /\ UNCHANGED <<opens, object, directory, cards, welcomes>>

\* persist_mls_state, and the handle is returned.
Persist(p) ==
  /\ at[p] = "persist"
  /\ \/ /\ Goes(p, "up") /\ UNCHANGED object
        /\ store' = [store EXCEPT ![p] = @ \cup {own[p].package}]
     \/ Gone(p, "null") /\ UNCHANGED store
  /\ UNCHANGED <<opens, directory, cards, welcomes>>

\* logoschat_shutdown, or the process ends.
Shutdown(p) ==
  /\ at[p] = "up" /\ Gone(p, "null")
  /\ UNCHANGED <<opens, store, directory, cards, welcomes>>

Crash(p) ==
  /\ at[p] # "down" /\ Gone(p, "down")
  /\ UNCHANGED <<opens, store, directory, cards, welcomes>>

-----------------------------------------------------------------------------
(* Cards.                                                                  *)

\* A card: its account and device, the publication (what it says and what was signed),
\* and whose bundle it carries.
Genuine(p) ==
  [account |-> p, device |-> p, payload |-> own[p].package, signed |-> own[p].package, bundle |-> p]

\* logoschat_export_contact
ExportContact(p) ==
  /\ at[p] = "up" /\ own[p].bundle /\ own[p].package # None
  /\ cards' = cards \cup {Genuine(p)}
  /\ UNCHANGED <<at, opens, store, object, directory, welcomes>>

\* What may come in for a card: the parts of any that are about.
Incoming ==
  {[account |-> i.account, device |-> i.device, payload |-> k.payload, signed |-> s.signed, bundle |-> b.bundle]
     : i, k, s, b \in cards}

\* verify_bundle, and verify_keypackage_publication: the account endorses the device,
\* and the device has signed the package.
BundleOk(c)      == c.bundle = c.account
PublicationOk(c) == /\ c.device = c.bundle
                    /\ c.signed = c.payload /\ c.signed[1] = c.device

\* Mutant of ImportContact: the package is not verified, as before patch 491.
ImportContactUnbound(p) ==
  /\ at[p] = "up"
  /\ \E c \in Incoming :
       /\ BundleOk(c)
       /\ accounts' = [accounts EXCEPT ![p] = @ \cup {c.account}]
       /\ packages' = [packages EXCEPT ![p][c.device] = c.payload]
  /\ UNCHANGED <<at, opens, store, own, directory, cards, welcomes>>

\* logoschat_import_contact; a card that does not pass changes nothing.  (The account is
\* cached before the package; a call of another thread in between is left out.)
ImportContact(p) ==
  /\ at[p] = "up"
  /\ \E c \in Incoming :
       /\ BundleOk(c) /\ PublicationOk(c)
       /\ accounts' = [accounts EXCEPT ![p] = @ \cup {c.account}]
       /\ packages' = [packages EXCEPT ![p][c.device] = c.payload]
  /\ UNCHANGED <<at, opens, store, own, directory, cards, welcomes>>

-----------------------------------------------------------------------------
(* Using what is known.                                                    *)

\* fetch: who q's devices are, from the cache, else from the server.
Resolves(p, q, online) == q \in accounts[p] \/ (online /\ q \in directory.bundles)

\* retrieve: the cached package wins over the server's.
Retrieved(p, q, online) ==
  IF packages[p][q] # None THEN packages[p][q]
  ELSE IF online THEN directory.newest[q] ELSE None

\* key_package_for_signer: there is one, and it is q's.
Usable(k, q) == k # None /\ k[1] = q

CanAdd(p, q, online) == Resolves(p, q, online) /\ Usable(Retrieved(p, q, online), q)

\* logoschat_create_conversation[_offline] and logoschat_add_group_member.  Of a
\* package that was not on a card one can be sure while its owner is up.
Invite(p, q) ==
  /\ at[p] = "up" /\ p # q
  /\ \E online \in BOOLEAN :
       /\ CanAdd(p, q, online)
       /\ welcomes' = welcomes \cup
            {[to |-> q, package |-> Retrieved(p, q, online),
              sure |-> packages[p][q] # None \/ at[q] = "up"]}
  /\ UNCHANGED <<at, opens, store, object, directory, cards>>

Next ==
  \E p \in People :
    \/ StartOpen(p) \/ PublishBundle(p) \/ Register(p) \/ Submit(p) \/ Persist(p)
    \/ Shutdown(p) \/ Crash(p)
    \/ ExportContact(p) \/ ImportContact(p)
    \/ \E q \in People : Invite(p, q)

Spec == Init /\ [][Next]_vars

-----------------------------------------------------------------------------
\* Type correctness; only a client that is being opened or open has captured anything,
\* and only an open one has cached anything.
TypeOK ==
  /\ at \in [People -> {"down", "null", "publish", "register", "submit", "persist", "up"}]
  /\ opens \in [People -> 0 .. MaxOpens]
  /\ store \in [People -> SUBSET Package]
  /\ own \in [People -> [bundle : BOOLEAN, package : Package \cup {None}]]
  /\ accounts \in [People -> SUBSET People]
  /\ packages \in [People -> [People -> Package \cup {None}]]
  /\ directory \in [bundles : SUBSET People, newest : [People -> Package \cup {None}]]
  /\ cards \subseteq [account : People, device : People, payload : Package, signed : Package, bundle : People]
  /\ welcomes \subseteq [to : People, package : Package, sure : BOOLEAN]
  /\ \A p \in People : at[p] # "up" => accounts[p] = {} /\ packages[p] = NoCache

\* Whoever has been cached can be added with no network at all: the two halves of a card
\* are cached together, whatever cards came in before and in which order.
AddableOffline ==
  \A p, q \in People : q \in accounts[p] \/ packages[p][q] # None => CanAdd(p, q, FALSE)

\* The private key of a package that is on a card outlives every crash and failed open of
\* its owner, and so does one the server gave while its owner was up: an invitation made
\* with it, however old the card and whatever was registered since, can be opened.
InvitationsOpen ==
  /\ \A c \in cards : c.payload \in store[c.account]
  /\ \A w \in welcomes : w.sure => w.package \in store[w.to]
=============================================================================
