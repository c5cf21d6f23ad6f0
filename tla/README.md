# Verification of the Logos chat library for Android

The repository is a C interface (`include/liblogoschat.h`, `wrapper/src/lib.rs`) over a
patched chat library (`patches/*.patch`: the base patch, then 349, 433, 437, 490 and 491),
with C programs that drive it (`scripts/*.c`).  The patches are source that is modelled:
what they leave as context, and what they call without changing, is used as they use it.
Line numbers below and in `PROJECT.json` are lines of the files themselves, for a patch of
the patch file.

| file | what it is |
|---|---|
| `GroupV1.tla` | a group conversation on all its devices: commits, future-epoch buffer, desync detector, removal gate, welcomes |
| `CommitHistory.tla` | what a group promises about membership, without frames or buffers (abstract) |
| `GroupV1_proofs.tla` | the theorems about the group |
| `Session.tla` | the session of one installation: cache, index, rows, MLS provider and its checkpoint, over several runs of the process |
| `OneTimeKeys.tla` | what a session promises about the keys of messages: what is done with one leaves only after the store has it as used (abstract) |
| `Session_proofs.tla` | the theorems about the session |
| `Delivery.tla` | the delivery transport: switch, outbox, node thread, store catch-up |
| `MCDelivery.tla` | `Delivery` with the symmetries TLC uses |
| `Delivery_proofs.tla` | the theorems about the transport |
| `EventPump.tla` | the life of a handle: worker, core lock, pump, callbacks, shutdown |
| `EventPump_proofs.tla` | the theorems about the handle |
| `ChatAbi.tla` | the contract of the C header, for one thread of a program (abstract) |
| `Wrapper.tla` | what the wrapper does for such a thread: results, last error, strings, opening with the identity file |
| `Base64.tla` | the desktop peer's decoder, with its reference |
| `Base64_proofs.tla` | the theorem about the decoder, for every text and buffer |
| `Peer.tla` | the headless desktop peer |
| `Smoke.tla` | the on-device smoke driver |
| `Hosts.tla` | one of the two programs on a machine, over several runs of the process |
| `MCHosts.tla` | `Hosts` with the texts TLC decodes |
| `Hosts_proofs.tla` | the theorems about the wrapper, the identity file and the two programs |
| `DiagCall.tla` | the call protocol the diagnostic clients share: callback, flag, bounded wait |
| `Diags.tla` | the scripts of the nine clients |
| `DiagCall_proofs.tla` | the theorems about the call protocol, for any script, and about the nine scripts |
| `Contacts.tla` | contact cards: what is published, captured, exported, imported and used to invite |
| `Contacts_proofs.tla` | the theorems about the cards |

## 1. The system

| component | state | operations | what makes it correct |
|---|---|---|---|
| GroupV1 conversation | MLS group (external), buffer of future frames, stall counter and flag, echo cache | `send_content`, `encrypt_content`, `add_member`, `remove_member`, `handle_frame`, `drain_pending`, `new_from_welcome` | a device never goes back; nothing applicable stays buffered; one truthful notice per stall; only the creator evicts; only the creator replaces a held group |
| Core session | cache of conversations, route index, conversation rows, checkpointed MLS state | create, load, register, replace, route an inbound payload, checkpoint | cache, rows and checkpoint agree; what peers have seen survives a restart |
| Delivery transport | switch, topics, outbox; on the node thread active topics, last catch-up, seen hashes; detached catch-up threads; inbound queue | `subscribe`, `unsubscribe`, `publish`, `take_pending`, `set_active`, `catchup_now`, timer | the node polls what the switch says; an envelope goes one way; nothing the store had is missed |
| Client worker and event pump | core lock, event channel, worker, pump thread, handle | worker loop, `set_event_callback`, verbs, `shutdown` | shutdown completes and leaves nothing at work; events get through |
| FFI wrapper and its header | handle, the thread's last error, strings given away | the `logoschat_*` verbs | each failing call leaves its own error; each string is freed once; a handle is used while it is open |
| Persistent identity | a file of two seeds | read, or generate and write, at open | the same address after a restart, wherever the last run was cut off |
| Desktop peer | command line, answer, stdio's buffer | `main`'s command loop, `on_event`, `b64decode` | every command is answered where its driver sees it, with its own error; nothing is leaked; ingest gets the bytes its line means |
| Smoke driver | strings, the first address | mint, open, open twice | "PERSIST PASS" is true |
| Diagnostic clients | three globals shared with a library thread | a script of calls, each with a bounded wait | a client prints no answer as another call's; it hears every message; it ends |
| Contact registry, offline bootstrap | own bundle and key package as captured, cache of imported cards; the server | publish, register, export, import, fetch, retrieve, create offline | who is cached can be added offline; what one invites with can be opened |
| Graph hiding | outer key and tag, fixed for a group's life | seal, unseal, route | a member can unseal at any epoch |
| GroupV2, SDS channels | upstream crates | - | - |
| build scripts, experiment | none at run time | - | - |

How they meet: a verb of the wrapper takes the core lock of the client, works on a
conversation through the session, which publishes through the delivery transport and then
checkpoints.  A catch-up thread or a node event puts a payload into the inbound queue; the
worker takes it out, handles it under the core lock and sends events into a channel, from
which the pump thread calls the application, which may call verbs again.  The desktop peer
and the smoke driver are such applications; the diagnostic clients go past the chat library
and call the delivery node themselves.

What is hard here: frames that arrive out of order, twice or never; two members committing
at once and modified clients that skip the sender's checks; handlers that fail in the
middle; a store pulled by overlapping windows with queries that fail, pages that are full
and a queue that is full; a switch that takes effect topic by topic; shutdown from a
callback; a crash between publishing and checkpointing; an identity file that cannot be
read, or was cut off; a library that answers after its caller has stopped waiting.
`PROJECT.json` lists each hazard
at its line, with the properties that look for it.

## 2. The models

### GroupV1

openmls is external.  The code relies on this of it: a group's state is determined by the
commits applied since its creation, so `at[d]`, the sequence of commits device `d` has
applied, *is* its state; the epoch is its length; a frame can be opened only at exactly the
history it was sealed under, by a member, not by its author, and an application message
only once (`Openable`, `opened`).  The network is a set of frames that is never emptied:
a frame may be delivered late, twice, in any order or never.

| model | code |
|---|---|
| `SendContent`, `AddMember`, `RemoveMember` | `send_message`, `add_member`, `remove_member_impl`: merged locally first, published afterwards |
| `ReceiveFuture`, `ReceiveContent`, `ReceiveCommit` | the three outcomes of `process_frame` inside `handle_frame` that change state |
| `DrainFrame`, `DrainAgain`, `DrainDone`, `DrainFail` | `drain_pending`, a step per buffered frame, per pass, and its two ends: the fold into the detector, and the `?` that leaves at once |
| `BufferFuture`, `StallStep`, `RemovesAuthorized`, `ReplaceAuthorized` | the functions of these names, as operators |
| `Join`, `Replace` | `new_from_welcome` with `register_convo` / `replace_convo` |

A frame whose handling changes nothing (own echo, past epoch, unopenable, dropped by the
gate) is a stuttering step.  `drain[d]` is the local state of a drain in progress; while it
is on the device does nothing else, since the code holds the core lock.

`CommitHistory` is the abstract specification: a device's log grows by its own commit or by
one commit made on top of exactly that log, evictions are the creator's, a device enters
through a commit that adds it, and enters again only through the creator's and at a later
epoch.  `GroupV1` implements it with `log <- at` and, for the logs ever produced, the
histories the published commits lead to (`Chain`).

### Session

Core keeps every MLS group in the memory of the provider (`mls`).  An entry point changes it,
publishes, and writes the whole provider into one row of the store (`blob`) before it
returns.  An entry point is therefore a first step, its writes of rows where the code has
them, and then `Persist` and `Return` (`call` says where it is); a crash may come between any
two, and a write may fail.  The core lock lets one call run at a time; the network and the
other members move on in between.

| model | code |
|---|---|
| `Open` | `GenericChatClient` opening from the store: `Core::assemble` (provider from the blob, index from the rows' tags or, for a row without one, from its group), then `register_keypackage` |
| `CreateDirect`, `DirectRow` | `create_direct_convo_v1`, and `logoschat_create_conversation` above it |
| `CreateGroup`, `InviteToGroup` | `create_group_convo_v1` |
| `ChangeMembers` | `group_add_member`, `group_remove_member`, refused on a cached direct conversation |
| `SendContent`, `EncryptForConvo` | `send_content`, `encrypt_for_convo` |
| `HandleMessage`, `HandleCommit`, `HandleEcho`, `HandleWelcome` | the outcomes of `handle_payload`, from the relay or through `logoschat_ingest_ciphertext` |
| `Checkpoint` | `wakeup`, and any call that changes nothing and writes all the same |
| `Persist`, `PersistFails` | `persist_mls_state`, whose error replaces the call's result |
| `GiveUp` | the returns by `?` before the checkpoint |
| `Register`, `ReplaceConvo`, `Usable`, `Routed` | `register_convo`, `replace_convo`, `load_convo`, the lookup by route tag |
| `Crash`, `Vanish` | the process ends; nothing in memory is left |

A group is the history of its commits, as in `GroupV1`, with the number of messages sealed in
this epoch (the sender's generation) and the messages read in it: what a process that starts
from an old blob would do again.  A frame is named by what it is sealed on.

`excused` collects the conversations touched by a crash in the middle of a call, a failed
write, an entry point that gave up before its checkpoint, or an index that could not be read.
There the code does lose state (it publishes before it checkpoints), so `RestIsDurable`,
`SealsFresh` and the second half of `ExactlyOnce` speak of the other conversations.
`CacheBacked`, `CheckpointNeverBack`, `ImplementsOneTimeKeys` and "nothing is given twice" have
no such exception.

`OneTimeKeys` is the abstract specification: a store that knows which keys are used up, the
keys of the call in progress, and those whose result has been given out.  A call uses only
keys the store does not have as used, and its result is given out only when the store has
them so; before that it may be lost.  `Session` implements it with the checkpoint for the
store, for the key of an own message its generation and for a peer's message the key it opens
with; a key is used up when the checkpointed group would not use it again (`Behind`, `Past`).
What `send_content` publishes before its checkpoint is not given out by a call and is not in
it: that is `SealsFresh`.

Left out: conversations of kind GroupV2, the causal history, the future-epoch buffer and
forks (`GroupV1`), and the failed write of a row when a welcome replaces a conversation that
is cached.

### Delivery

Callers of the transport hold the core lock and a command blocks its caller until the node
thread has answered, so a call is one step together with its command.  `set_active` issues a
command per topic: it is a step (`SetActive`) and then a step per topic (`SwitchTopic`), with
the timer, the threads and the events in between.  A catch-up thread is a record in `pulls`:
`Query` fixes its answer (the newest `PageLimit` messages of its window), `Replay` feeds
one message after the other past `seen` into the bounded queue.  Time is in ticks of the
20-second timer.  `lost` is a history variable: what a catch-up asked for in vain, because
its query failed, the page was full or the queue was.  A message carries its sender's time stamp and is in the store at most
`Delay` ticks later; that `Delay <= Margin` is what the code's margin of 60 s is there for.
The SDS-channel path is behind a switch that is off and is left out.

### EventPump

The worker selects a payload, waits for the core lock, handles it, gives the lock back and
sends the events one by one.  The pump takes an event and calls the application; from inside
a callback or from its own thread the application registers the callback, calls a verb
(which holds the core lock) or shuts the handle down.  Dropping the client (upstream)
disconnects the shutdown channel and joins the worker; then the handle's other fields are
dropped: the receiver if it is still there, and the pump's JoinHandle, which detaches the
pump.

### Hosts: the header, the wrapper and two programs

`ChatAbi` is the contract: the handle, how many strings the caller owns, whether a pump runs,
how many fallible calls the thread has made and which one its last error is from.
`Wrapper` does what `lib.rs` does, with `logoschat_open_persistent` in the steps a crash can
come between (`LoadIdentity`, `MintIdentity`, which truncates, `WriteIdentity`, `OpenClient`
and their failures).  An identity is a number, the file holds one, or nothing, a part, or
something else; `known` are the addresses a client was opened with.  `sound` says whether a
file that is there can always be read.

| model | code |
|---|---|
| `Start`, `Opening`, `OpenedNull`, `Opened`, `Announce`, `Ready` | `peer.c` up to its prompt |
| `ReadLine`, `Misuse`, `Unknown`, `Missing`, `Call`, `Reply` | one turn of its loop: the line, the ways it can go, the answer with its `xfree` and `fflush` |
| `OnEvent` | `on_event` on the pump's thread, which flushes what main has printed as well |
| `ReadEof`, `Quit`, `Bye` | the end of the input and the shutdown |
| `Decode` | `b64decode`, character by character, against `Meaning`, the text as one string of bits |
| `Mint` ... `SmokeReturns` | `smoke.c`, whose second argument is both the library and the identity file |
| `Crash` | either program ends anywhere and is started again |

Symbols that `peer.c` tolerates as missing come and go in three groups (the off-node verbs,
`list`, `leave`); the others are always there.  `fgets` cuts a line of 64 KiB or more in two,
which is left out: the second half would be a line of its own.  The header lists event types
1 to 4 and the wrapper also sends 5 (a conversation out of sync), which the peer prints as
"unknown"; events are not told apart here.

### DiagCall and Diags: the diagnostic clients

Each client is a straight-line script of calls; a step names its symbol and what the client
does when it is missing (checked first, skipped, or called through NULL).  `Issue` resets the
flag and calls, `Poll` is `wait_cb`, `ReadRet` and `ReadBuf` are what is read afterwards;
`Answer` and `Store` are `cb` on a thread of the library, a store at a time, since the
globals are read without synchronisation.  `inOrder` is whether the machine shows main the
stores in their order: `volatile` does not say so.  `late` is the first call main gave up.
A wait that gives up leaves its call open, and its callback may come at any later step.
Time passes only while main polls, in ticks of 5 or 10 s; the library keeps the time-out of a
store query and promises nothing else.  How often the loops of a script go round is given by
the constants `Rounds`, `Sends` and `Shards`.

### Contacts

An opening is five steps, since each may fail and a crash may come between any two; on a
failure the client goes, and with it what its registry object has captured and cached.  The
server keeps the newest package of each device.  A card is a record of the parts that are
signed separately, and what comes in (`Incoming`) is any combination of the parts of the cards
there are.  A key package is known by its owner and its number; once its private key is in
the store it stays usable, since the packages are last-resort packages (patch line 2935).

| model | code |
|---|---|
| `StartOpen`, `PublishBundle` | `open_persistent` up to `add_delegate_signer`, which calls `publish` |
| `Register`, `Submit`, `Persist` | `register_keypackage`: capture, request, `persist_mls_state` |
| `Gone`, `Shutdown`, `Crash` | the registry object drops, on a failure, by `logoschat_shutdown`, or with the process |
| `ExportContact`, `ImportContact` | the verbs, with `BundleOk` and `PublicationOk` for `verify_bundle` and `verify_keypackage_publication` |
| `Resolves`, `Retrieved`, `Usable` | `fetch`, `retrieve`, the key check of `key_package_for_signer` |
| `Invite` | `logoschat_create_conversation[_offline]`, `logoschat_add_group_member` |

`sure` marks an invitation made with a package that came on a card, or from the server while
its owner was up.  A package the server gives while its owner is down may be one whose
private key was never stored: the next opening replaces it.  Each account has one device, as
this library gives it, and lifetimes are left out.

## 3. What is checked

| run | bounds | shows |
|---|---|---|
| `group_ordered` | 3 devices (2 founders, 1 late joiner), 1 committer, 3 commits, 2 senders with 1 message each, buffer of 2, threshold 2 | `TypeOK`, `NoticeOncePerStall`, `BufferAhead`, `NoticeTruthful`, `EpochNeverBack`, `OnlyFailureLoses` |
| `group_forks` | 3 founders, 2 committers, one modified client, 3 commits a branch | `CreatorNeverEvicted`, `HonestFollowCreator`, `ImplementsCommitHistory` |
| `session_life` | 2 conversations (one created here, one held since before tags were stored or joined by welcome), 3 commits a history, 3 messages and commits in all, 2 runs of the process | `TypeOK`, `CacheBacked`, `RestIsDurable`, `SealsFresh`, `ExactlyOnce`, `CheckpointNeverBack`, `ImplementsOneTimeKeys` |
| `delivery_life` | 1 topic, 1 envelope, 2 messages, 3 ticks, window floor of 2 ticks, pages of 1, a queue of 1, 2 threads, node and queries may fail | `TypeOK`, `PolledFollowsSwitch`, `OneTransport`, `NothingMissed` |
| `pump_life` | up to 3 payloads of up to 2 events | `TypeOK`, `ClosedIsQuiet`, and the liveness of shutdown, pump and events |
| `hosts_life` | 3 runs of the process, 6 calls a process, 2 events, an ingest buffer of 4 bytes, 5 texts and every text of up to 5 characters of 5 kinds | `TypeOK`, `NothingHeld`, `ErrorIsOwn`, `IngestRight`, `AddressKept`, `PassIsTrue`, `ImplementsAbi`, `LinesAnswered` |
| `diag_calls` | the nine scripts, 1 round or send, 2 shards, at most 1 symbol missing | `TypeOK`, `OwnUnlessAbandoned`, `QueriesOutlasted`, `NothingUnheard`, `Ends` |
| `contacts_life` | 2 people with 2 key packages each, cards late, repeated and mixed | `AddableOffline`, `InvitationsOpen` |

Why the bounds are enough: three commits on top of one another are what it takes to have a
frame that is still ahead after a drain made progress, so that a second pass is needed and a
third is refused; two buffered frames overflow a buffer of 2 and the counter passes the
threshold of 2 and saturates at 3, as 256, 5 and 2^32 - 1 would.  Three commits on each
branch give forks, removal followed by re-adding and a welcome of the same epoch from
another branch.  Three ticks are more than a look-back window and
its margin, so a window's floor, its overlap and a pull that outlives the next one all occur.
Two runs of the process with three pieces of work put a restart, or a crash at
any step, between two seals of one generation, two reads of one message, or an eviction and
the welcome that follows it; with the legacy conversation both ways into the index are taken,
and with 2.3 million states every action and disjunct occurs.
Pages and a queue of one are full whenever two messages fall into one window, so each way a
catch-up can lose a message occurs next to the others.
Three payloads of two events keep the channel, the worker and a callback busy together.
Three runs of the process let one be cut off while it writes the identity, the next find what
is left and the third find what that one made of it; texts of up to five characters end a
group at every place, and a buffer of up to four bytes ends in every place of a group.  A
round of readings is enough for a late answer to meet a call of its own kind, of another
kind, and none; two shards let a scan find its topic at once, late or not at all.
Two people are enough to mix the parts of two cards, and two packages each put an opening that
fails or is cut off before or after the one whose card is about.  All
these systems are bounded and stop when the bounds are used up, so deadlock is not checked;
that threads do not wait for each other is checked as liveness in `pump_life`.

Fairness.  `EventPump`: threads go on when they can; a verb returns; a
callback returns (strong: it may call verbs, but not for ever); the core lock is not
withheld from the waiting worker for ever (strong: parking_lot's mutex is eventually fair).
Nobody is obliged to call anything, so shutdown and registration have no fairness.
`Hosts`: the peer's main thread goes on, its calls returning one way or the other; lines,
events and crashes may or may not come.  `DiagCall`: main goes on, a callback that has begun
ends, and the library answers the store query main is at within its time-out, or fails it;
other calls may never be answered.

Runs that end in a counterexample, each against a sentence of the source (`findings`):

| run | what the code does |
|---|---|
| `group_overtaken_bug` | a buffered message is dropped unread because a commit buffered before it is drained first |
| `delivery_failed_query_bug` | a failed store query moves the window all the same |
| `pump_after_shutdown_bug` | events already queued reach the callback after shutdown has returned |
| `identity_lost_bug` | an identity file that cannot be read is taken for a missing one and overwritten |

`delivery_failed_query_bug` refutes `NothingMissedEver`, of which `NothingMissed` leaves out
only what a catch-up itself asked for in vain.  `identity_lost_bug` refutes `AddressStable`,
which `AddressKept` shows for a file that can be read.

Four more things the models show, for which there is no run: a drain that fails loses the
messages it has already opened (`OnlyFailureLoses` shows that nothing else does); without a
network opening fails (`PublishBundle`, `Submit`), and the key package that was captured for a
card goes with the client, although a comment (patch lines 5138-5140) has it captured for just
that case; the echo of
a message is an error when its conversation is not cached (`HandleEcho`); and a usage error
of the desktop peer is not flushed, so that a driver that waits for it waits until the
next answer or event (`LinesAnswered` is about the other lines).

Every property of a passing run has a mutant: a definition of the model changed the way a
bug would change the code (a counter that does not saturate, a drain of one pass, a window
without its margin, a call without its checkpoint, an outbox that is read and not drained, a shutdown that joins the pump,
a flag that is not reset, a string freed twice),
under which TLC finds that property violated.

## 4. What is proved

For every value of the constants, under the assumptions each module names
(`ConstantsOK`, `SessionAssumption`, `DeliveryAssumption`, `PumpAssumption`,
`DiagAssumption`, `DiagsAssumption`, `HostsAssumption`, `PeerAssumption`, `ContactsAssumption`):

| theorem | says | rests on |
|---|---|---|
| `TypeCorrect` | `TypeOK` of the group | inductive as it stands |
| `NoticeOnce` | `NoticeOncePerStall` | `StallMax >= StallThreshold`; with `TypeOK` inductive |
| `NeverBack` | `EpochNeverBack` | type correctness |
| `Implements` | `Init` and every step of the group map to `CommitHistory` or leave it alone | the invariant `Grounded` |
| `BufferStaysAhead` | `BufferAhead`: a member's buffer holds only frames of epochs ahead of it, if one device makes all commits | `KeptAndOpened`, `Leads`, `Lined` |
| `NoticeIsTruthful` | `NoticeTruthful`: who gives a notice lacks a commit, if one device makes all commits | `BufferStaysAhead`'s, and that a frame's author was a member |
| `CreatorStays` | `CreatorNeverEvicted` | `Grounded` and `CreatorKept` |
| `HonestStay` | `HonestFollowCreator` | `Grounded` and, as long as only the creator has added, `Led` |
| `LosesOnlyByFailure` | `OnlyFailureLoses` | `HandsEmpty`: outside a drain nothing opened is still in hand |
| `TypeCorrect` (session) | `TypeOK` of the session | inductive as it stands |
| `CacheIsBacked` | `CacheBacked` | `CallShape`, of which it is a part: where a call is and what it has done so far |
| `NeverBack` (session) | `CheckpointNeverBack` | `Grown`: the provider is never behind the blob |
| `RestDurable` | `RestIsDurable` | `Durable`: which conversation a call in progress may have moved ahead of the blob |
| `HandoutsAreFresh` | `HandoutsFresh` | `HandedBehind`, from `Grown` |
| `ImplementsKeys` | `ImplementsOneTimeKeys`: `Init` and every step of the session map to `OneTimeKeys` or leave it alone | `Grown`, `HandedBehind`, `GivenPast`, `Authors` |
| `KeysServeOnce` | no key is used again whose result has been given out | `ImplementsKeys`; inductive in `OneTimeKeys` |
| `SealsAreFresh` | `SealsFresh` | `SealedBehind`, from `Durable` |
| `GivenExactlyOnce` | `ExactlyOnce` | `GivenPast`, from `Grown`; `UsedUp`, from `Durable` |
| `PolledFollows`, `OneTransportOnly` | `PolledFollowsSwitch`, `OneTransport` | inductive with what a switch in progress may still touch |
| `TypeCorrect` (transport) | `TypeOK` | `Typed` |
| `NothingIsMissed` | `NothingMissed`, if the store's delay is within the margin | `Gapless`: what is in the store and a look-back has passed has arrived, is in a pull, or is lost; what was seen has arrived or is lost |
| `ShutdownIsQuiet`, `TypeCorrect` (handle) | `ClosedIsQuiet`, `TypeOK` | `Inside`: who holds the lock, who is in which call |
| `ShutdownCannotHang` | from the call of shutdown on, some thread can always go on, and each step leaves less to do | `Inside`; a count of the steps left, `Work` |
| `TypeCorrect` (diagnostics) | `TypeOK` | `Typed`: the call of a step yet to be made is not open |
| `AnswersAreOwn` | `OwnUnlessAbandoned`, for any script | `Own`: what the globals hold while the callback runs |
| `QueriesAreOutlasted` | `QueriesOutlasted`, for any script | `InTime` |
| `HearsEverything` | `NothingUnheard`, for any script that registers before it starts the node; one whose symbol to register with is missing is exempt | `Heard`: a registration main has passed was made, or its symbol is missing |
| `RecvDiagHears` | `recv_diag`, the one client that registers a callback, is given every message if the symbol was found | `HearsEverything`; `recv_diag` registers first |
| `DiagsArePrograms` | the nine scripts meet what the theorems assume of a script, for any number of rounds, sends and shards | `RepeatIs`: a loop's steps are steps |
| `ClientsCannotHang` | `main` never waits for what nobody owes it, and its steps run out, for any script | `Typed`, `Storing`: a callback that has begun has stores left |
| `DecodesEveryText` | `DecodesRight`, for every text and every size of the buffer | `Decoding`: what the loop has written and what it has in hand |
| `IngestIsRight` | `IngestRight` | `DecodesEveryText` and `Fed` |
| `AddressIsKept` | `AddressKept` | `WrapOk`: a file that can always be read and was used is never written again |
| `PassIsTheTruth` | `PassIsTrue` | `WrapOk`, `SmokeOk`: an open client of the third mode has the identity on file |
| `NothingIsHeld`, `ErrorIsItsOwn` | `NothingHeld`, `ErrorIsOwn` | `PeerOk`: it owns what `main` holds, and a reply is pending at "reply" only |
| `AbiImplemented` | `ImplementsAbi` | `Legal`: what each program does at each place is a call the contract allows there |
| `TypeCorrect` (programs) | `TypeOK` | the three together, `IInv` |
| `TypeCorrect` (contacts) | `TypeOK` | `Typed`: a client being opened has a package left to generate |
| `AlwaysAddable` | `AddableOffline` | `Cached`: what is cached came with both halves of a card |
| `InvitationsAlwaysOpen` | `InvitationsOpen` | `Owned`, `Genuinely`, `Cached`, `Sure` |

The argument for the group: `Grounded` says that every frame, welcome and buffered frame
comes from a history that published commits lead to, so that what a device applies was made
on top of what it has.  With that, a step that changes the history of a device is one of
three (its own commit, one authorised commit of another, a welcome) and lemma `StepRefines`
maps each to a step of `CommitHistory`.  The creator is not evicted because a history with
its removal can only be produced by a branch that the gate keeps the creator off
(`CreatorKept`); honest devices follow it because each history published by an unmodified
client is a prefix of the creator's (`Led`), and a modified one's removals are refused.

`BufferAhead` and `NoticeTruthful` speak of groups whose commits are all one device's
(`SoleCommitter`): with two committers a frame of a branch a member is not on may stay
buffered, and the detector be set off by it.  With one, every history and every frame lies on
the way of that device's own history (`Leads`), so a frame of a member's epoch is a frame of
its history, and the member can open it unless it is its own, which is never kept, or has been
opened before; what has been opened is of an epoch gone by or taken out of the buffer
(`Known`, `Once`, `KeptAndOpened`).  Hence no drain of a member fails, and one that stops has
nothing applicable left (`Sorted`, whose three parts need each other: the second speaks of a
pass in progress, since in the middle of one the buffer does hold frames of this epoch).  A
stall counts up only while something published lies ahead; its author was at that epoch,
so the device that gives the notice lacks a commit.

The argument for the session: a group is ordered by `AtLeast` (a longer history, or the same
with no fewer seals and reads).  While the process is up every step moves the provider up in
that order (`ProviderGrows`) and only a successful write moves the blob, to the provider
(`BlobChange`); so the blob never goes back (`Grown`).  An envelope is handed out, and a
message given, only after the blob has passed it (`HandedBehind`, `GivenPast`), and passed is
what it stays: what is sealed or read next is at the front of the group (`FrontIsNew`), hence
new, whatever has crashed.  That is also the refinement: the checkpoint of a call is `Save`,
its return `GiveOut`, and a key that is used is at the front of the provider, so the blob,
which is not ahead of it, does not have it as used (`KeysStep`).  A message that is published
first needs more: `Durable` says that the blob is the provider except for the conversation of
the call in progress, so a crash takes back only a conversation it excuses (`NeverBehind`),
and `SealStep` says that each step seals at most one frame, at the front.  None of the properties is inductive: each speaks of what is
between calls or outside, and is lost in the middle of a call without `CallShape` and `Out`
or `Given`, the result a call is about to return.

The argument for the transport: the next window starts a margin before the last catch-up, so
it begins before every message that the last one could not have seen yet (`StartCovers`); a
pull that continues or ends hands over, counts as seen or counts as lost what its window
covered (`ContinueCovers`); hence there is no gap between what is accounted for and what the
next window will ask for (`Gapless`).

The argument for the diagnostic clients: as long as no call was given up, the only call that
is open or being answered is the one main is at (`Own`).  The flag is down from the reset
until the last store of that call's callback, so when main sees it up the other stores have
been seen and are that call's.  A query main waits for has polled no longer than its time-out
(`InTime`); with a longer wait it is answered before the wait is over.  A message goes
unheard only while no callback is registered; as long as the script has not been past its
registration no node has been started that could bring one (`Heard`), and that is so of
`recv_diag`.  The other eight register nothing, so `NothingUnheard` asks nothing of them.  The
theorems about any script are about the nine because these are scripts, however often
their loops go round (`DiagsArePrograms`): eight shards and nine rounds as well as what TLC
runs.

That shutdown gets through, and that the clients end, is liveness, but what would make it
false is not: threads waiting on each other in a circle, or a loop that feeds itself.
`ShutdownCannotHang` says that the thread each one waits for is never the one that waits
(`NobodyStuck`), and that every step of worker, pump and caller after shutdown has been called
makes `Work` smaller: a payload comes before the event it makes, an event before its callback,
and none makes a payload.  `ClientsCannotHang` says the same of `main`: it waits for an answer
only while the library owes it one or the wait has a limit (`NeverStuck`), and no step of the
library adds to the steps `main` has left (`MainRunsOut`).  What these leave to TLC is the
fairness alone.

The argument for the programs: what either does with the wrapper, each at its places, is one
of the calls in `Legal` (`PeerSteps`, `SmokeSteps`), and those keep the wrapper's own
invariant (`LegalKeepsWrap`) and are steps of the contract (`LegalIsAbi`).  The wrapper knows
which program runs only through `Legal`: any other program that keeps to it has the address
and the contract as well.

The argument for the decoder goes over the characters of a text.  The library's induction
theorems take an operator, so `Induct` says the same of a set, from the least number that is
not in it; `Iterates` and it give that the recursive functions `Loop` and `Counting` are what
their equations say.  After any number of characters, of which k count (`Decoding`), g whole
groups of k are written and fit, the rest of k is in hand, or the loop was left because the
next group does not fit; the bytes of a group are those the bits of its characters spell
(`BytesOfGroup`), and each byte depends on its own group (`BytesAreLocal`).  What is written
after the loop is then the bytes of the group in hand that are whole and fit (`TailDecodes`).

The argument for the cards: a client that is up has what it captured in its store, and the
server has nothing newer of it (`Owned`); a card is exported only then, so what is on one is in
its owner's store, and the store only grows (`Genuinely`).  A card that passes the two checks
names one person throughout, whatever cards its parts are from (`AcceptedIs`), so both halves
that are cached are that person's (`Cached`), and an invitation made with them, or with what
the server has of somebody who is up, is by a package in the store (`Sure`).

Only model-checked: liveness under fairness, which is beyond the prover: `Ends`,
`LinesAnswered`, and that shutdown, the pump and the events get through.  For shutdown and
`Ends` the safety half is proved, as above.  Every invariant and every action property a run
checks is proved.

## 5. What is not modelled

- The registry server, which is upstream; accounts with several devices and the lifetime of
  key packages.  The welcome of an offline conversation is taken from the outbox by
  `TakePending` of `Delivery`, with whatever else is buffered there.
- GroupV2 is an upstream crate of which the patch only calls `leave`; SDS channels are gated
  off.
- Cryptography (the outer seal, route tags, MLS itself, the keys derived from the seeds) is
  assumed.
- In the wrapper: string conversion, JSON and the values of the roster and metadata getters.
  A result with a NUL inside would be NULL without an error of its own (`to_c_string`).
  In the programs: paths, printed text, the parsing of what a metrics dump or a store answer
  contains.
- `ReplaceAuthorized` compares people.  The code decodes the recorded creator as the hex of a
  key and compares that with the author's, so it may refuse more than the model does, which
  only takes steps away.
- `ImportContact` is one step.  The code caches the account and then the package, each under
  its own lock: an invitation made on another thread in between would find the account alone,
  and fail or ask the server.  `AddableOffline` speaks of what is cached between calls.
- The worker's arms for a sender that is gone and for the wakeup: while a handle is open the
  transport and the handle keep their senders.
- Build scripts and the experiment hold no state of the running system.

## 6. Plan

1. Done: `GroupV1` with `CommitHistory`, `Session`, `Delivery`, `EventPump`, the wrapper with
   its header, its two programs and the identity file, the diagnostic clients, the contact
   cards, and the theorems of section 4.
2. Compositions: the group's devices each with a session (a restart empties the future-epoch
   buffer and takes the group back to the checkpoint), and the transport feeding the worker.
3. Proofs: the compositions' invariants.
