------------------------------ MODULE GroupV1 ------------------------------
(***************************************************************************)
(* A GroupV1 conversation (core/conversations/src/conversation/group_v1.rs *)
(* as the patches leave it) on all the devices that hold it.               *)
(*                                                                         *)
(* openmls is external.  What the code relies on: a group state is         *)
(* determined by the commits applied since creation, so a device's state   *)
(* is that HISTORY; the epoch is its length; a frame can be opened only by *)
(* a roster member holding exactly the history it was sealed under, never  *)
(* by its own author and, for an application message, only once.           *)
(*                                                                         *)
(* The network is the set of published frames.  A frame may be delivered   *)
(* late, in any order, again and again (live relay and store catch-up), or *)
(* never; a publish that fails after the local merge is one never          *)
(* delivered.  Delivery of a frame the handler drops or rejects without    *)
(* changing state (own echo, past epoch, unopenable, unauthorized commit)  *)
(* is a stuttering step and has no action.                                 *)
(***************************************************************************)
EXTENDS Naturals, Sequences

CONSTANTS
  Device,         \* every device that may ever be in the group
  Founder,        \* the devices in the group once it is set up
  Creator,        \* the creator recorded in the group context, or NoOne
  NoOne,
  Committer,      \* devices whose application adds members
  Unchecked,      \* devices whose client skips the sender-side creator check
  Sender,         \* devices whose application sends messages
  PendingMax,     \* PENDING_FUTURE_MAX
  StallThreshold, \* FUTURE_STALL_THRESHOLD
  StallMax,       \* where the u32 stall counter saturates
  MaxEpoch,       \* bound on commits in one history
  MaxApp          \* bound on application messages per device

ASSUME ConstantsOK ==
  /\ NoOne \notin Device
  /\ Founder \subseteq Device
  /\ Creator \in Founder \cup {NoOne}
  /\ Committer \subseteq Device /\ Unchecked \subseteq Device /\ Sender \subseteq Device
  /\ PendingMax \in Nat \ {0}
  /\ StallThreshold \in Nat \ {0}
  /\ StallMax \in Nat /\ StallMax >= StallThreshold
  /\ MaxEpoch \in Nat /\ MaxApp \in Nat

VARIABLES
  net,      \* frames published so far
  welcomes, \* welcomes sent so far
  holds,    \* devices with this group in their MLS store
  at,       \* at[d]: the commits d has applied, in order
  pending,  \* pending[d]: frames buffered for a future epoch
  drain,    \* drain[d]: the drain_pending call in progress, if any
  opened,   \* opened[d]: application frames whose MLS secret d has used up
  surfaced, \* surfaced[d]: application frames handed to d's application
  stall,    \* stall[d]: future frames in a row, no commit in between
  flagged,  \* flagged[d]: the desync notice of this stall has been given
  notices   \* notices[d]: desync notices since the detector was last re-armed

vars == <<net, welcomes, holds, at, pending, drain, opened, surfaced, stall, flagged, notices>>

Commit  == [by : Device, kind : {"add", "remove"}, who : Device]
Message == [by : Device, kind : {"app"}, n : Nat]
History == Seq(Commit)
Frame   == [at : History, body : Commit \cup Message]
Welcome == [to : Device, at : History, by : Device]

Epoch(f)    == Len(f.at)
IsCommit(f) == f.body.kind # "app"

\* The members after the commits of h: founders and added devices that no later
\* commit removes.
Roster(h) ==
  {d \in Device :
     LET RemovedAfter(i) == \E j \in DOMAIN h : j > i /\ h[j].kind = "remove" /\ h[j].who = d
     IN  \/ d \in Founder /\ ~RemovedAfter(0)
         \/ \E i \in DOMAIN h : h[i].kind = "add" /\ h[i].who = d /\ ~RemovedAfter(i)}

Active(d) == d \in holds /\ d \in Roster(at[d])

\* process_message succeeds: right history, still a member, somebody else's
\* frame, secret not used before.
Openable(d, f) ==
  /\ f.at = at[d]
  /\ Active(d)
  /\ f.body.by # d
  /\ f \notin opened[d]

-----------------------------------------------------------------------------
\* Mutant of RemovesAuthorized: the committer is not compared with the creator.
RemovesAnyCommitter(creator, committer, removals) == removals = {} \/ creator # NoOne

\* The receive-side gate on Remove proposals.  The commits this client builds
\* carry their proposals inline, so the committer is the proposer.
RemovesAuthorized(creator, committer, removals) ==
  \/ removals = {}
  \/ /\ creator # NoOne
     /\ \/ committer = creator
        \/ \A r \in removals : r.removed = r.proposer

StagedRemovals(c) ==
  IF c.kind = "remove" THEN {[removed |-> c.who, proposer |-> c.by]} ELSE {}

Authorized(c) == RemovesAuthorized(Creator, c.by, StagedRemovals(c))

\* Mutant of ReplaceAuthorized: any author may replace the group.
ReplaceAnyAuthor(creator, author) == TRUE

\* Only the recorded creator may replace a group that is already held.  (The code compares
\* keys, and refuses a creator it cannot decode as one.)
ReplaceAuthorized(creator, author) == creator # NoOne /\ creator = author

\* Mutants of StallStep: the counter does not saturate; the flag does not silence
\* the notice; a commit only stops the count.
StallStepUnsaturated(s, fl, committed, buffered) ==
  LET n    == IF buffered THEN s + 1 ELSE s
      fire == n >= StallThreshold /\ ~fl
  IN  IF committed THEN [stall |-> 0, flagged |-> FALSE, desync |-> FALSE]
      ELSE [stall |-> n, flagged |-> fl \/ fire, desync |-> fire]

StallStepLevel(s, fl, committed, buffered) ==
  LET n    == IF buffered /\ s < StallMax THEN s + 1 ELSE s
      fire == n >= StallThreshold
  IN  IF committed THEN [stall |-> 0, flagged |-> FALSE, desync |-> FALSE]
      ELSE [stall |-> n, flagged |-> fl \/ fire, desync |-> fire]

StallStepNoReset(s, fl, committed, buffered) ==
  LET n    == IF ~committed /\ buffered /\ s < StallMax THEN s + 1 ELSE s
      fire == n >= StallThreshold /\ ~fl
  IN  [stall |-> n, flagged |-> fl \/ fire, desync |-> fire]

\* The desync detector after one handled frame.
StallStep(s, fl, committed, buffered) ==
  IF committed THEN [stall |-> 0, flagged |-> FALSE, desync |-> FALSE]
  ELSE LET n    == IF buffered /\ s < StallMax THEN s + 1 ELSE s
           fire == n >= StallThreshold /\ ~fl
       IN  [stall |-> n, flagged |-> fl \/ fire, desync |-> fire]

\* handle_frame's last lines: fold the frame into d's detector.
Observe(d, committed, buffered) ==
  LET step == StallStep(stall[d], flagged[d], committed, buffered) IN
  /\ stall'   = [stall EXCEPT ![d] = step.stall]
  /\ flagged' = [flagged EXCEPT ![d] = step.flagged]
  /\ notices' = [notices EXCEPT ![d] = IF committed THEN 0
                                       ELSE IF step.desync THEN @ + 1 ELSE @]

\* Already buffered: unchanged.  Full: the oldest frame makes room.
BufferFuture(q, f) ==
  IF \E i \in DOMAIN q : q[i] = f THEN q
  ELSE IF Len(q) >= PendingMax THEN Append(Tail(q), f)
  ELSE Append(q, f)

Idle == [on |-> FALSE, batch |-> <<>>, progress |-> FALSE, recovered |-> {}]

\* The first pass of drain_pending, over everything that was buffered.
Draining(q) == [on |-> TRUE, batch |-> q, progress |-> FALSE, recovered |-> {}]

detector == <<stall, flagged, notices>>

-----------------------------------------------------------------------------
Init ==
  /\ net = {} /\ welcomes = {}
  /\ holds    = Founder
  /\ at       = [d \in Device |-> <<>>]
  /\ pending  = [d \in Device |-> <<>>]
  /\ drain    = [d \in Device |-> Idle]
  /\ opened   = [d \in Device |-> {}]
  /\ surfaced = [d \in Device |-> {}]
  /\ stall    = [d \in Device |-> 0]
  /\ flagged  = [d \in Device |-> FALSE]
  /\ notices  = [d \in Device |-> 0]

\* The commit is merged locally first and published afterwards.
CommitLocally(d, c) ==
  /\ Len(at[d]) < MaxEpoch
  /\ at'  = [at EXCEPT ![d] = Append(@, c)]
  /\ net' = net \cup {[at |-> at[d], body |-> c]}

\* send_content: encrypt under the current history and publish.  The n-th message
\* of d.
SendContent(d) ==
  LET msg(n)  == [by |-> d, kind |-> "app", n |-> n]
      Sent(n) == \E f \in net : f.body = msg(n)
  IN
  /\ d \in Sender /\ Active(d) /\ ~drain[d].on
  /\ \E n \in 1 .. MaxApp :
       /\ \A k \in 1 .. MaxApp : Sent(k) <=> k < n
       /\ net' = net \cup {[at |-> at[d], body |-> msg(n)]}
  /\ UNCHANGED <<welcomes, holds, at, pending, drain, opened, surfaced, detector>>

\* add_member of one device that is not in the roster.  Any member may add.
AddMember(d, x) ==
  LET c == [by |-> d, kind |-> "add", who |-> x] IN
  /\ d \in Committer /\ Active(d) /\ ~drain[d].on
  /\ x \notin Roster(at[d])
  /\ CommitLocally(d, c)
  /\ welcomes' = welcomes \cup {[to |-> x, at |-> Append(at[d], c), by |-> d]}
  /\ UNCHANGED <<holds, pending, drain, opened, surfaced, detector>>

\* remove_member of one other member.  An unmodified client refuses unless it
\* is the recorded creator.
RemoveMember(d, x) ==
  /\ Active(d) /\ ~drain[d].on
  /\ d \in Unchecked \/ (Creator # NoOne /\ d = Creator)
  /\ x \in Roster(at[d]) \ {d}
  /\ CommitLocally(d, [by |-> d, kind |-> "remove", who |-> x])
  /\ UNCHANGED <<welcomes, holds, pending, drain, opened, surfaced, detector>>

-----------------------------------------------------------------------------
\* handle_frame, frame of a later epoch: keep it, count it.
ReceiveFuture(d, f) ==
  /\ d \in holds /\ ~drain[d].on
  /\ Epoch(f) > Len(at[d])
  /\ pending' = [pending EXCEPT ![d] = BufferFuture(@, f)]
  /\ Observe(d, FALSE, TRUE)
  /\ UNCHANGED <<net, welcomes, holds, at, drain, opened, surfaced>>

\* handle_frame, application message of this epoch.
ReceiveContent(d, f) ==
  /\ ~drain[d].on
  /\ Openable(d, f) /\ ~IsCommit(f)
  /\ opened'   = [opened EXCEPT ![d] = @ \cup {f}]
  /\ surfaced' = [surfaced EXCEPT ![d] = @ \cup {f}]
  /\ Observe(d, FALSE, FALSE)
  /\ UNCHANGED <<net, welcomes, holds, at, pending, drain>>

\* handle_frame, commit of this epoch: merge it, then drain_pending.  With
\* nothing buffered the drain loop is not entered.
ReceiveCommit(d, f) ==
  /\ ~drain[d].on
  /\ Openable(d, f) /\ IsCommit(f) /\ Authorized(f.body)
  /\ at' = [at EXCEPT ![d] = Append(@, f.body)]
  /\ IF pending[d] = <<>>
     THEN Observe(d, TRUE, FALSE) /\ UNCHANGED <<pending, drain>>
     ELSE /\ pending' = [pending EXCEPT ![d] = <<>>]
          /\ drain'   = [drain EXCEPT ![d] = Draining(pending[d])]
          /\ UNCHANGED detector
  /\ UNCHANGED <<net, welcomes, holds, opened, surfaced>>

-----------------------------------------------------------------------------
(* drain_pending runs under the core lock: until it ends, d does nothing    *)
(* else.  One step per frame of the batch, one per end of a pass.           *)

\* process_frame on a buffered frame, every outcome but an error.
DrainFrame(d) ==
  LET f    == Head(drain[d].batch)
      rest == [drain[d] EXCEPT !.batch = Tail(@)]
  IN
  /\ drain[d].batch # <<>>
  /\ \/ /\ Epoch(f) < Len(at[d])                              \* superseded: dropped
        /\ drain' = [drain EXCEPT ![d] = rest]
        /\ UNCHANGED <<at, pending, opened>>
     \/ /\ Epoch(f) > Len(at[d])                              \* still ahead: kept
        /\ drain'   = [drain EXCEPT ![d] = rest]
        /\ pending' = [pending EXCEPT ![d] = BufferFuture(@, f)]
        /\ UNCHANGED <<at, opened>>
     \/ /\ Openable(d, f) /\ ~IsCommit(f)
        /\ opened' = [opened EXCEPT ![d] = @ \cup {f}]
        /\ drain'  = [drain EXCEPT ![d] = [rest EXCEPT !.progress = TRUE,
                                                       !.recovered = @ \cup {f}]]
        /\ UNCHANGED <<at, pending>>
     \/ /\ Openable(d, f) /\ IsCommit(f) /\ Authorized(f.body)
        /\ at'    = [at EXCEPT ![d] = Append(@, f.body)]
        /\ drain' = [drain EXCEPT ![d] = [rest EXCEPT !.progress = TRUE]]
        /\ UNCHANGED <<pending, opened>>
     \/ /\ Openable(d, f) /\ IsCommit(f) /\ ~Authorized(f.body) \* gate: dropped
        /\ drain' = [drain EXCEPT ![d] = rest]
        /\ UNCHANGED <<at, pending, opened>>
  /\ UNCHANGED <<net, welcomes, holds, surfaced, detector>>

\* process_frame fails on a buffered frame: the `?` leaves drain_pending and
\* handle_frame at once.
DrainFail(d) ==
  /\ drain[d].batch # <<>>
  /\ LET f == Head(drain[d].batch) IN Epoch(f) = Len(at[d]) /\ ~Openable(d, f)
  /\ drain' = [drain EXCEPT ![d] = Idle]
  /\ UNCHANGED <<net, welcomes, holds, at, pending, opened, surfaced, detector>>

\* Mutant of DrainAgain: each pass starts from nothing.
DrainAgainForgets(d) ==
  /\ drain[d].on /\ drain[d].batch = <<>>
  /\ drain[d].progress /\ pending[d] # <<>>
  /\ drain'   = [drain EXCEPT ![d] = Draining(pending[d])]
  /\ pending' = [pending EXCEPT ![d] = <<>>]
  /\ UNCHANGED <<net, welcomes, holds, at, opened, surfaced, detector>>

\* A pass that got somewhere is followed by another over what it kept back.
DrainAgain(d) ==
  /\ drain[d].on /\ drain[d].batch = <<>>
  /\ drain[d].progress /\ pending[d] # <<>>
  /\ drain'   = [drain EXCEPT ![d].batch = pending[d], ![d].progress = FALSE]
  /\ pending' = [pending EXCEPT ![d] = <<>>]
  /\ UNCHANGED <<net, welcomes, holds, at, opened, surfaced, detector>>

\* Mutant of DrainDone: one pass over the buffer is taken to be enough.
DrainDoneOnePass(d) ==
  /\ drain[d].on /\ drain[d].batch = <<>>
  /\ surfaced' = [surfaced EXCEPT ![d] = @ \cup drain[d].recovered]
  /\ drain'    = [drain EXCEPT ![d] = Idle]
  /\ Observe(d, TRUE, FALSE)
  /\ UNCHANGED <<net, welcomes, holds, at, pending, opened>>

\* No progress, or nothing left: hand over what was recovered, re-arm.
DrainDone(d) ==
  /\ drain[d].on /\ drain[d].batch = <<>>
  /\ ~drain[d].progress \/ pending[d] = <<>>
  /\ surfaced' = [surfaced EXCEPT ![d] = @ \cup drain[d].recovered]
  /\ drain'    = [drain EXCEPT ![d] = Idle]
  /\ Observe(d, TRUE, FALSE)
  /\ UNCHANGED <<net, welcomes, holds, at, pending, opened>>

-----------------------------------------------------------------------------
\* new_from_welcome, then register_convo or replace_convo: the conversation
\* object is a new one, with nothing buffered and the detector at rest.
Adopt(d, w) ==
  /\ at'      = [at EXCEPT ![d] = w.at]
  /\ pending' = [pending EXCEPT ![d] = <<>>]
  /\ stall'   = [stall EXCEPT ![d] = 0]
  /\ flagged' = [flagged EXCEPT ![d] = FALSE]
  /\ notices' = [notices EXCEPT ![d] = 0]
  /\ UNCHANGED <<net, welcomes, drain, opened, surfaced>>

Join(d, w) ==
  /\ d \notin holds /\ w.to = d
  /\ holds' = holds \cup {d}
  /\ Adopt(d, w)

\* Mutant of Replace: a stale welcome replaces the group too.
ReplaceAnyEpoch(d, w) ==
  /\ d \in holds /\ w.to = d /\ ~drain[d].on
  /\ ReplaceAuthorized(Creator, w.by)
  /\ Adopt(d, w)
  /\ UNCHANGED holds

\* A welcome for a group d already holds is refused as a duplicate unless it is
\* of a strictly newer epoch and the recorded creator authored it.
Replace(d, w) ==
  /\ d \in holds /\ w.to = d /\ ~drain[d].on
  /\ Len(w.at) > Len(at[d])
  /\ ReplaceAuthorized(Creator, w.by)
  /\ Adopt(d, w)
  /\ UNCHANGED holds

Next ==
  \E d \in Device :
    \/ SendContent(d)
    \/ \E x \in Device : AddMember(d, x) \/ RemoveMember(d, x)
    \/ \E f \in net : ReceiveFuture(d, f) \/ ReceiveContent(d, f) \/ ReceiveCommit(d, f)
    \/ DrainFrame(d) \/ DrainFail(d) \/ DrainAgain(d) \/ DrainDone(d)
    \/ \E w \in welcomes : Join(d, w) \/ Replace(d, w)

Spec == Init /\ [][Next]_vars

-----------------------------------------------------------------------------
\* Type correctness; the founders never lose the group from their store, and the stall
\* counter stays within its width (saturating_add).
TypeOK ==
  /\ net \subseteq Frame /\ welcomes \subseteq Welcome
  /\ Founder \subseteq holds /\ holds \subseteq Device
  /\ at \in [Device -> History]
  /\ pending \in [Device -> Seq(Frame)]
  /\ drain \in [Device -> [on : BOOLEAN, batch : Seq(Frame), progress : BOOLEAN,
                           recovered : SUBSET Frame]]
  /\ opened \in [Device -> SUBSET Frame] /\ surfaced \in [Device -> SUBSET Frame]
  /\ stall \in [Device -> 0 .. StallMax]
  /\ flagged \in [Device -> BOOLEAN]
  /\ notices \in [Device -> Nat]

PrefixOf(s, t) == Len(s) <= Len(t) /\ \A i \in 1 .. Len(s) : s[i] = t[i]

\* The detector is edge-triggered: one notice per stall, given exactly when the
\* counter has reached the threshold, whatever handlers failed in between.
NoticeOncePerStall ==
  \A d \in Device :
    /\ flagged[d] <=> stall[d] >= StallThreshold
    /\ notices[d] = IF flagged[d] THEN 1 ELSE 0

\* Every commit published so far is k's.
SoleCommitter(k) == \A f \in net : IsCommit(f) => f.body.by = k

\* As long as one device makes all the commits, a member's buffer holds only frames it
\* cannot apply yet between handlers: drain_pending leaves nothing applicable (or stale)
\* behind, whatever the order the frames came in and however many passes it took.
BufferAhead ==
  (\E k \in Device : SoleCommitter(k)) =>
    \A d \in Device : Active(d) /\ ~drain[d].on =>
      \A i \in DOMAIN pending[d] : Epoch(pending[d][i]) > Len(at[d])

\* As long as one device makes all the commits, a member that has been told it is out of
\* sync is: some device has applied a commit this one has not.
NoticeTruthful ==
  (\E k \in Device : SoleCommitter(k)) =>
    \A d \in Device : Active(d) /\ ~drain[d].on /\ flagged[d] =>
      \E o \in holds : ~PrefixOf(at[o], at[d])

\* Nobody but itself can put the recorded creator out of its own group: not by a
\* Remove applied directly or from the buffer, not through a welcome.
CreatorNeverEvicted ==
  Creator # NoOne => Creator \in holds /\ Creator \in Roster(at[Creator])

\* As long as nobody but the creator has added members, every unmodified client stays on
\* the creator's history, whatever Remove commits modified clients publish: it is the
\* forger that strands itself.
HonestFollowCreator ==
  Creator # NoOne /\ (\A f \in net : f.body.kind = "add" => f.body.by = Creator)
    => \A d \in holds \ Unchecked : PrefixOf(at[d], at[Creator])

\* No step takes a device back: its history grows by one commit, or a welcome of a
\* strictly newer epoch replaces it.
EpochNeverBack ==
  [][\A d \in holds : at'[d] # at[d] => Len(at'[d]) > Len(at[d])]_vars

\* Every history some published commit leads to.
Chain == {<<>>} \cup {Append(f.at, f.body) : f \in {g \in net : IsCommit(g)}}

Log == INSTANCE CommitHistory WITH log <- at, chain <- Chain

\* The group implements the abstract commit history: whatever is buffered,
\* reordered, replayed or half processed, the membership of each device only
\* moves the way CommitHistory allows.
ImplementsCommitHistory == Log!Spec

\* Messages d has opened, and cannot open again, that have neither reached the
\* application nor are in the hands of the drain in progress.
Adrift(d) == opened[d] \ (surfaced[d] \cup drain[d].recovered)

\* "Returns recovered app messages" (drain_pending): over any number of passes, and
\* whatever else happens to the group, only a drain that fails loses what was opened.
OnlyFailureLoses ==
  [][\A d \in Device : Adrift(d)' \subseteq Adrift(d) \/ DrainFail(d)]_vars

\* A buffered message is opened before the epoch it belongs to is left.
NothingOvertaken ==
  \A d \in Device : \A i \in DOMAIN drain[d].batch :
    LET f == drain[d].batch[i] IN
    ~IsCommit(f) /\ Epoch(f) < Len(at[d]) => ~PrefixOf(f.at, at[d])

=============================================================================
