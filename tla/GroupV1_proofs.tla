--------------------------- MODULE GroupV1_proofs ---------------------------
(***************************************************************************)
(* Theorems about GroupV1 for every set of devices and every bound.        *)
(***************************************************************************)
EXTENDS GroupV1, TLAPS

\* Buffering a frame gives a sequence of frames again.
LEMMA BufferFutureType ==
  ASSUME NEW q \in Seq(Frame), NEW f \in Frame
  PROVE  BufferFuture(q, f) \in Seq(Frame)
BY ConstantsOK DEF BufferFuture

\* Everything in the buffer after buffering a published frame was published.
LEMMA BufferFutureFrom ==
  ASSUME NEW q \in Seq(Frame), NEW f \in net, net \subseteq Frame,
         \A i \in DOMAIN q : q[i] \in net
  PROVE  \A i \in DOMAIN BufferFuture(q, f) : BufferFuture(q, f)[i] \in net
BY ConstantsOK DEF BufferFuture

\* The detector's step stays within the counter's range.
LEMMA StallStepType ==
  ASSUME NEW s \in 0 .. StallMax, NEW fl \in BOOLEAN,
         NEW committed \in BOOLEAN, NEW buffered \in BOOLEAN
  PROVE  StallStep(s, fl, committed, buffered) \in
           [stall : 0 .. StallMax, flagged : BOOLEAN, desync : BOOLEAN]
BY ConstantsOK DEF StallStep

\* Folding a frame into the detector keeps the detector well typed.
LEMMA ObserveType ==
  ASSUME TypeOK, NEW d \in Device,
         NEW committed \in BOOLEAN, NEW buffered \in BOOLEAN,
         Observe(d, committed, buffered)
  PROVE  /\ stall' \in [Device -> 0 .. StallMax]
         /\ flagged' \in [Device -> BOOLEAN]
         /\ notices' \in [Device -> Nat]
<1> DEFINE step == StallStep(stall[d], flagged[d], committed, buffered)
<1>1. step \in [stall : 0 .. StallMax, flagged : BOOLEAN, desync : BOOLEAN]
  BY StallStepType DEF TypeOK
<1>2. /\ stall'   = [stall EXCEPT ![d] = step.stall]
      /\ flagged' = [flagged EXCEPT ![d] = step.flagged]
      /\ notices' = [notices EXCEPT ![d] = IF committed THEN 0
                                           ELSE IF step.desync THEN @ + 1 ELSE @]
  BY DEF Observe
<1> HIDE DEF step
<1>3. QED
  BY <1>1, <1>2 DEF TypeOK

\* No step takes a variable out of its type.
LEMMA TypeStep ==
  ASSUME TypeOK, [Next]_vars
  PROVE  TypeOK'
<1>1. CASE UNCHANGED vars
  BY <1>1 DEF vars, TypeOK
<1>2. ASSUME NEW d \in Device, SendContent(d) PROVE TypeOK'
  <2>1. PICK n \in 1 .. MaxApp :
          net' = net \cup {[at |-> at[d], body |-> [by |-> d, kind |-> "app", n |-> n]]}
    BY <1>2 DEF SendContent
  <2>2. [at |-> at[d], body |-> [by |-> d, kind |-> "app", n |-> n]] \in Frame
    BY ConstantsOK DEF TypeOK, Frame, Message
  <2>3. QED
    BY <1>2, <2>1, <2>2 DEF SendContent, TypeOK, detector
<1>3. ASSUME NEW d \in Device, NEW x \in Device, AddMember(d, x) PROVE TypeOK'
  <2> DEFINE c == [by |-> d, kind |-> "add", who |-> x]
  <2>1. c \in Commit
    BY DEF Commit
  <2>2. at[d] \in History /\ Append(at[d], c) \in History
    BY <2>1 DEF TypeOK, History
  <2>3. [at |-> at[d], body |-> c] \in Frame
    BY <2>1, <2>2 DEF Frame
  <2>4. [to |-> x, at |-> Append(at[d], c), by |-> d] \in Welcome
    BY <2>2 DEF Welcome
  <2>5. QED
    BY <1>3, <2>1, <2>2, <2>3, <2>4 DEF AddMember, CommitLocally, TypeOK, detector
<1>4. ASSUME NEW d \in Device, NEW x \in Device, RemoveMember(d, x) PROVE TypeOK'
  <2> DEFINE c == [by |-> d, kind |-> "remove", who |-> x]
  <2>1. c \in Commit
    BY DEF Commit
  <2>2. at[d] \in History /\ Append(at[d], c) \in History
    BY <2>1 DEF TypeOK, History
  <2>3. [at |-> at[d], body |-> c] \in Frame
    BY <2>1, <2>2 DEF Frame
  <2>4. QED
    BY <1>4, <2>1, <2>2, <2>3 DEF RemoveMember, CommitLocally, TypeOK, detector
<1>5. ASSUME NEW d \in Device, NEW f \in net, ReceiveFuture(d, f) PROVE TypeOK'
  <2>1. BufferFuture(pending[d], f) \in Seq(Frame)
    BY BufferFutureType DEF TypeOK
  <2>2. Observe(d, FALSE, TRUE)
    BY <1>5 DEF ReceiveFuture
  <2>3. QED
    BY <1>5, <2>1, <2>2, ObserveType DEF ReceiveFuture, TypeOK
<1>6. ASSUME NEW d \in Device, NEW f \in net, ReceiveContent(d, f) PROVE TypeOK'
  <2>1. Observe(d, FALSE, FALSE)
    BY <1>6 DEF ReceiveContent
  <2>2. QED
    BY <1>6, <2>1, ObserveType DEF ReceiveContent, TypeOK
<1>7. ASSUME NEW d \in Device, NEW f \in net, ReceiveCommit(d, f) PROVE TypeOK'
  <2>1. f.body \in Commit
    BY <1>7 DEF ReceiveCommit, IsCommit, TypeOK, Frame, Message
  <2>2. at' \in [Device -> History]
    BY <1>7, <2>1 DEF ReceiveCommit, TypeOK, History
  <2>3. CASE pending[d] = <<>>
    <3>1. Observe(d, TRUE, FALSE)
      BY <1>7, <2>3 DEF ReceiveCommit
    <3>2. QED
      BY <1>7, <2>2, <2>3, <3>1, ObserveType DEF ReceiveCommit, TypeOK
  <2>4. CASE pending[d] # <<>>
    <3>1. Draining(pending[d]) \in [on : BOOLEAN, batch : Seq(Frame), progress : BOOLEAN,
                                    recovered : SUBSET Frame]
      BY DEF Draining, TypeOK
    <3>2. /\ pending' = [pending EXCEPT ![d] = <<>>]
          /\ drain'   = [drain EXCEPT ![d] = Draining(pending[d])]
          /\ UNCHANGED <<net, welcomes, holds, opened, surfaced, stall, flagged, notices>>
      BY <1>7, <2>4 DEF ReceiveCommit, detector
    <3>3. QED
      BY <2>2, <3>1, <3>2 DEF TypeOK
  <2>5. QED
    BY <2>3, <2>4
<1>8. ASSUME NEW d \in Device, DrainFrame(d) PROVE TypeOK'
  <2> DEFINE f    == Head(drain[d].batch)
             rest == [drain[d] EXCEPT !.batch = Tail(@)]
             DrainType == [on : BOOLEAN, batch : Seq(Frame), progress : BOOLEAN,
                           recovered : SUBSET Frame]
  <2>1. /\ f \in Frame /\ rest \in DrainType
        /\ [rest EXCEPT !.progress = TRUE] \in DrainType
        /\ [rest EXCEPT !.progress = TRUE, !.recovered = @ \cup {f}] \in DrainType
    <3>1. drain[d] \in DrainType /\ drain[d].batch # <<>>
      BY <1>8 DEF DrainFrame, TypeOK
    <3>2. f \in Frame /\ Tail(drain[d].batch) \in Seq(Frame)
      BY <3>1
    <3>3. rest = [on |-> drain[d].on, batch |-> Tail(drain[d].batch),
                  progress |-> drain[d].progress, recovered |-> drain[d].recovered]
      BY <3>1, SMTT(30)
    <3>4. QED
      BY <3>1, <3>2, <3>3
  <2>2. BufferFuture(pending[d], f) \in Seq(Frame)
    BY <2>1, BufferFutureType DEF TypeOK
  <2>3. IsCommit(f) => f.body \in Commit /\ Append(at[d], f.body) \in History
    BY <2>1 DEF IsCommit, TypeOK, Frame, Message, History
  <2>4. drain' \in [Device -> DrainType]
    <3>1. \E r \in DrainType : drain' = [drain EXCEPT ![d] = r]
      BY <1>8, <2>1 DEF DrainFrame
    <3>2. QED
      BY <3>1 DEF TypeOK
  <2>5. pending' \in [Device -> Seq(Frame)]
    <3>1. pending' = pending \/ pending' = [pending EXCEPT ![d] = BufferFuture(@, f)]
      BY <1>8 DEF DrainFrame
    <3>2. QED
      BY <2>2, <3>1 DEF TypeOK
  <2>6. at' \in [Device -> History] /\ opened' \in [Device -> SUBSET Frame]
    <3>1. /\ at' = at \/ (IsCommit(f) /\ at' = [at EXCEPT ![d] = Append(@, f.body)])
          /\ opened' = opened \/ opened' = [opened EXCEPT ![d] = @ \cup {f}]
      BY <1>8 DEF DrainFrame
    <3>2. at \in [Device -> History] /\ opened \in [Device -> SUBSET Frame] /\ f \in Frame
      BY <2>1 DEF TypeOK
    <3>3. at' \in [Device -> History]
      BY <2>3, <3>1, <3>2
    <3>4. opened' \in [Device -> SUBSET Frame]
      BY <3>1, <3>2
    <3>5. QED
      BY <3>3, <3>4
  <2>7. QED
    BY <1>8, <2>4, <2>5, <2>6 DEF DrainFrame, TypeOK, detector
<1>9. ASSUME NEW d \in Device, DrainFail(d) PROVE TypeOK'
  BY <1>9 DEF DrainFail, TypeOK, Idle, detector
<1>10. ASSUME NEW d \in Device, DrainAgain(d) PROVE TypeOK'
  <2> DEFINE DrainType == [on : BOOLEAN, batch : Seq(Frame), progress : BOOLEAN,
                           recovered : SUBSET Frame]
  <2>1. /\ drain' = [drain EXCEPT ![d].batch = pending[d], ![d].progress = FALSE]
        /\ pending' = [pending EXCEPT ![d] = <<>>]
        /\ UNCHANGED <<net, welcomes, holds, at, opened, surfaced, stall, flagged, notices>>
    BY <1>10 DEF DrainAgain, detector
  <2>2. drain \in [Device -> DrainType] /\ pending \in [Device -> Seq(Frame)]
    BY DEF TypeOK
  <2>3. drain' \in [Device -> DrainType]
    <3>1. [drain[d] EXCEPT !.batch = pending[d], !.progress = FALSE] \in DrainType
      BY <2>2
    <3>2. drain' = [drain EXCEPT ![d] = [drain[d] EXCEPT !.batch = pending[d], !.progress = FALSE]]
      BY <2>1, <2>2
    <3>3. QED
      BY <2>2, <3>1, <3>2
  <2>4. pending' \in [Device -> Seq(Frame)]
    BY <2>1, <2>2
  <2>5. QED
    BY <2>1, <2>3, <2>4 DEF TypeOK
<1>11. ASSUME NEW d \in Device, DrainDone(d) PROVE TypeOK'
  <2>1. Observe(d, TRUE, FALSE)
    BY <1>11 DEF DrainDone
  <2>2. QED
    BY <1>11, <2>1, ObserveType DEF DrainDone, TypeOK, Idle
<1>12. ASSUME NEW d \in Device, NEW w \in welcomes, Join(d, w) \/ Replace(d, w) PROVE TypeOK'
  <2>1. /\ Adopt(d, w) /\ w.at \in History
        /\ holds' = holds \/ holds' = holds \cup {d}
    BY <1>12 DEF Join, Replace, TypeOK, Welcome
  <2>2. QED
    BY <2>1, ConstantsOK, SMTT(30) DEF Adopt, TypeOK
<1>13. QED
  BY <1>1, <1>2, <1>3, <1>4, <1>5, <1>6, <1>7, <1>8, <1>9, <1>10, <1>11, <1>12 DEF Next

\* Every variable keeps its type.
THEOREM TypeCorrect == Spec => []TypeOK
<1>1. Init => TypeOK
  BY ConstantsOK DEF Init, TypeOK, Idle, History
<1>2. TypeOK /\ [Next]_vars => TypeOK'
  BY TypeStep
<1>3. QED
  BY <1>1, <1>2, PTL DEF Spec

-----------------------------------------------------------------------------
\* Folding a frame into the detector keeps one notice per stall.
LEMMA ObserveNotice ==
  ASSUME TypeOK, NoticeOncePerStall, NEW d \in Device,
         NEW committed \in BOOLEAN, NEW buffered \in BOOLEAN,
         Observe(d, committed, buffered)
  PROVE  NoticeOncePerStall'
<1> SUFFICES ASSUME NEW e \in Device
             PROVE  /\ flagged'[e] <=> stall'[e] >= StallThreshold
                    /\ notices'[e] = IF flagged'[e] THEN 1 ELSE 0
  BY DEF NoticeOncePerStall
<1>1. /\ flagged[e] <=> stall[e] >= StallThreshold
      /\ notices[e] = IF flagged[e] THEN 1 ELSE 0
      /\ stall[e] \in 0 .. StallMax /\ flagged[e] \in BOOLEAN
  BY DEF NoticeOncePerStall, TypeOK
<1>2. CASE e # d
  BY <1>1, <1>2 DEF Observe, TypeOK
<1>3. CASE e = d
  <2> DEFINE step == StallStep(stall[d], flagged[d], committed, buffered)
  <2>1. /\ stall'[d] = step.stall /\ flagged'[d] = step.flagged
        /\ notices'[d] = IF committed THEN 0
                         ELSE IF step.desync THEN notices[d] + 1 ELSE notices[d]
    BY DEF Observe, TypeOK
  <2>2. CASE committed
    <3>1. step = [stall |-> 0, flagged |-> FALSE, desync |-> FALSE]
      BY <2>2 DEF StallStep
    <3>2. step.stall = 0 /\ step.flagged = FALSE
      BY <3>1
    <3> HIDE DEF step
    <3>3. stall'[d] = 0 /\ flagged'[d] = FALSE /\ notices'[d] = 0
      BY <2>1, <2>2, <3>2, Zenon
    <3>4. QED
      BY <1>3, <3>3, ConstantsOK
  <2>3. CASE ~committed
    <3> DEFINE n == IF buffered /\ stall[d] < StallMax THEN stall[d] + 1 ELSE stall[d]
               fire == n >= StallThreshold /\ ~flagged[d]
    <3>1. step = [stall |-> n, flagged |-> flagged[d] \/ fire, desync |-> fire]
      BY <2>3 DEF StallStep
    <3>2. n \in Nat /\ n >= stall[d]
      BY <1>1, <1>3, ConstantsOK
    <3> HIDE DEF step
    <3>3. step.stall = n /\ step.flagged = (flagged[d] \/ fire) /\ step.desync = fire
      BY <3>1
    <3>4. stall'[d] = n /\ flagged'[d] = (flagged[d] \/ fire)
      BY <2>1, <3>3
    <3>5. notices'[d] = IF fire THEN notices[d] + 1 ELSE notices[d]
      BY <2>1, <2>3, <3>3
    <3> HIDE DEF n
    <3>6. CASE fire
      <4>1. flagged'[d] = TRUE /\ flagged[d] = FALSE /\ notices'[d] = notices[d] + 1
        BY <1>1, <1>3, <3>4, <3>5, <3>6, Zenon
      <4>2. stall'[d] >= StallThreshold /\ notices[d] = 0
        BY <1>1, <1>3, <3>4, <3>6, <4>1
      <4>3. QED
        BY <1>3, <4>1, <4>2
    <3>7. CASE ~fire
      BY <1>1, <1>3, <3>2, <3>4, <3>5, <3>7, ConstantsOK
    <3>8. QED
      BY <3>6, <3>7
  <2>4. QED
    BY <2>2, <2>3
<1>4. QED
  BY <1>2, <1>3

\* The desync notice is given once per stall, exactly at the threshold, on every
\* path through the handlers, the failing ones included.
THEOREM NoticeOnce == Spec => []NoticeOncePerStall
<1>1. Init => NoticeOncePerStall
  <2> SUFFICES ASSUME Init, NEW d \in Device
               PROVE  /\ flagged[d] <=> stall[d] >= StallThreshold
                      /\ notices[d] = IF flagged[d] THEN 1 ELSE 0
    BY DEF NoticeOncePerStall
  <2>1. flagged[d] = FALSE /\ stall[d] = 0 /\ notices[d] = 0
    BY DEF Init
  <2>2. QED
    BY <2>1, ConstantsOK
<1>2. TypeOK /\ NoticeOncePerStall /\ [Next]_vars => NoticeOncePerStall'
  <2> SUFFICES ASSUME TypeOK, NoticeOncePerStall, [Next]_vars PROVE NoticeOncePerStall'
    OBVIOUS
  <2>1. CASE UNCHANGED <<stall, flagged, notices>>
    BY <2>1 DEF NoticeOncePerStall
  <2>2. ASSUME NEW d \in Device, NEW w \in welcomes, Join(d, w) \/ Replace(d, w)
        PROVE  NoticeOncePerStall'
    <3>1. Adopt(d, w)
      BY <2>2 DEF Join, Replace
    <3>2. QED
      BY <3>1, ConstantsOK, SMTT(30) DEF Adopt, NoticeOncePerStall, TypeOK
  <2>3. ASSUME NEW d \in Device, NEW f \in net,
               ReceiveFuture(d, f) \/ ReceiveContent(d, f) \/ ReceiveCommit(d, f)
        PROVE  NoticeOncePerStall'
    <3>1. \/ \E committed, buffered \in BOOLEAN : Observe(d, committed, buffered)
          \/ UNCHANGED <<stall, flagged, notices>>
      BY <2>3 DEF ReceiveFuture, ReceiveContent, ReceiveCommit, detector
    <3>2. QED
      BY <2>1, <3>1, ObserveNotice
  <2>4. ASSUME NEW d \in Device,
               DrainFrame(d) \/ DrainFail(d) \/ DrainAgain(d) \/ DrainDone(d)
        PROVE  NoticeOncePerStall'
    <3>1. Observe(d, TRUE, FALSE) \/ UNCHANGED <<stall, flagged, notices>>
      BY <2>4 DEF DrainFrame, DrainFail, DrainAgain, DrainDone, detector
    <3>2. QED
      BY <2>1, <3>1, ObserveNotice
  <2>5. ASSUME NEW d \in Device, NEW x \in Device,
               SendContent(d) \/ AddMember(d, x) \/ RemoveMember(d, x)
        PROVE  NoticeOncePerStall'
    BY <2>1, <2>5 DEF SendContent, AddMember, RemoveMember, detector
  <2>6. CASE UNCHANGED vars
    BY <2>1, <2>6 DEF vars
  <2>7. QED
    BY <2>2, <2>3, <2>4, <2>5, <2>6 DEF Next
<1>3. QED
  BY <1>1, <1>2, TypeCorrect, PTL DEF Spec

-----------------------------------------------------------------------------
\* The invariant behind the refinement and the creator's place in the group:
\* whatever a device may still process was published or sent, and nobody commits
\* a change to its own membership.
Grounded ==
  /\ \A f \in net : IsCommit(f) => f.body.by # f.body.who
  /\ \A d \in Device :
       /\ \A i \in DOMAIN pending[d] : pending[d][i] \in net
       /\ \A i \in DOMAIN drain[d].batch : drain[d].batch[i] \in net
  /\ \A w \in welcomes :
       /\ w.by # w.to
       /\ \E f \in net :
            /\ f.body = [by |-> w.by, kind |-> "add", who |-> w.to]
            /\ w.at = Append(f.at, f.body)

\* What a device applies was published, by somebody else, at its history.
LEMMA GroundedInvariant == Spec => []Grounded
<1>1. Init => Grounded
  BY DEF Init, Grounded, Idle
<1>2. TypeOK /\ Grounded /\ [Next]_vars => Grounded'
  <2> SUFFICES ASSUME TypeOK, Grounded, [Next]_vars PROVE Grounded'
    OBVIOUS
  <2>1. CASE UNCHANGED vars
    BY <2>1 DEF vars, Grounded, IsCommit
  <2>2. ASSUME NEW d \in Device, SendContent(d) PROVE Grounded'
    BY <2>2 DEF SendContent, Grounded, IsCommit
  <2>3. ASSUME NEW d \in Device, NEW x \in Device, AddMember(d, x) PROVE Grounded'
    <3>1. x # d
      BY <2>3 DEF AddMember, Active
    <3> DEFINE c == [by |-> d, kind |-> "add", who |-> x]
               g == [at |-> at[d], body |-> c]
               w == [to |-> x, at |-> Append(at[d], c), by |-> d]
    <3>2. /\ net' = net \cup {g} /\ welcomes' = welcomes \cup {w}
          /\ pending' = pending /\ drain' = drain
      BY <2>3 DEF AddMember, CommitLocally
    <3>3. g.body = c /\ g.body.by # g.body.who /\ w.by # w.to
      BY <3>1
    <3>4. c = [by |-> w.by, kind |-> "add", who |-> w.to] /\ w.at = Append(g.at, g.body)
      OBVIOUS
    <3> HIDE DEF c, g, w
    <3>5. \A u \in welcomes' : \E f \in net' :
            /\ f.body = [by |-> u.by, kind |-> "add", who |-> u.to]
            /\ u.at = Append(f.at, f.body)
      BY <3>2, <3>3, <3>4 DEF Grounded
    <3>6. QED
      BY <3>2, <3>3, <3>5 DEF Grounded, IsCommit
  <2>4. ASSUME NEW d \in Device, NEW x \in Device, RemoveMember(d, x) PROVE Grounded'
    BY <2>4 DEF RemoveMember, CommitLocally, Grounded, IsCommit
  <2>5. ASSUME NEW d \in Device, NEW f \in net, ReceiveFuture(d, f) PROVE Grounded'
    <3>1. \A i \in DOMAIN BufferFuture(pending[d], f) : BufferFuture(pending[d], f)[i] \in net
      BY BufferFutureFrom DEF Grounded, TypeOK
    <3>2. QED
      BY <2>5, <3>1 DEF ReceiveFuture, Grounded, TypeOK
  <2>6. ASSUME NEW d \in Device, NEW f \in net, ReceiveContent(d, f) PROVE Grounded'
    BY <2>6 DEF ReceiveContent, Grounded
  <2>7. ASSUME NEW d \in Device, NEW f \in net, ReceiveCommit(d, f) PROVE Grounded'
    <3>1. CASE pending[d] = <<>>
      BY <2>7, <3>1 DEF ReceiveCommit, Grounded
    <3>2. CASE pending[d] # <<>>
      <4>1. /\ pending' = [pending EXCEPT ![d] = <<>>]
            /\ drain'   = [drain EXCEPT ![d] = Draining(pending[d])]
            /\ UNCHANGED <<net, welcomes>>
        BY <2>7, <3>2 DEF ReceiveCommit
      <4>2. Draining(pending[d]).batch = pending[d]
        BY DEF Draining
      <4>3. QED
        BY <4>1, <4>2 DEF Grounded, TypeOK
    <3>3. QED
      BY <3>1, <3>2
  <2>8. ASSUME NEW d \in Device, DrainFrame(d) PROVE Grounded'
    <3> DEFINE f == Head(drain[d].batch)
               q == BufferFuture(pending[d], f)
    <3>1. /\ drain[d].batch \in Seq(Frame) /\ drain[d].batch # <<>>
          /\ f \in net
          /\ \A i \in DOMAIN Tail(drain[d].batch) : Tail(drain[d].batch)[i] \in net
      BY <2>8 DEF DrainFrame, TypeOK, Grounded
    <3>2. drain'[d].batch = Tail(drain[d].batch)
      <4> DEFINE rest == [drain[d] EXCEPT !.batch = Tail(@)]
      <4>1. drain[d] = [on |-> drain[d].on, batch |-> drain[d].batch,
                        progress |-> drain[d].progress, recovered |-> drain[d].recovered]
        BY DEF TypeOK
      <4>2. \/ drain' = [drain EXCEPT ![d] = rest]
            \/ drain' = [drain EXCEPT ![d] = [rest EXCEPT !.progress = TRUE]]
            \/ drain' = [drain EXCEPT ![d] = [rest EXCEPT !.progress = TRUE,
                                                           !.recovered = @ \cup {f}]]
        BY <2>8 DEF DrainFrame
      <4>3. /\ rest.batch = Tail(drain[d].batch)
            /\ [rest EXCEPT !.progress = TRUE].batch = rest.batch
            /\ [rest EXCEPT !.progress = TRUE, !.recovered = @ \cup {f}].batch = rest.batch
        BY <4>1
      <4> HIDE DEF rest, f
      <4>4. \E r : drain' = [drain EXCEPT ![d] = r] /\ r.batch = Tail(drain[d].batch)
        BY <4>2, <4>3
      <4>5. QED
        BY <4>4 DEF TypeOK
    <3>3. \A e \in Device \ {d} : drain'[e] = drain[e]
      BY <2>8 DEF DrainFrame, TypeOK
    <3>4. pending' = pending \/ pending' = [pending EXCEPT ![d] = q]
      BY <2>8 DEF DrainFrame
    <3>5. \A i \in DOMAIN q : q[i] \in net
      BY <3>1, BufferFutureFrom DEF Grounded, TypeOK
    <3>6. net' = net /\ welcomes' = welcomes
      BY <2>8 DEF DrainFrame
    <3> HIDE DEF f, q
    <3>7. QED
      BY <3>1, <3>2, <3>3, <3>4, <3>5, <3>6 DEF Grounded, TypeOK
  <2>9. ASSUME NEW d \in Device, DrainFail(d) PROVE Grounded'
    BY <2>9 DEF DrainFail, Idle, Grounded, TypeOK
  <2>10. ASSUME NEW d \in Device, DrainAgain(d) PROVE Grounded'
    BY <2>10 DEF DrainAgain, Grounded, TypeOK
  <2>11. ASSUME NEW d \in Device, DrainDone(d) PROVE Grounded'
    BY <2>11 DEF DrainDone, Idle, Grounded, TypeOK
  <2>12. ASSUME NEW d \in Device, NEW w \in welcomes, Join(d, w) \/ Replace(d, w)
         PROVE  Grounded'
    <3>1. /\ UNCHANGED <<net, welcomes, drain>>
          /\ pending' = [pending EXCEPT ![d] = <<>>]
      BY <2>12 DEF Join, Replace, Adopt
    <3>2. QED
      BY <3>1 DEF Grounded, TypeOK, IsCommit
  <2>13. QED
    BY <2>1, <2>2, <2>3, <2>4, <2>5, <2>6, <2>7, <2>8, <2>9, <2>10, <2>11, <2>12 DEF Next
<1>3. QED
  BY <1>1, <1>2, TypeCorrect, PTL DEF Spec

-----------------------------------------------------------------------------
\* A published commit extends the chain by the history it leads to; any other
\* frame leaves the chain as it is.
LEMMA ChainGrows ==
  ASSUME NEW f, net' = net \cup {f}
  PROVE  Chain' = IF IsCommit(f) THEN Chain \cup {Append(f.at, f.body)} ELSE Chain
BY DEF Chain, IsCommit

\* One device making a commit is the abstract Author step.
LEMMA CommitLocallyIsAuthor ==
  ASSUME TypeOK, NEW d \in Device, NEW c \in Commit, Active(d), c.by = d, c.who # d,
         CommitLocally(d, c), UNCHANGED holds
  PROVE  Log!Author(d)
<1>1. /\ net' = net \cup {[at |-> at[d], body |-> c]}
      /\ at' = [at EXCEPT ![d] = Append(@, c)]
  BY DEF CommitLocally
<1>2. IsCommit([at |-> at[d], body |-> c])
  BY DEF IsCommit, Commit
<1>3. Chain' = Chain \cup {Append(at[d], c)}
  BY <1>1, <1>2, ChainGrows
<1>4. d \in holds
  BY DEF Active
<1>5. QED
  BY <1>1, <1>3, <1>4 DEF Log!Author, Log!Commit, Commit

\* Applying an authorized commit of somebody else is the abstract Follow step.
LEMMA ApplyIsFollow ==
  ASSUME TypeOK, NEW d \in Device, NEW f \in net,
         Openable(d, f), IsCommit(f), Authorized(f.body),
         at' = [at EXCEPT ![d] = Append(@, f.body)], UNCHANGED <<net, holds>>
  PROVE  Log!Follow(d)
<1>1. f.body \in Commit /\ d \in holds /\ f.body.by # d /\ f.at = at[d]
  BY DEF Openable, Active, IsCommit, TypeOK, Frame, Message
<1>2. Append(at[d], f.body) \in Chain /\ Chain' = Chain
  BY <1>1 DEF Chain, IsCommit
<1>3. f.body.kind = "remove" =>
        (Creator # NoOne /\ f.body.by = Creator) \/ f.body.by = f.body.who
  <2> SUFFICES ASSUME f.body.kind = "remove"
               PROVE  (Creator # NoOne /\ f.body.by = Creator) \/ f.body.by = f.body.who
    OBVIOUS
  <2> DEFINE r == [removed |-> f.body.who, proposer |-> f.body.by]
  <2>1. r \in StagedRemovals(f.body)
    BY DEF StagedRemovals
  <2>2. QED
    BY <2>1 DEF Authorized, RemovesAuthorized
<1>4. QED
  BY <1>1, <1>2, <1>3 DEF Log!Follow, Log!Commit, Commit

\* What a welcome introduces its addressee to is a link of the chain.
LEMMA WelcomeIntroduces ==
  ASSUME TypeOK, Grounded, NEW w \in welcomes
  PROVE  w.at \in Chain /\ Log!Introduces(w.at, w.by, w.to)
<1>1. PICK f \in net : /\ f.body = [by |-> w.by, kind |-> "add", who |-> w.to]
                       /\ w.at = Append(f.at, f.body)
  BY DEF Grounded
<1>2. IsCommit(f)
  BY <1>1 DEF IsCommit
<1>3. w.at \in Chain
  BY <1>1, <1>2 DEF Chain
<1>4. f.at \in Seq(Commit) /\ f.body \in Commit
  BY <1>2 DEF TypeOK, Frame, History, Message, IsCommit
<1>5. w.at # <<>> /\ w.at[Len(w.at)] = f.body
  BY <1>1, <1>4
<1>6. QED
  BY <1>1, <1>3, <1>5 DEF Log!Introduces

\* Every step of the group is a step of the abstract commit history or changes
\* nothing it can see.
LEMMA StepRefines ==
  ASSUME TypeOK, Grounded, [Next]_vars
  PROVE  [Log!Next]_<<holds, at, Chain>>
<1>1. CASE UNCHANGED <<holds, at, net>>
  BY <1>1 DEF Chain, IsCommit
<1>2. CASE UNCHANGED vars
  BY <1>1, <1>2 DEF vars
<1>3. ASSUME NEW d \in Device, SendContent(d) PROVE UNCHANGED <<holds, at, Chain>>
  <2>1. PICK n \in 1 .. MaxApp :
          net' = net \cup {[at |-> at[d], body |-> [by |-> d, kind |-> "app", n |-> n]]}
    BY <1>3 DEF SendContent
  <2>2. ~IsCommit([at |-> at[d], body |-> [by |-> d, kind |-> "app", n |-> n]])
    BY DEF IsCommit
  <2>3. QED
    BY <1>3, <2>1, <2>2, ChainGrows DEF SendContent
<1>4. ASSUME NEW d \in Device, NEW x \in Device, AddMember(d, x) PROVE Log!Author(d)
  <2> DEFINE c == [by |-> d, kind |-> "add", who |-> x]
  <2>1. /\ c \in Commit /\ c.by = d /\ c.who # d
        /\ Active(d) /\ CommitLocally(d, c) /\ UNCHANGED holds
    BY <1>4 DEF AddMember, Active, Commit
  <2> HIDE DEF c
  <2>2. QED
    BY <2>1, CommitLocallyIsAuthor
<1>5. ASSUME NEW d \in Device, NEW x \in Device, RemoveMember(d, x) PROVE Log!Author(d)
  <2> DEFINE c == [by |-> d, kind |-> "remove", who |-> x]
  <2>1. /\ c \in Commit /\ c.by = d /\ c.who # d
        /\ Active(d) /\ CommitLocally(d, c) /\ UNCHANGED holds
    BY <1>5 DEF RemoveMember, Commit
  <2> HIDE DEF c
  <2>2. QED
    BY <2>1, CommitLocallyIsAuthor
<1>6. ASSUME NEW d \in Device, NEW f \in net, ReceiveCommit(d, f) PROVE Log!Follow(d)
  BY <1>6, ApplyIsFollow DEF ReceiveCommit
<1>7. ASSUME NEW d \in Device, DrainFrame(d)
      PROVE  Log!Follow(d) \/ UNCHANGED <<holds, at, net>>
  <2> DEFINE f == Head(drain[d].batch)
  <2>1. f \in net
    BY <1>7 DEF DrainFrame, TypeOK, Grounded
  <2>2. UNCHANGED <<holds, net>>
    BY <1>7 DEF DrainFrame
  <2>3. \/ UNCHANGED at
        \/ /\ Openable(d, f) /\ IsCommit(f) /\ Authorized(f.body)
           /\ at' = [at EXCEPT ![d] = Append(@, f.body)]
    BY <1>7 DEF DrainFrame
  <2> HIDE DEF f
  <2>4. QED
    BY <2>1, <2>2, <2>3, ApplyIsFollow
<1>8. ASSUME NEW d \in Device, NEW w \in welcomes, Join(d, w) PROVE Log!Enter(d)
  <2>1. /\ d \notin holds /\ w.to = d /\ w.by \in Device
        /\ holds' = holds \cup {d} /\ at' = [at EXCEPT ![d] = w.at] /\ UNCHANGED net
    BY <1>8 DEF Join, Adopt, TypeOK, Welcome
  <2>2. UNCHANGED Chain
    BY <2>1 DEF Chain, IsCommit
  <2>3. QED
    BY <2>1, <2>2, WelcomeIntroduces DEF Log!Enter
<1>9. ASSUME NEW d \in Device, NEW w \in welcomes, Replace(d, w) PROVE Log!Reenter(d)
  <2>1. /\ d \in holds /\ w.to = d /\ w.by = Creator /\ Creator # NoOne
        /\ Len(w.at) > Len(at[d])
        /\ UNCHANGED holds /\ at' = [at EXCEPT ![d] = w.at] /\ UNCHANGED net
    BY <1>9 DEF Replace, ReplaceAuthorized, Adopt
  <2>2. UNCHANGED Chain
    BY <2>1 DEF Chain, IsCommit
  <2>3. QED
    BY <2>1, <2>2, WelcomeIntroduces DEF Log!Reenter
<1>10. ASSUME NEW d \in Device,
              \/ \E f \in net : ReceiveFuture(d, f) \/ ReceiveContent(d, f)
              \/ DrainFail(d) \/ DrainAgain(d) \/ DrainDone(d)
       PROVE  UNCHANGED <<holds, at, net>>
  BY <1>10 DEF ReceiveFuture, ReceiveContent, DrainFail, DrainAgain, DrainDone
<1>11. QED
  BY <1>1, <1>2, <1>3, <1>4, <1>5, <1>6, <1>7, <1>8, <1>9, <1>10 DEF Next, Log!Next

\* The group implements the abstract commit history, for every set of devices,
\* buffer size and threshold.
THEOREM Implements == Spec => ImplementsCommitHistory
<1>1. Init => Log!Init
  BY DEF Init, Log!Init, Chain
<1>2. TypeOK /\ Grounded /\ [Next]_vars => [Log!Next]_<<holds, at, Chain>>
  BY StepRefines
<1>3. QED
  BY <1>1, <1>2, TypeCorrect, GroundedInvariant, PTL DEF Spec, ImplementsCommitHistory, Log!Spec

-----------------------------------------------------------------------------
\* No step takes a device back to an epoch it has left, whatever is delivered.
THEOREM NeverBack == Spec => EpochNeverBack
<1> DEFINE Forward == \A d \in holds : at'[d] # at[d] => Len(at'[d]) > Len(at[d])
<1>1. TypeOK /\ [Log!Next]_<<holds, at, Chain>> => Forward
  <2> SUFFICES ASSUME TypeOK, [Log!Next]_<<holds, at, Chain>>,
                      NEW d \in holds, at'[d] # at[d]
               PROVE  Len(at'[d]) > Len(at[d])
    OBVIOUS
  <2>1. d \in Device /\ at[d] \in Seq(Commit)
    BY DEF TypeOK, History
  <2>2. \/ \E c : at'[d] = Append(at[d], c)
        \/ \E h : at'[d] = h /\ Len(h) > Len(at[d])
    BY <2>1 DEF Log!Next, Log!Author, Log!Follow, Log!Enter, Log!Reenter, TypeOK
  <2>3. QED
    BY <2>1, <2>2
<1>2. TypeOK /\ Grounded /\ [Next]_vars => [Forward]_vars
  BY <1>1, StepRefines
<1>3. QED
  BY <1>2, TypeCorrect, GroundedInvariant, PTL DEF Spec, EpochNeverBack

-----------------------------------------------------------------------------
\* No Remove of the creator in the creator's own history.
CreatorKept ==
  Creator # NoOne =>
    /\ Creator \in holds
    /\ \A i \in DOMAIN at[Creator] :
         ~(at[Creator][i].kind = "remove" /\ at[Creator][i].who = Creator)

\* Nobody but itself puts the creator out of its own group, in any number of
\* devices, modified clients and commits.
THEOREM CreatorStays == Spec => []CreatorNeverEvicted
<1>1. Init => CreatorKept
  BY ConstantsOK DEF Init, CreatorKept
<1>2. TypeOK /\ Grounded /\ CreatorKept /\ [Next]_vars => CreatorKept'
  <2> SUFFICES ASSUME TypeOK, Grounded, CreatorKept, [Log!Next]_<<holds, at, Chain>>,
                      Creator # NoOne
               PROVE  /\ Creator \in holds'
                      /\ \A i \in DOMAIN at'[Creator] :
                           ~(at'[Creator][i].kind = "remove" /\ at'[Creator][i].who = Creator)
    BY StepRefines DEF CreatorKept
  <2>1. Creator \in Device /\ Creator \in holds /\ at[Creator] \in Seq(Commit)
    BY ConstantsOK DEF CreatorKept, TypeOK, History
  <2>2. Creator \in holds'
    BY <2>1 DEF Log!Next, Log!Author, Log!Follow, Log!Enter, Log!Reenter
  <2> DEFINE KeptOrSafe ==
               \/ at'[Creator] = at[Creator]
               \/ \E c \in Commit : /\ at'[Creator] = Append(at[Creator], c)
                                    /\ ~(c.kind = "remove" /\ c.who = Creator)
  <2>3. KeptOrSafe
    <3>1. CASE UNCHANGED at
      BY <3>1
    <3>2. ASSUME NEW d \in Device, Log!Author(d) PROVE KeptOrSafe
      <4>1. PICK c \in Commit : c.who # d /\ c.by = d /\ at' = [at EXCEPT ![d] = Append(@, c)]
        BY <3>2 DEF Log!Author, Log!Commit, Commit
      <4>2. QED
        BY <2>1, <4>1 DEF TypeOK
    <3>3. ASSUME NEW d \in Device, Log!Follow(d) PROVE KeptOrSafe
      <4>1. PICK c \in Commit :
              /\ c.by # d /\ at' = [at EXCEPT ![d] = Append(@, c)]
              /\ c.kind = "remove" => c.by = Creator \/ c.by = c.who
        BY <3>3 DEF Log!Follow, Log!Commit, Commit
      <4>2. QED
        BY <2>1, <4>1 DEF TypeOK
    <3>4. ASSUME NEW d \in Device, Log!Enter(d) PROVE KeptOrSafe
      BY <2>1, <3>4 DEF Log!Enter, TypeOK
    <3>5. ASSUME NEW d \in Device, Log!Reenter(d) PROVE KeptOrSafe
      <4>1. PICK h \in Chain : /\ Log!Introduces(h, Creator, d)
                               /\ at' = [at EXCEPT ![d] = h]
        BY <3>5 DEF Log!Reenter
      <4>2. d # Creator
        <5> SUFFICES ASSUME d = Creator PROVE FALSE
          OBVIOUS
        <5>1. h # <<>> /\ h[Len(h)].by = Creator /\ h[Len(h)].who = Creator
          BY <4>1 DEF Log!Introduces
        <5>2. PICK f \in net : IsCommit(f) /\ h = Append(f.at, f.body)
          BY <5>1 DEF Chain
        <5>3. f.at \in Seq(Commit) /\ f.body \in Commit
          BY <5>2 DEF TypeOK, Frame, History, Message, IsCommit
        <5>4. h[Len(h)] = f.body
          BY <5>2, <5>3
        <5>5. QED
          BY <5>1, <5>2, <5>4 DEF Grounded
      <4>3. QED
        BY <2>1, <4>1, <4>2 DEF TypeOK
    <3>6. QED
      BY <3>1, <3>2, <3>3, <3>4, <3>5 DEF Log!Next
  <2>4. ASSUME NEW i \in DOMAIN at'[Creator]
        PROVE  ~(at'[Creator][i].kind = "remove" /\ at'[Creator][i].who = Creator)
    <3> DEFINE h == at[Creator]
    <3>1. \A j \in DOMAIN h : ~(h[j].kind = "remove" /\ h[j].who = Creator)
      BY DEF CreatorKept
    <3>2. CASE at'[Creator] = h
      BY <2>4, <3>1, <3>2
    <3>3. CASE at'[Creator] # h
      <4>1. PICK c \in Commit : /\ at'[Creator] = Append(h, c)
                                /\ ~(c.kind = "remove" /\ c.who = Creator)
        BY <2>3, <3>3
      <4>2. h \in Seq(Commit)
        BY <2>1
      <4> HIDE DEF h
      <4>3. /\ i \in 1 .. Len(h) + 1
            /\ at'[Creator][i] = IF i <= Len(h) THEN h[i] ELSE c
        BY <2>4, <4>1, <4>2
      <4>4. QED
        BY <3>1, <4>1, <4>2, <4>3
    <3>4. QED
      BY <3>2, <3>3
  <2>5. QED
    BY <2>2, <2>4
<1>3. TypeOK /\ CreatorKept => CreatorNeverEvicted
  BY ConstantsOK DEF CreatorKept, CreatorNeverEvicted, Roster
<1>4. QED
  BY <1>1, <1>2, <1>3, TypeCorrect, GroundedInvariant, PTL DEF Spec

\* No frame and no holder of the group is ever taken back.
LEMMA NetGrows ==
  ASSUME [Next]_vars
  PROVE  net \subseteq net' /\ holds \subseteq holds'
<1>1. ASSUME NEW d \in Device, SendContent(d) PROVE net \subseteq net' /\ UNCHANGED holds
  BY <1>1 DEF SendContent
<1>2. ASSUME NEW d \in Device, NEW x \in Device, AddMember(d, x) \/ RemoveMember(d, x)
      PROVE  net \subseteq net' /\ UNCHANGED holds
  BY <1>2 DEF AddMember, RemoveMember, CommitLocally
<1>3. ASSUME NEW d \in Device, NEW f \in net,
             ReceiveFuture(d, f) \/ ReceiveContent(d, f) \/ ReceiveCommit(d, f)
      PROVE  UNCHANGED <<net, holds>>
  BY <1>3 DEF ReceiveFuture, ReceiveContent, ReceiveCommit
<1>4. ASSUME NEW d \in Device, DrainFrame(d) \/ DrainFail(d) \/ DrainAgain(d) \/ DrainDone(d)
      PROVE  UNCHANGED <<net, holds>>
  BY <1>4 DEF DrainFrame, DrainFail, DrainAgain, DrainDone
<1>5. ASSUME NEW d \in Device, NEW w \in welcomes, Join(d, w) \/ Replace(d, w)
      PROVE  net' = net /\ holds \subseteq holds'
  BY <1>5 DEF Join, Replace, Adopt
<1>6. CASE UNCHANGED vars
  BY <1>6 DEF vars
<1>7. QED
  BY <1>1, <1>2, <1>3, <1>4, <1>5, <1>6 DEF Next

\* Only a device of the group publishes, and a frame carries its author and its history.
LEMMA NewFrame ==
  ASSUME [Next]_vars, NEW f \in net' \ net
  PROVE  \E d \in Device : Active(d) /\ ~drain[d].on /\ f.body.by = d /\ f.at = at[d]
<1>1. \E d \in Device : SendContent(d) \/ \E x \in Device : AddMember(d, x) \/ RemoveMember(d, x)
  BY ZenonT(40) DEF Next, vars, ReceiveFuture, ReceiveContent, ReceiveCommit, DrainFrame, DrainFail,
         DrainAgain, DrainDone, Join, Replace, Adopt
<1>2. PICK d \in Device : SendContent(d) \/ \E x \in Device : AddMember(d, x) \/ RemoveMember(d, x)
  BY <1>1
<1>3. Active(d) /\ ~drain[d].on /\ \E b : b.by = d /\ net' = net \cup {[at |-> at[d], body |-> b]}
  <2>1. CASE SendContent(d)
    BY <2>1 DEF SendContent
  <2>2. ASSUME NEW x \in Device, AddMember(d, x) \/ RemoveMember(d, x)
        PROVE  Active(d) /\ ~drain[d].on /\ \E b : b.by = d /\ net' = net \cup {[at |-> at[d], body |-> b]}
    BY <2>2 DEF AddMember, RemoveMember, CommitLocally
  <2>3. QED
    BY <1>2, <2>1, <2>2
<1>4. QED
  BY <1>3

-----------------------------------------------------------------------------
\* Nobody but the creator has added members so far.
OnlyItAdds == \A f \in net : f.body.kind = "add" => f.body.by = Creator

\* Every unmodified client is on the creator's history.
Following == \A d \in holds \ Unchecked : PrefixOf(at[d], at[Creator])

\* When only the creator adds: every Add is the creator's, everything the creator
\* published lies on its own history, and honest devices are on it too.
Led ==
  /\ \A f \in net : IsCommit(f) =>
       /\ f.body.kind = "add" => f.body.by = Creator
       /\ f.body.by = Creator => PrefixOf(Append(f.at, f.body), at[Creator])
  /\ Following

\* A prefix of a history is a prefix of what the history grows into.
LEMMA PrefixGrows ==
  ASSUME NEW s \in History, NEW t \in History, NEW c \in Commit, PrefixOf(s, t)
  PROVE  PrefixOf(s, Append(t, c))
BY DEF PrefixOf, History

\* A history is a prefix of itself.
LEMMA PrefixSelf ==
  ASSUME NEW s \in History
  PROVE  PrefixOf(s, s)
BY DEF PrefixOf, History

\* A commit of the creator carries everybody's relation to its history along.
LEMMA LedByCreator ==
  ASSUME TypeOK, Led, Creator \in Device, NEW c \in Commit, c.by = Creator,
         CommitLocally(Creator, c), UNCHANGED holds
  PROVE  Led'
<1> DEFINE g == [at |-> at[Creator], body |-> c]
<1>1. /\ net' = net \cup {g} /\ at' = [at EXCEPT ![Creator] = Append(@, c)]
      /\ at[Creator] \in History /\ Append(at[Creator], c) \in History
  BY DEF CommitLocally, TypeOK, History
<1>2. at'[Creator] = Append(at[Creator], c)
  BY <1>1 DEF TypeOK
<1>3. \A f \in net' : IsCommit(f) =>
        /\ f.body.kind = "add" => f.body.by = Creator
        /\ f.body.by = Creator => PrefixOf(Append(f.at, f.body), at'[Creator])
  <2>1. ASSUME NEW f \in net, IsCommit(f), f.body.by = Creator
        PROVE  PrefixOf(Append(f.at, f.body), at'[Creator])
    <3>1. Append(f.at, f.body) \in History
      BY <2>1 DEF IsCommit, TypeOK, Frame, Message, History
    <3>2. QED
      BY <1>1, <1>2, <2>1, <3>1, PrefixGrows DEF Led
  <2>2. PrefixOf(Append(g.at, g.body), at'[Creator])
    BY <1>1, <1>2, PrefixSelf
  <2>3. g.body.by = Creator
    OBVIOUS
  <2> HIDE DEF g
  <2>4. QED
    BY <1>1, <2>1, <2>2, <2>3 DEF Led
<1>4. ASSUME NEW d \in holds' \ Unchecked PROVE PrefixOf(at'[d], at'[Creator])
  <2>1. d \in Device /\ at[d] \in History /\ PrefixOf(at[d], at[Creator])
    BY DEF Led, Following, TypeOK
  <2>2. CASE d = Creator
    BY <1>1, <1>2, <2>2, PrefixSelf
  <2>3. CASE d # Creator
    BY <1>1, <1>2, <2>1, <2>3, PrefixGrows DEF TypeOK
  <2>4. QED
    BY <2>2, <2>3
<1>5. QED
  BY <1>3, <1>4 DEF Led, Following, IsCommit

\* Any other device may move along the creator's history, and only a modified one
\* away from it.
LEMMA LedBesideCreator ==
  ASSUME TypeOK, Led, Creator \in Device, NEW d \in Device \ {Creator}, NEW h \in History,
         d \in Unchecked \/ PrefixOf(h, at[Creator]),
         at' = [at EXCEPT ![d] = h],
         holds' = holds \/ holds' = holds \cup {d},
         \A f \in net' \ net : IsCommit(f) => f.body.kind # "add" /\ f.body.by = d
  PROVE  Led'
<1>1. at'[Creator] = at[Creator] /\ at'[d] = h
  BY DEF TypeOK
<1>2. ASSUME NEW e \in holds' \ Unchecked PROVE PrefixOf(at'[e], at'[Creator])
  <2>1. CASE e = d
    BY <1>1, <2>1
  <2>2. CASE e # d
    BY <1>1, <2>2 DEF Led, Following, TypeOK
  <2>3. QED
    BY <2>1, <2>2
<1>3. \A f \in net' : IsCommit(f) =>
        /\ f.body.kind = "add" => f.body.by = Creator
        /\ f.body.by = Creator => PrefixOf(Append(f.at, f.body), at'[Creator])
  BY <1>1 DEF Led
<1>4. QED
  BY <1>2, <1>3 DEF Led, Following, IsCommit

\* Only the creator's commits are authorized on anybody else's device, and none is
\* on the creator's.
LEMMA AppliedIsCreators ==
  ASSUME TypeOK, Grounded, Led, NEW d \in Device, NEW f \in net,
         Openable(d, f), IsCommit(f), Authorized(f.body)
  PROVE  /\ f.body.by = Creator /\ d # Creator
         /\ Append(at[d], f.body) \in History
         /\ PrefixOf(Append(at[d], f.body), at[Creator])
<1>1. f.body \in Commit /\ f.body.by # d /\ f.at = at[d] /\ at[d] \in History
  BY DEF Openable, IsCommit, TypeOK, Frame, Message
<1>2. f.body.by = Creator
  <2>1. CASE f.body.kind = "add"
    BY <2>1 DEF Led
  <2>2. CASE f.body.kind = "remove"
    <3> DEFINE r == [removed |-> f.body.who, proposer |-> f.body.by]
    <3>1. r \in StagedRemovals(f.body) /\ r.removed # r.proposer
      BY <2>2 DEF StagedRemovals, Grounded
    <3>2. QED
      BY <3>1 DEF Authorized, RemovesAuthorized
  <2>3. QED
    BY <1>1, <2>1, <2>2 DEF Commit
<1>3. QED
  BY <1>1, <1>2 DEF Led, History

\* As long as only the recorded creator has added members, no unmodified client has
\* left the creator's history, however many modified clients forge Removes.
LEMMA LedAlways ==
  ASSUME Creator # NoOne
  PROVE  Spec => [](OnlyItAdds => Led)
<1>0. Creator \in Device
  BY ConstantsOK
<1>1. Init => (OnlyItAdds => Led)
  <2> SUFFICES ASSUME Init PROVE Led
    OBVIOUS
  <2>1. net = {} /\ \A d \in holds : at[d] = <<>> /\ at[Creator] = <<>>
    BY <1>0, ConstantsOK DEF Init
  <2>2. PrefixOf(<<>>, <<>>)
    BY DEF PrefixOf
  <2>3. QED
    BY <2>1, <2>2 DEF Led, Following
<1>2. TypeOK /\ Grounded /\ (OnlyItAdds => Led) /\ [Next]_vars => (OnlyItAdds => Led)'
  <2> SUFFICES ASSUME TypeOK, Grounded, OnlyItAdds => Led, [Next]_vars, OnlyItAdds' PROVE Led'
    OBVIOUS
  <2>0. Led
    BY NetGrows DEF OnlyItAdds
  <2>1. CASE UNCHANGED <<holds, at, net>>
    BY <2>0, <2>1 DEF Led, Following, IsCommit
  <2>2. CASE UNCHANGED vars
    BY <2>1, <2>2 DEF vars
  <2>3. ASSUME NEW d \in Device, SendContent(d) PROVE Led'
    <3>1. UNCHANGED <<holds, at>>
      BY <2>3 DEF SendContent
    <3>2. \A f \in net' \ net : ~IsCommit(f)
      BY <2>3 DEF SendContent, IsCommit
    <3>3. QED
      BY <2>0, <3>1, <3>2 DEF Led, Following, IsCommit
  <2>4. ASSUME NEW d \in Device, NEW x \in Device, AddMember(d, x) PROVE Led'
    <3> DEFINE c == [by |-> d, kind |-> "add", who |-> x]
    <3>1. c \in Commit /\ CommitLocally(d, c) /\ UNCHANGED holds
      BY <2>4 DEF AddMember, Commit
    <3>2. c.by = d /\ c.kind = "add"
      OBVIOUS
    <3>3. d = Creator
      <4>1. [at |-> at[d], body |-> c] \in net'
        BY <3>1 DEF CommitLocally
      <4>2. QED
        BY <3>2, <4>1 DEF OnlyItAdds
    <3> HIDE DEF c
    <3>4. QED
      BY <1>0, <2>0, <3>1, <3>2, <3>3, LedByCreator
  <2>5. ASSUME NEW d \in Device, NEW x \in Device, RemoveMember(d, x) PROVE Led'
    <3> DEFINE c == [by |-> d, kind |-> "remove", who |-> x]
    <3>1. /\ d \in Unchecked \/ d = Creator
          /\ c \in Commit /\ c.by = d /\ c.kind = "remove"
          /\ CommitLocally(d, c) /\ UNCHANGED holds
      BY <2>5 DEF RemoveMember, Commit
    <3> HIDE DEF c
    <3>2. CASE d = Creator
      BY <1>0, <2>0, <3>1, <3>2, LedByCreator
    <3>3. CASE d # Creator
      <4>1. /\ net' = net \cup {[at |-> at[d], body |-> c]}
            /\ at' = [at EXCEPT ![d] = Append(at[d], c)]
            /\ Append(at[d], c) \in History
        BY <3>1 DEF CommitLocally, TypeOK, History
      <4>2. \A f \in net' \ net : f.body.kind # "add" /\ f.body.by = d
        BY <3>1, <4>1
      <4>3. QED
        BY <1>0, <2>0, <3>1, <3>3, <4>1, <4>2, LedBesideCreator
    <3>4. QED
      BY <3>2, <3>3
  <2>6. ASSUME NEW d \in Device, NEW f \in net, Openable(d, f), IsCommit(f),
               Authorized(f.body), at' = [at EXCEPT ![d] = Append(at[d], f.body)],
               UNCHANGED <<holds, net>>
        PROVE  Led'
    BY <1>0, <2>0, <2>6, AppliedIsCreators, LedBesideCreator
  <2>7. ASSUME NEW d \in Device, NEW f \in net, ReceiveCommit(d, f) PROVE Led'
    BY <2>6, <2>7 DEF ReceiveCommit
  <2>8. ASSUME NEW d \in Device, DrainFrame(d) PROVE Led'
    <3> DEFINE f == Head(drain[d].batch)
    <3>1. f \in net /\ UNCHANGED <<holds, net>>
      BY <2>8 DEF DrainFrame, TypeOK, Grounded
    <3>2. \/ UNCHANGED at
          \/ /\ Openable(d, f) /\ IsCommit(f) /\ Authorized(f.body)
             /\ at' = [at EXCEPT ![d] = Append(@, f.body)]
      BY <2>8 DEF DrainFrame
    <3> HIDE DEF f
    <3>3. QED
      BY <2>1, <2>6, <3>1, <3>2
  <2>9. ASSUME NEW d \in Device, NEW w \in welcomes, Join(d, w) \/ Replace(d, w) PROVE Led'
    <3>1. PICK f \in net : /\ f.body = [by |-> w.by, kind |-> "add", who |-> w.to]
                           /\ w.at = Append(f.at, f.body)
      BY DEF Grounded
    <3>2. IsCommit(f) /\ f.body.kind = "add" /\ f.body.by = w.by
      BY <3>1 DEF IsCommit
    <3>3. w.by = Creator /\ PrefixOf(w.at, at[Creator]) /\ w.by # w.to
      BY <2>0, <3>1, <3>2 DEF Led, Grounded
    <3>4. w.at \in History /\ w.to = d
      BY <2>9 DEF TypeOK, Welcome, Join, Replace
    <3>5. /\ at' = [at EXCEPT ![d] = w.at] /\ UNCHANGED net
          /\ holds' = holds \/ holds' = holds \cup {d}
      BY <2>9 DEF Join, Replace, Adopt
    <3>6. QED
      BY <1>0, <2>0, <3>3, <3>4, <3>5, LedBesideCreator
  <2>10. ASSUME NEW d \in Device,
                \/ \E f \in net : ReceiveFuture(d, f) \/ ReceiveContent(d, f)
                \/ DrainFail(d) \/ DrainAgain(d) \/ DrainDone(d)
         PROVE  Led'
    BY <2>1, <2>10 DEF ReceiveFuture, ReceiveContent, DrainFail, DrainAgain, DrainDone
  <2>11. QED
    BY <2>2, <2>3, <2>4, <2>5, <2>7, <2>8, <2>9, <2>10 DEF Next
<1>3. QED
  BY <1>1, <1>2, TypeCorrect, GroundedInvariant, PTL DEF Spec

\* As long as only the recorded creator has added members, every unmodified client is on
\* its history, for any number of members, committers and modified clients.
THEOREM HonestStay == Spec => []HonestFollowCreator
<1>1. CASE Creator = NoOne
  <2>1. HonestFollowCreator
    BY <1>1 DEF HonestFollowCreator
  <2>2. QED
    BY <2>1, PTL
<1>2. CASE Creator # NoOne
  <2>1. (OnlyItAdds => Led) => HonestFollowCreator
    BY DEF OnlyItAdds, Led, Following, HonestFollowCreator
  <2>2. QED
    BY <1>2, <2>1, LedAlways, PTL
<1>3. QED
  BY <1>1, <1>2

-----------------------------------------------------------------------------
\* A device that is not draining has nothing in hand.
HandsEmpty == \A d \in Device : ~drain[d].on => drain[d].recovered = {} /\ drain[d].batch = <<>>

\* What a step of d does to what it has opened and handed over, and to its drain.
LEMMA DrainSteps ==
  ASSUME TypeOK, HandsEmpty, NEW d \in Device,
         \/ SendContent(d)
         \/ \E x \in Device : AddMember(d, x) \/ RemoveMember(d, x)
         \/ \E f \in net : ReceiveFuture(d, f) \/ ReceiveContent(d, f) \/ ReceiveCommit(d, f)
         \/ DrainFrame(d) \/ DrainAgain(d) \/ DrainDone(d)
         \/ \E w \in welcomes : Join(d, w) \/ Replace(d, w)
  PROVE  /\ \A x \in Device \ {d} :
              opened'[x] = opened[x] /\ surfaced'[x] = surfaced[x] /\ drain'[x] = drain[x]
         /\ Adrift(d)' \subseteq Adrift(d)
         /\ ~drain'[d].on => drain'[d].recovered = {} /\ drain'[d].batch = <<>>
<1> DEFINE Kept == /\ \A x \in Device \ {d} :
                        opened'[x] = opened[x] /\ surfaced'[x] = surfaced[x] /\ drain'[x] = drain[x]
                   /\ Adrift(d)' \subseteq Adrift(d)
                   /\ ~drain'[d].on => drain'[d].recovered = {} /\ drain'[d].batch = <<>>
<1>0. /\ opened \in [Device -> SUBSET Frame] /\ surfaced \in [Device -> SUBSET Frame]
      /\ drain \in [Device -> [on : BOOLEAN, batch : Seq(Frame), progress : BOOLEAN,
                               recovered : SUBSET Frame]]
      /\ ~drain[d].on => drain[d].recovered = {} /\ drain[d].batch = <<>>
  BY DEF TypeOK, HandsEmpty
<1>1. CASE UNCHANGED <<opened, surfaced, drain>>
  BY <1>0, <1>1 DEF Adrift
<1>2. ASSUME NEW f \in net, ReceiveContent(d, f) PROVE Kept
  <2>1. /\ opened' = [opened EXCEPT ![d] = @ \cup {f}]
        /\ surfaced' = [surfaced EXCEPT ![d] = @ \cup {f}] /\ drain' = drain
    BY <1>2 DEF ReceiveContent
  <2>2. QED
    BY <1>0, <2>1 DEF Adrift
<1>3. ASSUME NEW f \in net, ReceiveCommit(d, f) PROVE Kept
  <2>1. /\ UNCHANGED <<opened, surfaced>> /\ ~drain[d].on
        /\ \/ UNCHANGED drain
           \/ drain' = [drain EXCEPT ![d] = Draining(pending[d])]
    BY <1>3 DEF ReceiveCommit
  <2>2. Draining(pending[d]).recovered = {} /\ Draining(pending[d]).on
    BY DEF Draining
  <2>3. QED
    BY <1>0, <2>1, <2>2 DEF Adrift
<1>4. CASE DrainFrame(d)
  <2>1. UNCHANGED surfaced
    BY <1>4 DEF DrainFrame
  <2> DEFINE f == Head(drain[d].batch)
             rest == [drain[d] EXCEPT !.batch = Tail(@)]
  <2>2. /\ rest.on = drain[d].on /\ rest.recovered = drain[d].recovered
        /\ [rest EXCEPT !.progress = TRUE].on = drain[d].on
        /\ [rest EXCEPT !.progress = TRUE].recovered = drain[d].recovered
        /\ [rest EXCEPT !.progress = TRUE, !.recovered = @ \cup {f}].on = drain[d].on
        /\ [rest EXCEPT !.progress = TRUE, !.recovered = @ \cup {f}].recovered
             = drain[d].recovered \cup {f}
    BY <1>0
  <2> HIDE DEF f
  <2>3. \/ /\ UNCHANGED opened
           /\ \/ drain' = [drain EXCEPT ![d] = rest]
              \/ drain' = [drain EXCEPT ![d] = [rest EXCEPT !.progress = TRUE]]
        \/ /\ opened' = [opened EXCEPT ![d] = @ \cup {f}]
           /\ drain' = [drain EXCEPT ![d] =
                           [rest EXCEPT !.progress = TRUE, !.recovered = @ \cup {f}]]
    BY <1>4, Zenon DEF DrainFrame, f
  <2> HIDE DEF rest
  <2>on. drain[d].on
    BY <1>0, <1>4 DEF DrainFrame
  <2>4. CASE UNCHANGED opened /\ drain' = [drain EXCEPT ![d] = rest]
    BY <1>0, <2>1, <2>2, <2>4, <2>on DEF Adrift
  <2>5. CASE UNCHANGED opened /\ drain' = [drain EXCEPT ![d] = [rest EXCEPT !.progress = TRUE]]
    <3>1. DOMAIN drain = Device /\ \A x \in Device : drain'[x] =
            IF x = d THEN [rest EXCEPT !.progress = TRUE] ELSE drain[x]
      BY <1>0, <2>5, Zenon
    <3>2. drain'[d].on = drain[d].on /\ drain'[d].recovered = drain[d].recovered
      BY <2>2, <3>1
    <3>3. QED
      BY <1>0, <2>1, <2>5, <2>on, <3>1, <3>2 DEF Adrift
  <2>6. CASE /\ opened' = [opened EXCEPT ![d] = @ \cup {f}]
             /\ drain' = [drain EXCEPT ![d] =
                           [rest EXCEPT !.progress = TRUE, !.recovered = @ \cup {f}]]
    <3>1. \A x \in Device : drain'[x] =
            IF x = d THEN [rest EXCEPT !.progress = TRUE, !.recovered = @ \cup {f}] ELSE drain[x]
      BY <1>0, <2>6, Zenon
    <3>2. drain'[d].on = drain[d].on /\ drain'[d].recovered = drain[d].recovered \cup {f}
      BY <2>2, <3>1
    <3>3. /\ \A x \in Device \ {d} : drain'[x] = drain[x] /\ opened'[x] = opened[x]
          /\ opened'[d] = opened[d] \cup {f}
      BY <1>0, <2>6, <3>1
    <3>4. Adrift(d)' \subseteq Adrift(d)
      BY <2>1, <3>2, <3>3 DEF Adrift
    <3>5. ~drain'[d].on => drain'[d].recovered = {} /\ drain'[d].batch = <<>>
      BY <3>2, <2>on
    <3>6. QED
      BY <2>1, <3>3, <3>4, <3>5
  <2>7. QED
    BY <2>3, <2>4, <2>5, <2>6
<1>5. CASE DrainAgain(d)
  <2>1. /\ UNCHANGED <<opened, surfaced>> /\ drain[d].on
        /\ drain' = [drain EXCEPT ![d].batch = pending[d], ![d].progress = FALSE]
    BY <1>5 DEF DrainAgain
  <2>2. drain'[d].recovered = drain[d].recovered /\ drain'[d].on
    BY <1>0, <2>1
  <2>3. QED
    BY <1>0, <2>1, <2>2 DEF Adrift
<1>6. CASE DrainDone(d)
  <2>1. /\ UNCHANGED opened
        /\ surfaced' = [surfaced EXCEPT ![d] = @ \cup drain[d].recovered]
        /\ drain' = [drain EXCEPT ![d] = Idle]
    BY <1>6 DEF DrainDone
  <2>2. Idle.recovered = {} /\ Idle.batch = <<>>
    BY DEF Idle
  <2>3. QED
    BY <1>0, <2>1, <2>2 DEF Adrift
<1>7. QED
  BY <1>1, <1>2, <1>3, <1>4, <1>5, <1>6
     DEF SendContent, AddMember, RemoveMember, ReceiveFuture, Join, Replace, Adopt

\* Only a drain that fails loses a message that has been opened, for any number of
\* devices, any buffer and whatever commits, welcomes and frames come in between.
THEOREM LosesOnlyByFailure == Spec => OnlyFailureLoses
<1> DEFINE Lossless == \A d \in Device : Adrift(d)' \subseteq Adrift(d) \/ DrainFail(d)
<1>1. Init => HandsEmpty
  BY DEF Init, HandsEmpty, Idle
<1>2. TypeOK /\ HandsEmpty /\ [Next]_vars => HandsEmpty' /\ [Lossless]_vars
  <2> SUFFICES ASSUME TypeOK, HandsEmpty, [Next]_vars PROVE HandsEmpty' /\ [Lossless]_vars
    OBVIOUS
  <2>1. CASE UNCHANGED vars
    BY <2>1 DEF vars, HandsEmpty
  <2>2. ASSUME NEW d \in Device, DrainFail(d) PROVE HandsEmpty' /\ Lossless
    <3>1. /\ UNCHANGED <<opened, surfaced>> /\ drain' = [drain EXCEPT ![d] = Idle]
          /\ DOMAIN drain = Device /\ Idle.recovered = {} /\ Idle.batch = <<>>
      BY <2>2 DEF DrainFail, Idle, TypeOK
    <3>2. QED
      BY <2>2, <3>1 DEF HandsEmpty, Adrift
  <2>3. ASSUME NEW d \in Device,
               \/ SendContent(d)
               \/ \E x \in Device : AddMember(d, x) \/ RemoveMember(d, x)
               \/ \E f \in net : ReceiveFuture(d, f) \/ ReceiveContent(d, f) \/ ReceiveCommit(d, f)
               \/ DrainFrame(d) \/ DrainAgain(d) \/ DrainDone(d)
               \/ \E w \in welcomes : Join(d, w) \/ Replace(d, w)
        PROVE  HandsEmpty' /\ Lossless
    <3>1. /\ \A x \in Device \ {d} :
               opened'[x] = opened[x] /\ surfaced'[x] = surfaced[x] /\ drain'[x] = drain[x]
          /\ Adrift(d)' \subseteq Adrift(d)
          /\ ~drain'[d].on => drain'[d].recovered = {} /\ drain'[d].batch = <<>>
      BY <2>3, DrainSteps
    <3>2. QED
      BY <3>1 DEF HandsEmpty, Adrift
  <2>4. QED
    BY <2>1, <2>2, <2>3 DEF Next
<1>3. QED
  BY <1>1, <1>2, TypeCorrect, PTL DEF Spec, OnlyFailureLoses

-----------------------------------------------------------------------------
Elems(s)    == {s[i] : i \in DOMAIN s}
Distinct(s) == \A i, j \in DOMAIN s : s[i] = s[j] => i = j

\* What taking the head off a batch leaves.
LEMMA ElemsOfTail ==
  ASSUME NEW s \in Seq(Frame), s # <<>>
  PROVE  /\ Head(s) \in Elems(s) /\ Elems(Tail(s)) \subseteq Elems(s)
         /\ Distinct(s) => Distinct(Tail(s)) /\ Head(s) \notin Elems(Tail(s))
<1>1. /\ Len(s) \in Nat \ {0} /\ DOMAIN s = 1 .. Len(s)
      /\ Head(s) = s[1]
      /\ DOMAIN Tail(s) = 1 .. Len(s) - 1
      /\ \A i \in DOMAIN Tail(s) : Tail(s)[i] = s[i + 1]
  OBVIOUS
<1>2. QED
  BY <1>1 DEF Elems, Distinct

\* Buffering a frame adds at most that frame, and never a second copy.
LEMMA ElemsOfBuffer ==
  ASSUME NEW q \in Seq(Frame), NEW f \in Frame
  PROVE  /\ Elems(BufferFuture(q, f)) \subseteq Elems(q) \cup {f}
         /\ Distinct(q) => Distinct(BufferFuture(q, f))
<1>1. CASE \E i \in DOMAIN q : q[i] = f
  BY <1>1 DEF BufferFuture
<1>2. CASE \A i \in DOMAIN q : q[i] # f
  <2>1. ASSUME NEW t \in Seq(Frame), \A i \in DOMAIN t : t[i] # f
        PROVE  /\ Elems(Append(t, f)) \subseteq Elems(t) \cup {f}
               /\ Distinct(t) => Distinct(Append(t, f))
    <3>1. /\ Len(t) \in Nat /\ DOMAIN t = 1 .. Len(t)
          /\ DOMAIN Append(t, f) = 1 .. Len(t) + 1
          /\ \A i \in 1 .. Len(t) + 1 : Append(t, f)[i] = IF i <= Len(t) THEN t[i] ELSE f
      OBVIOUS
    <3>2. QED
      BY <2>1, <3>1 DEF Elems, Distinct
  <2>2. CASE Len(q) < PendingMax
    <3>1. BufferFuture(q, f) = Append(q, f)
      BY <1>2, <2>2, ConstantsOK DEF BufferFuture
    <3>2. QED
      BY <1>2, <2>1, <3>1
  <2>3. CASE Len(q) >= PendingMax
    <3>1. BufferFuture(q, f) = Append(Tail(q), f) /\ q # <<>>
      BY <1>2, <2>3, ConstantsOK DEF BufferFuture
    <3>2. Tail(q) \in Seq(Frame) /\ \A i \in DOMAIN Tail(q) : Tail(q)[i] # f
      BY <1>2, <3>1
    <3>3. Elems(Tail(q)) \subseteq Elems(q) /\ (Distinct(q) => Distinct(Tail(q)))
      BY <3>1, ElemsOfTail
    <3>4. /\ Elems(Append(Tail(q), f)) \subseteq Elems(Tail(q)) \cup {f}
          /\ Distinct(Tail(q)) => Distinct(Append(Tail(q), f))
      BY <2>1, <3>2
    <3>5. QED
      BY <3>1, <3>3, <3>4
  <2>4. QED
    BY <2>2, <2>3, ConstantsOK
<1>3. QED
  BY <1>1, <1>2

\* Two prefixes of one history that are as long as each other are the same.
LEMMA PrefixSame ==
  ASSUME NEW s \in History, NEW t \in History, NEW h \in History,
         PrefixOf(s, h), PrefixOf(t, h), Len(s) = Len(t)
  PROVE  s = t
<1>1. DOMAIN s = 1 .. Len(s) /\ DOMAIN t = 1 .. Len(t)
  BY DEF History
<1>2. \A i \in 1 .. Len(s) : s[i] = t[i]
  BY DEF PrefixOf
<1>3. QED
  BY <1>1, <1>2 DEF History

\* The outcomes of one frame of a batch, variable by variable.
LEMMA DrainFrameEffect ==
  ASSUME TypeOK, NEW d \in Device, DrainFrame(d),
         NEW f, f = Head(drain[d].batch)
  PROVE  /\ drain'[d].batch = Tail(drain[d].batch) /\ drain'[d].on = drain[d].on
         /\ \A e \in Device \ {d} : drain'[e] = drain[e]
         /\ UNCHANGED <<net, welcomes, holds, surfaced, stall, flagged, notices>>
         /\ \/ /\ drain'[d].progress = drain[d].progress /\ UNCHANGED <<at, opened>>
               /\ \/ Epoch(f) < Len(at[d]) /\ UNCHANGED pending
                  \/ Epoch(f) > Len(at[d]) /\ pending' = [pending EXCEPT ![d] = BufferFuture(@, f)]
                  \/ Openable(d, f) /\ IsCommit(f) /\ UNCHANGED pending
            \/ /\ drain'[d].progress /\ Openable(d, f) /\ UNCHANGED <<at, pending>>
               /\ opened' = [opened EXCEPT ![d] = @ \cup {f}]
            \/ /\ drain'[d].progress /\ Openable(d, f) /\ IsCommit(f) /\ UNCHANGED <<pending, opened>>
               /\ at' = [at EXCEPT ![d] = Append(@, f.body)]
<1> DEFINE rest == [drain[d] EXCEPT !.batch = Tail(@)]
           got  == [rest EXCEPT !.progress = TRUE]
           kept == [rest EXCEPT !.progress = TRUE, !.recovered = @ \cup {f}]
<1>1. drain[d] = [on |-> drain[d].on, batch |-> drain[d].batch,
                  progress |-> drain[d].progress, recovered |-> drain[d].recovered]
      /\ DOMAIN drain = Device
  BY DEF TypeOK
<1>2. /\ rest.batch = Tail(drain[d].batch) /\ rest.on = drain[d].on
      /\ rest.progress = drain[d].progress
      /\ got.batch = rest.batch /\ got.on = rest.on /\ got.progress
      /\ kept.batch = rest.batch /\ kept.on = rest.on /\ kept.progress
  BY <1>1
<1>3. /\ UNCHANGED <<net, welcomes, holds, surfaced, stall, flagged, notices>>
      /\ \/ /\ drain' = [drain EXCEPT ![d] = rest] /\ UNCHANGED <<at, opened>>
            /\ \/ Epoch(f) < Len(at[d]) /\ UNCHANGED pending
               \/ Epoch(f) > Len(at[d]) /\ pending' = [pending EXCEPT ![d] = BufferFuture(@, f)]
               \/ Openable(d, f) /\ IsCommit(f) /\ UNCHANGED pending
         \/ /\ drain' = [drain EXCEPT ![d] = kept] /\ Openable(d, f) /\ UNCHANGED <<at, pending>>
            /\ opened' = [opened EXCEPT ![d] = @ \cup {f}]
         \/ /\ drain' = [drain EXCEPT ![d] = got]
            /\ Openable(d, f) /\ IsCommit(f) /\ UNCHANGED <<pending, opened>>
            /\ at' = [at EXCEPT ![d] = Append(@, f.body)]
  BY Zenon DEF DrainFrame, detector
<1> HIDE DEF rest, got, kept
<1>4. \A r : drain' = [drain EXCEPT ![d] = r] =>
        drain'[d] = r /\ \A e \in Device \ {d} : drain'[e] = drain[e]
  BY <1>1
<1>5. QED
  BY <1>2, <1>3, <1>4

\* The frames d has kept for later, in its buffer or in the batch it is working through.
Waiting(d) == Elems(pending[d]) \cup Elems(drain[d].batch)

\* Where frames come from: a frame belongs to an epoch its author has reached, a message
\* that was opened to one its reader has reached, and no device keeps its own frames.
Known ==
  /\ \A f \in net : f.body.by \in holds /\ Epoch(f) <= Len(at[f.body.by])
  /\ \A d \in Device \ holds : at[d] = <<>>
  /\ \A d \in Device : \A f \in opened[d] : Epoch(f) <= Len(at[d])
  /\ \A d \in Device : \A f \in Waiting(d) : f.body.by # d

\* Every frame that is kept is kept once, a batch is a drain's, and a drain a holder's.
Once ==
  \A d \in Device :
    /\ Distinct(pending[d]) /\ Distinct(drain[d].batch)
    /\ Elems(pending[d]) \cap Elems(drain[d].batch) = {}
    /\ ~drain[d].on => drain[d].batch = <<>>
    /\ drain[d].on => d \in holds

\* No device's history gets shorter, and only a holder of the group has one.
LEMMA HistoriesGrow ==
  ASSUME TypeOK, Grounded, Known, [Next]_vars
  PROVE  /\ \A e \in Device : Len(at'[e]) >= Len(at[e])
         /\ \A e \in Device \ holds' : at'[e] = <<>>
<1> SUFFICES ASSUME NEW e \in Device
             PROVE  /\ Len(at'[e]) >= Len(at[e])
                    /\ e \notin holds' => at'[e] = <<>>
  OBVIOUS
<1>1. at[e] \in Seq(Commit) /\ (e \notin holds => at[e] = <<>>) /\ e \in DOMAIN at
  BY DEF TypeOK, Known, History
<1>2. \/ at'[e] = at[e]
      \/ \E c : at'[e] = Append(at[e], c) /\ e \in holds
      \/ \E h \in Chain : at'[e] = h /\ (Len(h) > Len(at[e]) \/ e \notin holds) /\ e \in holds'
  <2>1. [Log!Next]_<<holds, at, Chain>> /\ holds \subseteq holds'
    BY StepRefines, NetGrows
  <2>2. CASE UNCHANGED at
    BY <2>2
  <2>3. ASSUME NEW d \in Device, Log!Author(d) \/ Log!Follow(d)
        PROVE  at'[e] = at[e] \/ \E c : at'[e] = Append(at[e], c) /\ e \in holds
    BY <1>1, <2>3 DEF Log!Author, Log!Follow
  <2>4. ASSUME NEW d \in Device, Log!Enter(d) \/ Log!Reenter(d)
        PROVE  \/ at'[e] = at[e]
               \/ \E h \in Chain : at'[e] = h /\ (Len(h) > Len(at[e]) \/ e \notin holds) /\ e \in holds'
    BY <1>1, <2>4 DEF Log!Enter, Log!Reenter
  <2>5. QED
    BY <2>1, <2>2, <2>3, <2>4 DEF Log!Next
<1>3. \A h \in Chain : Len(h) >= 0
  BY DEF Chain, TypeOK, Frame, History, Message, IsCommit
<1>4. holds \subseteq holds'
  BY NetGrows
<1>5. QED
  BY <1>1, <1>2, <1>3, <1>4

\* What a step does to the frames kept by a device and to the messages it has opened:
\* only frames of a later epoch are kept, only messages of this epoch are opened.
KeptAndOpened(e) ==
  /\ Waiting(e)' \subseteq Waiting(e) \cup {f \in net : Epoch(f) > Len(at[e])}
  /\ opened'[e] \subseteq opened[e] \cup {f \in Frame : Epoch(f) = Len(at[e])}
  /\ Distinct(pending'[e]) /\ Distinct(drain'[e].batch)
  /\ Elems(pending'[e]) \cap Elems(drain'[e].batch) = {}
  /\ ~drain'[e].on => drain'[e].batch = <<>>
  /\ drain'[e].on => e \in holds'

\* A device that does not move keeps what it keeps.
LEMMA KeptByOthers ==
  ASSUME Once, NEW e \in Device, holds \subseteq holds',
         pending'[e] = pending[e], drain'[e] = drain[e], opened'[e] = opened[e]
  PROVE  KeptAndOpened(e)
BY DEF KeptAndOpened, Waiting, Once

\* One frame of a drain moves from the batch to the buffer, to the application or away.
LEMMA KeptByDrainFrame ==
  ASSUME TypeOK, Grounded, Once, holds \subseteq holds', NEW d \in Device, DrainFrame(d)
  PROVE  KeptAndOpened(d)
<1> DEFINE f == Head(drain[d].batch)
           b == drain[d].batch
<1>1. b \in Seq(Frame) /\ b # <<>> /\ pending[d] \in Seq(Frame) /\ opened[d] \subseteq Frame
  BY DEF DrainFrame, TypeOK
<1>2. /\ f \in Elems(b) /\ Elems(Tail(b)) \subseteq Elems(b)
      /\ Distinct(Tail(b)) /\ f \notin Elems(Tail(b))
  BY <1>1, ElemsOfTail DEF Once
<1>3. f \in net /\ f \in Frame
  BY <1>2 DEF Grounded, Elems, TypeOK
<1>4. /\ Distinct(pending[d]) /\ Elems(pending[d]) \cap Elems(b) = {} /\ drain[d].on
  BY <1>1 DEF Once
<1>5. /\ Elems(BufferFuture(pending[d], f)) \subseteq Elems(pending[d]) \cup {f}
      /\ Distinct(BufferFuture(pending[d], f))
  BY <1>1, <1>3, <1>4, ElemsOfBuffer
<1>6. /\ drain'[d].batch = Tail(b) /\ drain'[d].on = drain[d].on
      /\ \/ pending' = pending /\ opened' = opened
         \/ pending' = pending /\ opened' = [opened EXCEPT ![d] = @ \cup {f}] /\ Openable(d, f)
         \/ pending' = [pending EXCEPT ![d] = BufferFuture(@, f)] /\ opened' = opened
  BY DrainFrameEffect
<1> HIDE DEF f, b
<1>7. Openable(d, f) => Epoch(f) = Len(at[d])
  BY DEF Openable, Epoch
<1>8. /\ Distinct(drain'[d].batch) /\ Elems(drain'[d].batch) \subseteq Elems(b) \ {f}
      /\ ~drain'[d].on => drain'[d].batch = <<>>
      /\ drain'[d].on => d \in holds'
  BY <1>2, <1>4, <1>6 DEF Once
<1>9. pending'[d] = pending[d] \/ pending'[d] = BufferFuture(pending[d], f)
  BY <1>6 DEF TypeOK
<1>10. /\ Elems(pending'[d]) \subseteq Elems(pending[d]) \cup {f} /\ Distinct(pending'[d])
       /\ Elems(pending'[d]) \cap Elems(drain'[d].batch) = {}
  BY <1>4, <1>5, <1>8, <1>9
<1>11. opened'[d] \subseteq opened[d] \cup {g \in Frame : Epoch(g) = Len(at[d])}
  BY <1>3, <1>6, <1>7 DEF TypeOK
<1>12. Waiting(d)' \subseteq Waiting(d)
  BY <1>2, <1>8, <1>10, b = drain[d].batch DEF Waiting, b
<1>13. QED
  BY <1>8, <1>10, <1>11, <1>12 DEF KeptAndOpened

\* No step of any device breaks that.
LEMMA KeptByStep ==
  ASSUME TypeOK, Grounded, Once, [Next]_vars, NEW e \in Device
  PROVE  KeptAndOpened(e)
<1>0. /\ Distinct(<<>>) /\ Elems(<<>>) = {} /\ Idle.batch = <<>>
  BY DEF Distinct, Elems, Idle
<1>t. /\ pending \in [Device -> Seq(Frame)] /\ opened \in [Device -> SUBSET Frame]
      /\ DOMAIN drain = Device /\ net \subseteq Frame
  BY DEF TypeOK
<1>h. holds \subseteq holds' /\ Idle.on = FALSE
  BY NetGrows DEF Idle
<1>1. CASE UNCHANGED <<pending, drain, opened>>
  BY <1>h, <1>1, KeptByOthers
<1>2. CASE UNCHANGED vars
  BY <1>1, <1>2 DEF vars
<1>3. ASSUME NEW d \in Device, SendContent(d) \/ \E x \in Device : AddMember(d, x) \/ RemoveMember(d, x)
      PROVE  UNCHANGED <<pending, drain, opened>>
  BY <1>3 DEF SendContent, AddMember, RemoveMember
<1>4. ASSUME NEW d \in Device, NEW f \in net, ReceiveFuture(d, f) PROVE KeptAndOpened(e)
  <2> DEFINE q == BufferFuture(pending[d], f)
  <2>1. /\ pending' = [pending EXCEPT ![d] = q] /\ UNCHANGED <<drain, opened>>
        /\ Epoch(f) > Len(at[d]) /\ ~drain[d].on
    BY <1>4 DEF ReceiveFuture
  <2>2. Elems(q) \subseteq Elems(pending[d]) \cup {f} /\ (Distinct(pending[d]) => Distinct(q))
    BY <1>t, ElemsOfBuffer
  <2>3. drain[d].batch = <<>> /\ Distinct(pending[d])
    BY <2>1 DEF Once
  <2> HIDE DEF q
  <2>4. CASE e # d
    BY <2>1, <2>4, <1>h, KeptByOthers
  <2>5. CASE e = d
    BY <1>0, <1>h, <1>t, <2>1, <2>2, <2>3, <2>5 DEF KeptAndOpened, Waiting
  <2>6. QED
    BY <2>4, <2>5
<1>5. ASSUME NEW d \in Device, NEW f \in net, ReceiveContent(d, f) PROVE KeptAndOpened(e)
  <2>1. /\ opened' = [opened EXCEPT ![d] = @ \cup {f}] /\ UNCHANGED <<pending, drain>>
        /\ Epoch(f) = Len(at[d])
    BY <1>5 DEF ReceiveContent, Openable, Epoch
  <2>2. QED
    BY <1>h, <1>t, <2>1 DEF KeptAndOpened, Waiting, Once
<1>6. ASSUME NEW d \in Device, NEW f \in net, ReceiveCommit(d, f) PROVE KeptAndOpened(e)
  <2>1. CASE pending[d] = <<>>
    BY <1>1, <1>6, <2>1 DEF ReceiveCommit
  <2>2. CASE pending[d] # <<>>
    <3>1. /\ pending' = [pending EXCEPT ![d] = <<>>]
          /\ drain'   = [drain EXCEPT ![d] = Draining(pending[d])]
          /\ UNCHANGED opened
      BY <1>6, <2>2 DEF ReceiveCommit
    <3>2. Draining(pending[d]).batch = pending[d] /\ Draining(pending[d]).on /\ d \in holds
      BY <1>6 DEF Draining, ReceiveCommit, Openable, Active
    <3>3. QED
      BY <1>0, <1>h, <1>t, <3>1, <3>2 DEF KeptAndOpened, Waiting, Once
  <2>3. QED
    BY <2>1, <2>2
<1>7. ASSUME NEW d \in Device, DrainFrame(d) PROVE KeptAndOpened(e)
  <2>1. CASE e = d
    BY <1>7, <2>1, <1>h, KeptByDrainFrame
  <2>2. CASE e # d
    <3>1. /\ drain'[e] = drain[e]
          /\ \/ pending' = pending
             \/ pending' = [pending EXCEPT ![d] = BufferFuture(@, Head(drain[d].batch))]
          /\ \/ opened' = opened
             \/ opened' = [opened EXCEPT ![d] = @ \cup {Head(drain[d].batch)}]
      BY <1>7, <2>2, DrainFrameEffect
    <3>2. QED
      BY <1>h, <1>t, <2>2, <3>1, KeptByOthers
  <2>3. QED
    BY <2>1, <2>2
<1>8. ASSUME NEW d \in Device, DrainFail(d) \/ DrainDone(d) PROVE KeptAndOpened(e)
  <2>1. drain' = [drain EXCEPT ![d] = Idle] /\ UNCHANGED <<pending, opened>>
    BY <1>8 DEF DrainFail, DrainDone
  <2>2. QED
    BY <1>0, <1>h, <1>t, <2>1 DEF KeptAndOpened, Waiting, Once
<1>9. ASSUME NEW d \in Device, DrainAgain(d) PROVE KeptAndOpened(e)
  <2>1. /\ pending' = [pending EXCEPT ![d] = <<>>] /\ UNCHANGED opened
        /\ \A x \in Device \ {d} : drain'[x] = drain[x]
        /\ drain'[d].batch = pending[d] /\ drain'[d].on
        /\ drain[d].batch = <<>> /\ drain[d].on
    BY <1>9 DEF DrainAgain, TypeOK
  <2>2. QED
    BY <1>0, <1>h, <1>t, <2>1 DEF KeptAndOpened, Waiting, Once
<1>10. ASSUME NEW d \in Device, NEW w \in welcomes, Join(d, w) \/ Replace(d, w)
       PROVE  KeptAndOpened(e)
  <2>1. pending' = [pending EXCEPT ![d] = <<>>] /\ UNCHANGED <<drain, opened>>
    BY <1>10 DEF Join, Replace, Adopt
  <2>2. QED
    BY <1>0, <1>h, <1>t, <2>1 DEF KeptAndOpened, Waiting, Once
<1>11. QED
  BY <1>1, <1>2, <1>3, <1>4, <1>5, <1>6, <1>7, <1>8, <1>9, <1>10 DEF Next

\* Frames are kept once and a batch is a drain's.
LEMMA OnceInvariant == Spec => []Once
<1>1. Init => Once
  <2> SUFFICES ASSUME Init, NEW d \in Device
               PROVE  /\ Distinct(pending[d]) /\ Distinct(drain[d].batch)
                      /\ Elems(pending[d]) \cap Elems(drain[d].batch) = {}
                      /\ ~drain[d].on => drain[d].batch = <<>>
                      /\ drain[d].on => d \in holds
    BY DEF Once
  <2>1. pending[d] = <<>> /\ drain[d].batch = <<>> /\ ~drain[d].on
    BY DEF Init, Idle
  <2>2. QED
    BY <2>1 DEF Distinct, Elems
<1>2. TypeOK /\ Grounded /\ Once /\ [Next]_vars => Once'
  <2> SUFFICES ASSUME TypeOK, Grounded, Once, [Next]_vars, NEW e \in Device
               PROVE  /\ Distinct(pending'[e]) /\ Distinct(drain'[e].batch)
                      /\ Elems(pending'[e]) \cap Elems(drain'[e].batch) = {}
                      /\ ~drain'[e].on => drain'[e].batch = <<>>
                      /\ drain'[e].on => e \in holds'
    BY DEF Once, Distinct, Elems
  <2>1. KeptAndOpened(e)
    BY KeptByStep
  <2>2. QED
    BY <2>1 DEF KeptAndOpened
<1>3. QED
  BY <1>1, <1>2, TypeCorrect, GroundedInvariant, PTL DEF Spec

\* The parts of a frame.
LEMMA FrameType ==
  ASSUME NEW f \in Frame
  PROVE  /\ f.at \in History /\ Epoch(f) \in Nat /\ f.body.by \in Device
         /\ IsCommit(f) => f.body \in Commit
<1>1. f.at \in History /\ f.body \in Commit \cup Message
  BY DEF Frame
<1>2. f.body.by \in Device /\ (f.body.kind # "app" => f.body \in Commit)
  BY <1>1 DEF Commit, Message
<1>3. Len(f.at) \in Nat
  BY <1>1 DEF History
<1>4. QED
  BY <1>1, <1>2, <1>3 DEF IsCommit, Epoch

\* Where frames come from, for every set of devices.
LEMMA KnownInvariant == Spec => []Known
<1>1. Init => Known
  BY DEF Init, Known, Waiting, Elems, Idle
<1>2. TypeOK /\ Grounded /\ Once /\ Known /\ [Next]_vars => Known'
  <2> SUFFICES ASSUME TypeOK, Grounded, Once, Known, [Next]_vars PROVE Known'
    OBVIOUS
  <2>1. /\ \A e \in Device : Len(at'[e]) >= Len(at[e]) /\ Len(at[e]) \in Nat
        /\ \A e \in Device \ holds' : at'[e] = <<>>
    BY HistoriesGrow DEF TypeOK, History
  <2>t. net \subseteq Frame /\ holds \subseteq Device /\ \A e \in Device : opened[e] \subseteq Frame
    BY DEF TypeOK
  <2>f. \A f \in Frame : Epoch(f) \in Nat /\ f.body.by \in Device
    BY FrameType
  <2>l. \A e \in Device : Len(at'[e]) \in Nat
    <3>1. at' \in [Device -> History]
      BY TypeStep DEF TypeOK
    <3>2. QED
      BY <3>1 DEF History
  <2>2. ASSUME NEW f \in net' PROVE f.body.by \in holds' /\ Epoch(f) <= Len(at'[f.body.by])
    <3>1. CASE f \in net
      BY <2>1, <2>t, <2>f, <2>l, <3>1, NetGrows DEF Known
    <3>2. CASE f \notin net
      <4>1. \E d \in Device : f.body.by = d /\ f.at = at[d] /\ d \in holds
        BY <2>2, <3>2, NewFrame DEF Active
      <4>2. QED
        BY <2>1, <2>f, <2>l, <4>1, NetGrows DEF Epoch
    <3>3. QED
      BY <3>1, <3>2
  <2>3. ASSUME NEW e \in Device, NEW f \in opened'[e] PROVE Epoch(f) <= Len(at'[e])
    <3>1. f \in opened[e] \/ (f \in Frame /\ Epoch(f) = Len(at[e]))
      BY <2>3, KeptByStep DEF KeptAndOpened
    <3>2. QED
      BY <2>1, <2>f, <2>l, <2>t, <3>1 DEF Known
  <2>4. ASSUME NEW e \in Device, NEW f \in Waiting(e)' PROVE f.body.by # e
    <3>1. f \in Waiting(e) \/ (f \in net /\ Epoch(f) > Len(at[e]))
      BY <2>4, KeptByStep DEF KeptAndOpened
    <3>2. QED
      BY <2>1, <2>f, <2>l, <2>t, <3>1 DEF Known
  <2>5. QED
    BY <2>1, <2>2, <2>3, <2>4 DEF Known
<1>3. QED
  BY <1>1, <1>2, TypeCorrect, GroundedInvariant, OnceInvariant, PTL DEF Spec

-----------------------------------------------------------------------------
\* Every device, and everything published, is on the way of k's history.
Leads(k) ==
  /\ \A d \in Device : PrefixOf(at[d], at[k])
  /\ \A f \in net : /\ PrefixOf(f.at, at[k])
                    /\ IsCommit(f) => PrefixOf(Append(f.at, f.body), at[k])

\* What a member's buffer, drain and detector know: nothing kept has been opened; unless
\* the pass in progress has got somewhere, everything buffered lies ahead; a stall has
\* a cause that is still ahead.
Sorted(d) ==
  Active(d) =>
    /\ \A f \in Waiting(d) : f \notin opened[d]
    /\ ~(drain[d].on /\ drain[d].progress) => \A f \in Elems(pending[d]) : Epoch(f) > Len(at[d])
    /\ ~drain[d].on /\ stall[d] > 0 => \E f \in net : Epoch(f) > Len(at[d])

\* With one committer nobody forks, and every member's buffer is in order.
Lined == \A k \in Device : SoleCommitter(k) => Leads(k) /\ \A d \in Device : Sorted(d)

\* A commit of k lengthens the history all are on.
LEMMA LeadsByItself ==
  ASSUME TypeOK, NEW k \in Device, Leads(k), NEW c \in Commit, CommitLocally(k, c)
  PROVE  Leads(k)'
<1> DEFINE g == [at |-> at[k], body |-> c]
<1>1. /\ net' = net \cup {g} /\ at' = [at EXCEPT ![k] = Append(@, c)]
      /\ at[k] \in History /\ Append(at[k], c) \in History
  BY DEF CommitLocally, TypeOK, History
<1>2. at'[k] = Append(at[k], c) /\ \A d \in Device \ {k} : at'[d] = at[d]
  BY <1>1 DEF TypeOK
<1>3. PrefixOf(at[k], at'[k]) /\ PrefixOf(at'[k], at'[k])
  BY <1>1, <1>2, PrefixSelf, PrefixGrows
<1>4. ASSUME NEW d \in Device PROVE PrefixOf(at'[d], at'[k])
  BY <1>1, <1>2, <1>3, PrefixGrows DEF Leads, TypeOK
<1>5. ASSUME NEW f \in net
      PROVE  PrefixOf(f.at, at'[k]) /\ (IsCommit(f) => PrefixOf(Append(f.at, f.body), at'[k]))
  <2>1. f.at \in History /\ (IsCommit(f) => Append(f.at, f.body) \in History)
    BY FrameType DEF TypeOK, History
  <2>2. QED
    BY <1>1, <1>2, <2>1, PrefixGrows DEF Leads
<1>6. g.at = at[k] /\ g.body = c
  OBVIOUS
<1> HIDE DEF g
<1>7. QED
  BY <1>1, <1>2, <1>3, <1>4, <1>5, <1>6 DEF Leads, IsCommit

\* Any other device may move along that history.
LEMMA LeadsBeside ==
  ASSUME TypeOK, NEW k \in Device, Leads(k), UNCHANGED net,
         NEW d \in Device \ {k}, NEW h \in History, PrefixOf(h, at[k]),
         at' = [at EXCEPT ![d] = h]
  PROVE  Leads(k)'
<1>1. at'[k] = at[k] /\ \A e \in Device : at'[e] = IF e = d THEN h ELSE at[e]
  BY DEF TypeOK
<1>2. QED
  BY <1>1 DEF Leads, IsCommit

\* No step takes a device off the only committer's history.
LEMMA LeadsStep ==
  ASSUME TypeOK, Grounded, [Next]_vars, NEW k \in Device, SoleCommitter(k)', Leads(k)
  PROVE  Leads(k)'
<1>0. SoleCommitter(k)
  BY NetGrows DEF SoleCommitter, IsCommit
<1>1. CASE UNCHANGED <<at, net>>
  BY <1>1 DEF Leads, IsCommit
<1>2. CASE UNCHANGED vars
  BY <1>1, <1>2 DEF vars
<1>3. ASSUME NEW d \in Device, SendContent(d) PROVE Leads(k)'
  <2>1. PICK n \in 1 .. MaxApp :
          net' = net \cup {[at |-> at[d], body |-> [by |-> d, kind |-> "app", n |-> n]]}
    BY <1>3 DEF SendContent
  <2> DEFINE g == [at |-> at[d], body |-> [by |-> d, kind |-> "app", n |-> n]]
  <2>2. g.at = at[d] /\ ~IsCommit(g)
    BY DEF IsCommit
  <2>3. UNCHANGED at /\ net' = net \cup {g}
    BY <1>3, <2>1 DEF SendContent
  <2> HIDE DEF g
  <2>4. QED
    BY <2>2, <2>3 DEF Leads, IsCommit
<1>4. ASSUME NEW d \in Device, NEW c \in Commit, c.by = d, CommitLocally(d, c) PROVE Leads(k)'
  <2> DEFINE g == [at |-> at[d], body |-> c]
  <2>1. g \in net' /\ g.body = c
    BY <1>4 DEF CommitLocally
  <2>2. IsCommit(g)
    BY <2>1 DEF IsCommit, Commit
  <2> HIDE DEF g
  <2>3. d = k
    BY <1>4, <2>1, <2>2 DEF SoleCommitter, IsCommit
  <2>4. QED
    BY <1>4, <2>3, LeadsByItself
<1>5. ASSUME NEW d \in Device, NEW x \in Device, AddMember(d, x) PROVE Leads(k)'
  <2> DEFINE c == [by |-> d, kind |-> "add", who |-> x]
  <2>1. c \in Commit /\ c.by = d /\ CommitLocally(d, c)
    BY <1>5 DEF AddMember, Commit
  <2> HIDE DEF c
  <2>2. QED
    BY <1>4, <2>1
<1>6. ASSUME NEW d \in Device, NEW x \in Device, RemoveMember(d, x) PROVE Leads(k)'
  <2> DEFINE c == [by |-> d, kind |-> "remove", who |-> x]
  <2>1. c \in Commit /\ c.by = d /\ CommitLocally(d, c)
    BY <1>6 DEF RemoveMember, Commit
  <2> HIDE DEF c
  <2>2. QED
    BY <1>4, <2>1
<1>7. ASSUME NEW d \in Device, NEW f \in net, Openable(d, f), IsCommit(f),
             at' = [at EXCEPT ![d] = Append(@, f.body)], UNCHANGED net
      PROVE  Leads(k)'
  <2>1. f.at = at[d] /\ f.body.by # d /\ f.body.by = k
    BY <1>0, <1>7 DEF Openable, SoleCommitter
  <2>2. Append(at[d], f.body) \in History
    BY <1>7, FrameType DEF TypeOK, History
  <2>3. PrefixOf(Append(at[d], f.body), at[k])
    BY <1>7, <2>1 DEF Leads
  <2>4. QED
    BY <1>7, <2>1, <2>2, <2>3, LeadsBeside DEF TypeOK
<1>8. ASSUME NEW d \in Device, NEW f \in net, ReceiveCommit(d, f) PROVE Leads(k)'
  BY <1>7, <1>8 DEF ReceiveCommit
<1>9. ASSUME NEW d \in Device, DrainFrame(d) PROVE Leads(k)'
  <2> DEFINE f == Head(drain[d].batch)
  <2>1. f \in net
    BY <1>9 DEF DrainFrame, TypeOK, Grounded
  <2>2. /\ UNCHANGED net
        /\ \/ UNCHANGED at
           \/ Openable(d, f) /\ IsCommit(f) /\ at' = [at EXCEPT ![d] = Append(@, f.body)]
    BY <1>9, DrainFrameEffect
  <2> HIDE DEF f
  <2>3. QED
    BY <1>1, <1>7, <2>1, <2>2
<1>10. ASSUME NEW d \in Device, NEW w \in welcomes, Join(d, w) \/ Replace(d, w)
       PROVE  Leads(k)'
  <2>1. PICK f \in net : /\ f.body = [by |-> w.by, kind |-> "add", who |-> w.to]
                         /\ w.at = Append(f.at, f.body)
    BY DEF Grounded
  <2>2. IsCommit(f) /\ f.body.by = w.by
    BY <2>1 DEF IsCommit
  <2>3. w.by = k /\ PrefixOf(w.at, at[k]) /\ w.by # w.to
    BY <1>0, <2>1, <2>2 DEF SoleCommitter, Leads, Grounded
  <2>4. w.at \in History /\ w.to = d /\ at' = [at EXCEPT ![d] = w.at] /\ UNCHANGED net
    BY <1>10 DEF TypeOK, Welcome, Join, Replace, Adopt
  <2>5. QED
    BY <2>3, <2>4, LeadsBeside
<1>11. ASSUME NEW d \in Device,
              \/ \E f \in net : ReceiveFuture(d, f) \/ ReceiveContent(d, f)
              \/ DrainFail(d) \/ DrainAgain(d) \/ DrainDone(d)
       PROVE  UNCHANGED <<at, net>>
  BY <1>11 DEF ReceiveFuture, ReceiveContent, DrainFail, DrainAgain, DrainDone
<1>12. QED
  BY <1>1, <1>2, <1>3, <1>5, <1>6, <1>8, <1>9, <1>10, <1>11 DEF Next

\* A device that does not move stays in order.
LEMMA SortedByOthers ==
  ASSUME [Next]_vars, NEW e \in Device, Sorted(e), Active(e)' => Active(e),
         UNCHANGED <<at[e], pending[e], drain[e], opened[e], stall[e]>>
  PROVE  Sorted(e)'
BY NetGrows DEF Sorted, Waiting

\* With one committer, a frame of a member's own epoch was sealed under its own history.
LEMMA SameEpochSameHistory ==
  ASSUME TypeOK, NEW k \in Device, Leads(k), NEW d \in Device, NEW f \in net,
         Epoch(f) = Len(at[d])
  PROVE  f.at = at[d]
<1>1. f.at \in History /\ at[d] \in History /\ at[k] \in History
  BY FrameType DEF TypeOK
<1>2. QED
  BY <1>1, PrefixSame DEF Leads, Epoch

\* The only committer is never behind: it has nothing buffered and no stall.
LEMMA CommitterHasNothingKept ==
  ASSUME TypeOK, Grounded, NEW k \in Device, Leads(k), Sorted(k), Active(k), ~drain[k].on
  PROVE  Elems(pending[k]) = {} /\ stall[k] = 0
<1>1. \A f \in net : Epoch(f) <= Len(at[k])
  BY DEF Leads, PrefixOf, Epoch
<1>2. Elems(pending[k]) \subseteq net
  BY DEF Grounded, Elems
<1>3. (\A f \in net : Epoch(f) \in Nat) /\ Len(at[k]) \in Nat /\ stall[k] \in Nat
  BY FrameType, ConstantsOK DEF TypeOK, History
<1>4. QED
  BY <1>1, <1>2, <1>3 DEF Sorted

\* With one committer no drain of a member fails: what is left in a batch and is of this
\* epoch can be opened.
LEMMA NoDrainFails ==
  ASSUME TypeOK, Grounded, Known, NEW k \in Device, Leads(k),
         NEW d \in Device, Active(d), Sorted(d)
  PROVE  ~DrainFail(d)
<1> SUFFICES ASSUME DrainFail(d) PROVE FALSE
  OBVIOUS
<1> DEFINE f == Head(drain[d].batch)
<1>1. drain[d].batch \in Seq(Frame) /\ drain[d].batch # <<>>
  BY DEF DrainFail, TypeOK
<1>2. f \in Elems(drain[d].batch)
  BY <1>1, ElemsOfTail
<1>3. f \in net /\ f \in Waiting(d)
  BY <1>2 DEF Grounded, Elems, Waiting
<1>4. Epoch(f) = Len(at[d]) /\ ~Openable(d, f)
  BY DEF DrainFail
<1> HIDE DEF f
<1>5. f.at = at[d]
  BY <1>3, <1>4, SameEpochSameHistory
<1>6. f.body.by # d /\ f \notin opened[d]
  BY <1>3 DEF Known, Sorted
<1>7. QED
  BY <1>4, <1>5, <1>6 DEF Openable

\* One frame of a drain keeps the order.
LEMMA SortedByDrainFrame ==
  ASSUME TypeOK, Grounded, Once, NEW d \in Device, Sorted(d), DrainFrame(d)
  PROVE  Sorted(d)'
<1> DEFINE f == Head(drain[d].batch)
           b == drain[d].batch
<1>1. b \in Seq(Frame) /\ b # <<>> /\ pending[d] \in Seq(Frame) /\ drain[d].on
  BY DEF DrainFrame, TypeOK, Once
<1>2. /\ f \in Elems(b) /\ Elems(Tail(b)) \subseteq Elems(b) /\ f \notin Elems(Tail(b))
      /\ f \notin Elems(pending[d])
  BY <1>1, ElemsOfTail DEF Once
<1>3. f \in Frame
  BY <1>2 DEF Grounded, Elems, TypeOK
<1>4. Elems(BufferFuture(pending[d], f)) \subseteq Elems(pending[d]) \cup {f}
  BY <1>1, <1>3, ElemsOfBuffer
<1>5. /\ drain'[d].batch = Tail(b) /\ drain'[d].on = drain[d].on
      /\ UNCHANGED <<net, holds, stall>>
      /\ \/ /\ drain'[d].progress = drain[d].progress /\ UNCHANGED <<at, opened>>
            /\ \/ UNCHANGED pending
               \/ Epoch(f) > Len(at[d]) /\ pending' = [pending EXCEPT ![d] = BufferFuture(@, f)]
         \/ /\ drain'[d].progress /\ Openable(d, f) /\ UNCHANGED <<at, pending>>
            /\ opened' = [opened EXCEPT ![d] = @ \cup {f}]
         \/ /\ drain'[d].progress /\ Openable(d, f) /\ UNCHANGED <<pending, opened>>
  BY DrainFrameEffect
<1> HIDE DEF f, b
<1>6. CASE drain'[d].progress = drain[d].progress /\ UNCHANGED <<at, opened>>
  <2>1. /\ pending'[d] = pending[d] \/ pending'[d] = BufferFuture(pending[d], f)
        /\ pending'[d] # pending[d] => Epoch(f) > Len(at[d])
    BY <1>1, <1>5 DEF TypeOK
  <2>p. CASE UNCHANGED pending
    BY <1>1, <1>2, <1>5, <1>6, <2>p, b = drain[d].batch DEF Sorted, Waiting, Active, b
  <2>2. CASE Epoch(f) > Len(at[d]) /\ pending' = [pending EXCEPT ![d] = BufferFuture(@, f)]
    <3>1. Elems(pending'[d]) \subseteq Elems(pending[d]) \cup {f}
      BY <1>4, <2>2 DEF TypeOK
    <3>2. QED
      BY <1>1, <1>2, <1>5, <1>6, <2>2, <3>1, b = drain[d].batch DEF Sorted, Waiting, Active, b
  <2>3. QED
    BY <1>1, <1>5, <1>6, <2>p, <2>2
<1>7. CASE /\ drain'[d].progress /\ Openable(d, f) /\ UNCHANGED <<at, pending>>
           /\ opened' = [opened EXCEPT ![d] = @ \cup {f}]
  <2>1. opened'[d] = opened[d] \cup {f}
    BY <1>7 DEF TypeOK
  <2>2. QED
    BY <1>1, <1>2, <1>5, <1>7, <2>1, b = drain[d].batch DEF Sorted, Waiting, Active, b
<1>8. CASE drain'[d].progress /\ Openable(d, f) /\ UNCHANGED <<pending, opened>>
  BY <1>1, <1>2, <1>5, <1>8, b = drain[d].batch DEF Sorted, Waiting, Openable, b
<1>9. QED
  BY <1>5, <1>6, <1>7, <1>8

\* With one committer every step keeps every device in order.
LEMMA SortedStep ==
  ASSUME TypeOK, Grounded, Known, Once, [Next]_vars, NEW k \in Device,
         SoleCommitter(k)', Leads(k), \A d \in Device : Sorted(d), NEW e \in Device
  PROVE  Sorted(e)'
<1>t. /\ pending \in [Device -> Seq(Frame)] /\ opened \in [Device -> SUBSET Frame]
      /\ stall \in [Device -> 0 .. StallMax] /\ at \in [Device -> History]
      /\ DOMAIN drain = Device /\ net \subseteq Frame /\ Elems(<<>>) = {}
      /\ Len(at[e]) \in Nat /\ \A f \in Frame : Epoch(f) \in Nat
  BY FrameType DEF TypeOK, Elems, History
<1>1. CASE UNCHANGED <<holds, at, pending, drain, opened, stall>>
  BY <1>1, SortedByOthers DEF Active
<1>2. CASE UNCHANGED vars
  BY <1>1, <1>2 DEF vars
<1>3. ASSUME NEW d \in Device, SendContent(d) PROVE Sorted(e)'
  BY <1>1, <1>3 DEF SendContent, detector
<1>4. ASSUME NEW d \in Device, NEW c \in Commit, c.by = d, CommitLocally(d, c),
             Active(d), ~drain[d].on, UNCHANGED <<holds, pending, drain, opened, stall>>
      PROVE  Sorted(e)'
  <2> DEFINE g == [at |-> at[d], body |-> c]
  <2>1. g \in net' /\ g.body = c /\ at' = [at EXCEPT ![d] = Append(@, c)]
    BY <1>4 DEF CommitLocally
  <2>2. IsCommit(g)
    BY <2>1 DEF IsCommit, Commit
  <2> HIDE DEF g
  <2>3. d = k
    BY <1>4, <2>1, <2>2 DEF SoleCommitter, IsCommit
  <2>4. Elems(pending[d]) = {} /\ stall[d] = 0
    BY <1>4, <2>3, CommitterHasNothingKept
  <2>5. CASE e = d
    BY <1>4, <2>4, <2>5 DEF Sorted, Waiting, Once
  <2>6. CASE e # d
    BY <1>t, <1>4, <2>1, <2>6, SortedByOthers DEF Active
  <2>7. QED
    BY <2>5, <2>6
<1>5. ASSUME NEW d \in Device, NEW x \in Device, AddMember(d, x) PROVE Sorted(e)'
  <2> DEFINE c == [by |-> d, kind |-> "add", who |-> x]
  <2>1. /\ c \in Commit /\ c.by = d /\ CommitLocally(d, c) /\ Active(d) /\ ~drain[d].on
        /\ UNCHANGED <<holds, pending, drain, opened, stall>>
    BY <1>5 DEF AddMember, Commit, detector
  <2> HIDE DEF c
  <2>2. QED
    BY <1>4, <2>1
<1>6. ASSUME NEW d \in Device, NEW x \in Device, RemoveMember(d, x) PROVE Sorted(e)'
  <2> DEFINE c == [by |-> d, kind |-> "remove", who |-> x]
  <2>1. /\ c \in Commit /\ c.by = d /\ CommitLocally(d, c) /\ Active(d) /\ ~drain[d].on
        /\ UNCHANGED <<holds, pending, drain, opened, stall>>
    BY <1>6 DEF RemoveMember, Commit, detector
  <2> HIDE DEF c
  <2>2. QED
    BY <1>4, <2>1
<1>7. ASSUME NEW d \in Device, NEW f \in net, ReceiveFuture(d, f) PROVE Sorted(e)'
  <2> DEFINE q == BufferFuture(pending[d], f)
  <2>1. /\ pending' = [pending EXCEPT ![d] = q] /\ UNCHANGED <<net, holds, at, drain, opened>>
        /\ Epoch(f) > Len(at[d]) /\ ~drain[d].on
        /\ \A x \in Device \ {d} : stall'[x] = stall[x]
    BY <1>t, <1>7 DEF ReceiveFuture, Observe
  <2>2. Elems(q) \subseteq Elems(pending[d]) \cup {f}
    BY <1>t, ElemsOfBuffer
  <2> HIDE DEF q
  <2>3. CASE e = d
    <3>1. f \notin opened[d]
      BY <1>t, <2>1, <2>3 DEF Known
    <3>2. Elems(pending'[d]) \subseteq Elems(pending[d]) \cup {f}
      BY <1>t, <2>1, <2>2
    <3>3. QED
      BY <2>1, <2>3, <3>1, <3>2 DEF Sorted, Waiting, Active
  <2>4. CASE e # d
    BY <1>t, <2>1, <2>4, SortedByOthers DEF Active
  <2>5. QED
    BY <2>3, <2>4
<1>8. ASSUME NEW d \in Device, NEW f \in net, ReceiveContent(d, f) PROVE Sorted(e)'
  <2>1. /\ opened' = [opened EXCEPT ![d] = @ \cup {f}]
        /\ UNCHANGED <<net, holds, at, pending, drain>>
        /\ Epoch(f) = Len(at[d]) /\ ~drain[d].on /\ Active(d)
    BY <1>8 DEF ReceiveContent, Openable, Epoch
  <2>2. UNCHANGED stall
    <3>1. StallStep(stall[d], flagged[d], FALSE, FALSE).stall = stall[d]
      BY DEF StallStep
    <3>2. stall' = [stall EXCEPT ![d] = StallStep(stall[d], flagged[d], FALSE, FALSE).stall]
      BY <1>8 DEF ReceiveContent, Observe
    <3>3. QED
      BY <1>t, <3>1, <3>2
  <2>3. CASE e = d
    <3>1. opened'[d] = opened[d] \cup {f}
      BY <1>t, <2>1
    <3>2. drain[d].batch = <<>> /\ f \notin Elems(pending[d])
      BY <1>t, <2>1, <2>3 DEF Once, Sorted
    <3>3. QED
      BY <1>t, <2>1, <2>2, <2>3, <3>1, <3>2 DEF Sorted, Waiting, Active
  <2>4. CASE e # d
    BY <1>t, <2>1, <2>2, <2>4, SortedByOthers DEF Active
  <2>5. QED
    BY <2>3, <2>4
<1>9. ASSUME NEW d \in Device, NEW f \in net, ReceiveCommit(d, f) PROVE Sorted(e)'
  <2>1. /\ at' = [at EXCEPT ![d] = Append(@, f.body)] /\ UNCHANGED <<net, holds, opened>>
        /\ Active(d) /\ ~drain[d].on
    BY <1>9 DEF ReceiveCommit, Openable
  <2>2. CASE pending[d] = <<>>
    <3>1. UNCHANGED <<pending, drain>> /\ Observe(d, TRUE, FALSE)
      BY <1>9, <2>2 DEF ReceiveCommit
    <3>2. stall'[d] = 0 /\ \A x \in Device \ {d} : stall'[x] = stall[x]
      BY <1>t, <3>1 DEF Observe, StallStep
    <3>3. CASE e = d
      BY <1>t, <2>1, <2>2, <3>1, <3>2, <3>3 DEF Sorted, Waiting, Once
    <3>4. CASE e # d
      BY <1>t, <2>1, <3>1, <3>2, <3>4, SortedByOthers DEF Active
    <3>5. QED
      BY <3>3, <3>4
  <2>3. CASE pending[d] # <<>>
    <3>1. /\ pending' = [pending EXCEPT ![d] = <<>>] /\ UNCHANGED stall
          /\ drain'   = [drain EXCEPT ![d] = Draining(pending[d])]
      BY <1>9, <2>3 DEF ReceiveCommit, detector
    <3>2. /\ Draining(pending[d]).batch = pending[d] /\ Draining(pending[d]).on
          /\ pending'[d] = <<>> /\ drain'[d] = Draining(pending[d])
      BY <1>t, <3>1 DEF Draining
    <3>3. CASE e = d
      BY <1>t, <2>1, <3>2, <3>3 DEF Sorted, Waiting
    <3>4. CASE e # d
      BY <1>t, <2>1, <3>1, <3>4, SortedByOthers DEF Active
    <3>5. QED
      BY <3>3, <3>4
  <2>4. QED
    BY <2>2, <2>3
<1>10. ASSUME NEW d \in Device, DrainFrame(d) PROVE Sorted(e)'
  <2>1. CASE e = d
    BY <1>10, <2>1, SortedByDrainFrame
  <2>2. CASE e # d
    <3> DEFINE f == Head(drain[d].batch)
    <3>1. /\ drain'[e] = drain[e] /\ UNCHANGED <<holds, stall>>
          /\ at' = at \/ at' = [at EXCEPT ![d] = Append(@, f.body)]
          /\ pending' = pending \/ pending' = [pending EXCEPT ![d] = BufferFuture(@, f)]
          /\ opened' = opened \/ opened' = [opened EXCEPT ![d] = @ \cup {f}]
      BY <1>10, <2>2, DrainFrameEffect
    <3> HIDE DEF f
    <3>2. at'[e] = at[e] /\ pending'[e] = pending[e] /\ opened'[e] = opened[e]
      BY <1>t, <2>2, <3>1
    <3>3. QED
      BY <3>1, <3>2, SortedByOthers DEF Active
  <2>3. QED
    BY <2>1, <2>2
<1>11. ASSUME NEW d \in Device, DrainFail(d) PROVE Sorted(e)'
  <2>1. /\ drain' = [drain EXCEPT ![d] = Idle]
        /\ UNCHANGED <<net, holds, at, pending, opened, stall>>
    BY <1>11 DEF DrainFail, detector
  <2>2. CASE e = d
    BY <1>11, <2>1, <2>2, NoDrainFails DEF Sorted, Active
  <2>3. CASE e # d
    BY <1>t, <2>1, <2>3, SortedByOthers DEF Active
  <2>4. QED
    BY <2>2, <2>3
<1>12. ASSUME NEW d \in Device, DrainAgain(d) PROVE Sorted(e)'
  <2>1. /\ pending' = [pending EXCEPT ![d] = <<>>]
        /\ UNCHANGED <<net, holds, at, opened, stall>>
        /\ \A x \in Device \ {d} : drain'[x] = drain[x]
        /\ drain'[d].batch = pending[d] /\ drain'[d].on
    BY <1>12 DEF DrainAgain, TypeOK, detector
  <2>2. CASE e = d
    BY <1>t, <2>1, <2>2 DEF Sorted, Waiting, Active
  <2>3. CASE e # d
    BY <1>t, <2>1, <2>3, SortedByOthers DEF Active
  <2>4. QED
    BY <2>2, <2>3
<1>13. ASSUME NEW d \in Device, DrainDone(d) PROVE Sorted(e)'
  <2>1. /\ drain' = [drain EXCEPT ![d] = Idle] /\ UNCHANGED <<net, holds, at, pending, opened>>
        /\ ~drain[d].progress \/ pending[d] = <<>>
        /\ stall'[d] = 0 /\ \A x \in Device \ {d} : stall'[x] = stall[x]
    BY <1>t, <1>13 DEF DrainDone, Observe, StallStep
  <2>2. drain'[d].batch = <<>> /\ \A x \in Device \ {d} : drain'[x] = drain[x]
    BY <1>t, <2>1 DEF Idle
  <2>3. CASE e = d
    BY <1>t, <2>1, <2>2, <2>3 DEF Sorted, Waiting, Active
  <2>4. CASE e # d
    BY <1>t, <2>1, <2>2, <2>4, SortedByOthers DEF Active
  <2>5. QED
    BY <2>3, <2>4
<1>14. ASSUME NEW d \in Device, NEW w \in welcomes, Join(d, w) \/ Replace(d, w)
       PROVE  Sorted(e)'
  <2>1. /\ at' = [at EXCEPT ![d] = w.at] /\ pending' = [pending EXCEPT ![d] = <<>>]
        /\ stall' = [stall EXCEPT ![d] = 0] /\ UNCHANGED <<drain, opened>>
        /\ holds' = holds \/ holds' = holds \cup {d}
        /\ d \notin holds \/ ~drain[d].on
    BY <1>14 DEF Join, Replace, Adopt
  <2>2. drain[d].batch = <<>>
    BY <2>1 DEF Once
  <2>3. CASE e = d
    BY <1>t, <2>1, <2>2, <2>3 DEF Sorted, Waiting
  <2>4. CASE e # d
    BY <1>t, <2>1, <2>4, SortedByOthers DEF Active
  <2>5. QED
    BY <2>3, <2>4
<1>15. QED
  BY <1>2, <1>3, <1>5, <1>6, <1>7, <1>8, <1>9, <1>10, <1>11, <1>12, <1>13, <1>14 DEF Next

\* With one committer nobody forks and every buffer is in order.
LEMMA LinedInvariant == Spec => []Lined
<1>1. Init => Lined
  <2> SUFFICES ASSUME Init, NEW k \in Device, NEW d \in Device PROVE Leads(k) /\ Sorted(d)
    BY DEF Lined
  <2>1. net = {} /\ \A e \in Device : at[e] = <<>>
    BY DEF Init
  <2>2. PrefixOf(<<>>, <<>>)
    BY DEF PrefixOf
  <2>3. pending[d] = <<>> /\ drain[d].batch = <<>> /\ opened[d] = {} /\ stall[d] = 0
    BY DEF Init, Idle
  <2>4. QED
    BY <2>1, <2>2, <2>3 DEF Leads, Sorted, Waiting, Elems
<1>2. TypeOK /\ Grounded /\ Known /\ Once /\ Lined /\ [Next]_vars => Lined'
  <2> SUFFICES ASSUME TypeOK, Grounded, Known, Once, Lined, [Next]_vars,
                      NEW k \in Device, SoleCommitter(k)'
               PROVE  Leads(k)' /\ \A d \in Device : Sorted(d)'
    BY DEF Lined
  <2>1. Leads(k) /\ \A d \in Device : Sorted(d)
    BY NetGrows DEF Lined, SoleCommitter, IsCommit
  <2>2. QED
    BY <2>1, LeadsStep, SortedStep
<1>3. QED
  BY <1>1, <1>2, TypeCorrect, GroundedInvariant, KnownInvariant, OnceInvariant, PTL DEF Spec

\* With one committer the drain leaves nothing behind that could be applied, for any number
\* of devices, any buffer size and whatever order the frames come in.
THEOREM BufferStaysAhead == Spec => []BufferAhead
<1>1. Lined => BufferAhead
  BY DEF Lined, Sorted, BufferAhead, Elems
<1>2. QED
  BY <1>1, LinedInvariant, PTL

\* With one committer a desync notice is never a false alarm, for any threshold.
THEOREM NoticeIsTruthful == Spec => []NoticeTruthful
<1>1. TypeOK /\ NoticeOncePerStall /\ Known /\ Lined => NoticeTruthful
  <2> SUFFICES ASSUME TypeOK, NoticeOncePerStall, Known, Lined,
                      NEW k \in Device, SoleCommitter(k),
                      NEW d \in Device, Active(d), ~drain[d].on, flagged[d]
               PROVE  \E o \in holds : ~PrefixOf(at[o], at[d])
    BY DEF NoticeTruthful
  <2>1. stall[d] > 0
    BY ConstantsOK DEF NoticeOncePerStall, TypeOK
  <2>2. PICK f \in net : Epoch(f) > Len(at[d])
    BY <2>1 DEF Lined, Sorted
  <2>3. f.body.by \in holds /\ Epoch(f) <= Len(at[f.body.by])
    BY DEF Known
  <2>4. Epoch(f) \in Nat /\ Len(at[d]) \in Nat /\ Len(at[f.body.by]) \in Nat
    BY <2>3, FrameType DEF TypeOK, History
  <2>5. ~PrefixOf(at[f.body.by], at[d])
    BY <2>2, <2>3, <2>4 DEF PrefixOf
  <2>6. QED
    BY <2>3, <2>5
<1>2. QED
  BY <1>1, TypeCorrect, NoticeOnce, KnownInvariant, LinedInvariant, PTL

=============================================================================
