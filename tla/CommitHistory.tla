--------------------------- MODULE CommitHistory ---------------------------
(***************************************************************************)
(* What a GroupV1 group promises about membership, without frames, buffers *)
(* or detectors: each device has a log of commits, and its log only ever   *)
(* changes by its own commit, by one commit somebody made on top of        *)
(* exactly that log, or by being introduced through a commit that adds it. *)
(* Evictions are the creator's, and only the creator can reintroduce a     *)
(* device that already holds the group.                                    *)
(***************************************************************************)
EXTENDS Naturals, Sequences

CONSTANTS Device, Founder, Creator, NoOne

VARIABLES
  holds,  \* devices that hold the group
  log,    \* log[d]: the commits d has applied
  chain   \* every log somebody's commit has produced

Commit == [by : Device, kind : {"add", "remove"}, who : Device]

Init ==
  /\ holds = Founder
  /\ log   = [d \in Device |-> <<>>]
  /\ chain = {<<>>}

\* d makes a commit.
Author(d) ==
  \E c \in Commit :
    /\ d \in holds
    /\ c.by = d /\ c.who # d
    /\ log'   = [log EXCEPT ![d] = Append(@, c)]
    /\ chain' = chain \cup {Append(log[d], c)}
    /\ UNCHANGED holds

\* d applies somebody else's commit; an eviction only if it is the creator's.
Follow(d) ==
  \E c \in Commit :
    /\ d \in holds
    /\ c.by # d /\ Append(log[d], c) \in chain
    /\ c.kind = "remove" => (Creator # NoOne /\ c.by = Creator) \/ c.by = c.who
    /\ log' = [log EXCEPT ![d] = Append(@, c)]
    /\ UNCHANGED <<holds, chain>>

\* The log h was produced by a commit of `by` that adds d.
Introduces(h, by, d) == h # <<>> /\ h[Len(h)] = [by |-> by, kind |-> "add", who |-> d]

Enter(d) ==
  \E h \in chain :
    /\ d \notin holds
    /\ \E by \in Device : Introduces(h, by, d)
    /\ holds' = holds \cup {d}
    /\ log'   = [log EXCEPT ![d] = h]
    /\ UNCHANGED chain

Reenter(d) ==
  \E h \in chain :
    /\ d \in holds
    /\ Creator # NoOne /\ Introduces(h, Creator, d)
    /\ Len(h) > Len(log[d])
    /\ log' = [log EXCEPT ![d] = h]
    /\ UNCHANGED <<holds, chain>>

Next == \E d \in Device : Author(d) \/ Follow(d) \/ Enter(d) \/ Reenter(d)

Spec == Init /\ [][Next]_<<holds, log, chain>>

=============================================================================
