------------------------------- MODULE Diags --------------------------------
(***************************************************************************)
(* The scripts of the nine diagnostic clients.  wait_cb polls for 10 s,    *)
(* one tick, or in the store clients for 15 s or 20 s, three or four;      *)
(* their queries may take 12 s or 15 s, three ticks.  How often a loop     *)
(* goes round is a constant; sleeps and what is printed are left out.      *)
(***************************************************************************)
EXTENDS DiagCall

CONSTANTS
  Rounds,  \* rounds of readings: 6 or 9 in the code
  Sends,   \* messages sent: 3
  Shards   \* shards queried: 8

ASSUME DiagsAssumption == Rounds \in Nat /\ Sends \in Nat /\ Shards \in Nat

On(kind, sym, guard) == [kind |-> kind, sym |-> sym, guard |-> guard]

\* create_node and start_node as most clients call them, without checking the symbols.
Started == <<On("create", "create", "trusts"), On("call", "start", "trusts")>>

\* The steps of a loop, n times.
Repeat(n, steps) == [i \in 1 .. n * Len(steps) |-> steps[((i - 1) % Len(steps)) + 1]]

ConnDiag ==
  [wait |-> 1, timeout |-> 0,
   steps |-> <<On("create", "create", "checks"), On("call", "start", "checks"),
               On("call", "getids", "skips"), On("call", "getinfo", "skips")>>
             \o Repeat(Rounds, <<On("call", "getinfo", "skips")>>)]

MeshDiag ==
  [wait |-> 1, timeout |-> 0,
   steps |-> <<On("create", "create", "checks"), On("call", "start", "checks"),
               On("call", "sub", "skips")>>
             \o Repeat(Rounds, <<On("call", "nconn", "skips"), On("call", "nmesh", "skips"),
                                 On("call", "nmesh", "skips")>>)]

EdgeDiag ==
  [wait |-> 1, timeout |-> 0,
   steps |-> Started \o <<On("call", "sub", "skips")>>
             \o Repeat(Rounds, <<On("call", "nconn", "skips"), On("call", "byproto", "skips"),
                                 On("call", "nmesh", "skips")>>)]

MetricsDiag ==
  [wait |-> 1, timeout |-> 0,
   steps |-> Started \o <<On("call", "sub", "skips"), On("call", "info", "trusts")>>]

\* Mutant of RecvDiag: the event callback is registered once the node runs.
RecvDiagLate ==
  [wait |-> 1, timeout |-> 0,
   steps |-> Started \o <<On("register", "setcb", "skips"), On("call", "sub", "trusts")>>]

RecvDiag ==
  [wait |-> 1, timeout |-> 0,
   steps |-> <<On("create", "create", "trusts"), On("register", "setcb", "skips"),
               On("call", "start", "trusts"), On("call", "sub", "trusts")>>]

SendDiag ==
  [wait |-> 1, timeout |-> 0,
   steps |-> Started \o <<On("call", "sub", "skips"), On("call", "byproto", "skips")>>
             \o Repeat(Sends, <<On("call", "send", "trusts")>>)]

StoreIdDiag ==
  [wait |-> 3, timeout |-> 3,
   steps |-> Started \o Repeat(Shards, <<On("query", "sq", "checks")>>)]

\* One query per shard until a topic is found, then two for that topic.
CtOnlyDiag ==
  [wait |-> 4, timeout |-> 3,
   steps |-> Started \o Repeat(Shards, <<On("scan", "sq", "checks")>>)
             \o Repeat(2, <<On("query", "sq", "checks")>>)]

TimeWindowDiag ==
  [wait |-> 4, timeout |-> 3, steps |-> Started \o Repeat(3, <<On("query", "sq", "trusts")>>)]

AllDiags == {ConnDiag, MeshDiag, EdgeDiag, MetricsDiag, RecvDiag, SendDiag,
             StoreIdDiag, CtOnlyDiag, TimeWindowDiag}
=============================================================================
