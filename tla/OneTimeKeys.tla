---------------------------- MODULE OneTimeKeys ----------------------------
(***************************************************************************)
(* What a session promises about keys that are good for one use: the key   *)
(* of a generation, under which a message is sealed to be handed out, and  *)
(* the key a peer's message opens with.  What is done with a key leaves    *)
(* the session only after the store has the key as used.  The use of a key *)
(* may be lost, with the process or with a write that fails; what came of  *)
(* it is never given out twice, however often the session starts again     *)
(* from the store.                                                         *)
(***************************************************************************)
CONSTANT Used(_, _)  \* Used(k, s): the key k is used up in the stored state s

VARIABLES
  saved,  \* what the store has
  inUse,  \* the keys of the call in progress whose result it has yet to return
  out     \* the keys whose result has been given out

keys == <<saved, inUse, out>>

Init == inUse = {} /\ out = {}

\* Only keys that are not used up are used.
UseKey ==
  /\ inUse = {} /\ inUse' # {} /\ \A k \in inUse' : ~Used(k, saved)
  /\ UNCHANGED <<saved, out>>

\* What has been used and given out stays used.
Save ==
  /\ \A k \in out : Used(k, saved')
  /\ UNCHANGED <<inUse, out>>

GiveOut ==
  /\ inUse # {} /\ \A k \in inUse : Used(k, saved)
  /\ out' = out \cup inUse /\ inUse' = {}
  /\ UNCHANGED saved

Lose ==
  /\ inUse' = {}
  /\ UNCHANGED <<saved, out>>

Next == UseKey \/ Save \/ GiveOut \/ Lose

Spec == Init /\ [][Next]_keys

-----------------------------------------------------------------------------
\* What follows: nothing is in use that has been given out, and the store has all
\* that has been given out as used.
OncePerKey == inUse \cap out = {} /\ \A k \in out : Used(k, saved)
=============================================================================
