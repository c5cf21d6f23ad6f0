----------------------------- MODULE MCDelivery -----------------------------
(***************************************************************************)
(* Delivery as TLC checks it: nothing tells two topics apart, or two       *)
(* envelopes, or the names of two messages of other clients.               *)
(***************************************************************************)
EXTENDS Delivery, TLC

Symmetry == Permutations(Topic) \cup Permutations(Envelope) \cup Permutations(Remote)

=============================================================================
