------------------------------ MODULE MCHosts -------------------------------
(***************************************************************************)
(* Hosts as TLC checks it.                                                 *)
(***************************************************************************)
EXTENDS Hosts

\* A whole group with junk in it, a group and one, two and three characters, the last
\* ones padded, and more than the buffer takes.
SomeTexts ==
  {<<0, Junk, 22, 41, 63>>, <<63, 22, 41, 0, 22>>, <<1, 2, 3, 4, 62, 33, Junk, Junk>>,
   <<63, 63, 63, 63, 41, 22, 7, Junk>>, <<41, 41, 41, 41, 9, 8, 7, 6>>}

\* Every text of up to five characters, of a few values and junk.
ShortTexts == UNION {[1 .. n -> {Junk, 0, 22, 41, 63}] : n \in 0 .. 5}

\* b64decode gives the bytes a text stands for, as many as the buffer takes: the ones the
\* command loop is fed, and every short text with every small buffer.
ShortDecoded == DecodesRight(ShortTexts, 0 .. 4)
IngestRight  == IngestDecodes /\ ShortDecoded
=============================================================================
