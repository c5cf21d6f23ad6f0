------------------------------- MODULE Base64 -------------------------------
(***************************************************************************)
(* b64decode of the desktop peer.  A text is a sequence of the values      *)
(* b64val gives its characters: 0 to 63, or Junk for any other character.  *)
(***************************************************************************)
EXTENDS Integers, Sequences

Junk == -1

Smaller(a, b) == IF a < b THEN a ELSE b

\* The bytes of a group of four characters, those it does not have yet taken as 0.
GroupBytes(q) ==
  LET v(i) == IF i <= Len(q) THEN q[i] ELSE 0 IN
  <<v(1) * 4 + v(2) \div 16, (v(2) % 16) * 16 + v(3) \div 4, (v(3) % 4) * 64 + v(4)>>

\* One character: st has the bytes written, the group being gathered, and whether the
\* loop was left because a whole group did not fit.
Gather(st, v, outmax) ==
  IF v = Junk \/ st.stop THEN st
  ELSE LET q == Append(st.q, v) IN
       IF Len(q) < 4 THEN [out |-> st.out, q |-> q, stop |-> FALSE]
       ELSE IF Len(st.out) + 3 > outmax THEN [out |-> st.out, q |-> q, stop |-> TRUE]
       ELSE [out |-> st.out \o GroupBytes(q), q |-> <<>>, stop |-> FALSE]

\* The loop over a text: where it is after each number of characters.
Loop(text, outmax) ==
  LET st[i \in 0 .. Len(text)] ==
        IF i = 0 THEN [out |-> <<>>, q |-> <<>>, stop |-> FALSE]
        ELSE Gather(st[i - 1], text[i], outmax)
  IN  st

\* Mutant of Decode: the last group is written whatever room there is.
DecodeOverrun(text, outmax) ==
  LET st == Loop(text, outmax)[Len(text)]
  IN  st.out \o SubSeq(GroupBytes(st.q), 1, Smaller(2, Len(st.q) - 1))

\* What b64decode writes to a buffer of outmax bytes.  After the loop at most two bytes
\* of the group in hand are written, as far as there is room.
Decode(text, outmax) ==
  LET st == Loop(text, outmax)[Len(text)]
      rest == Smaller(2, Len(st.q) - 1)
  IN  st.out \o SubSeq(GroupBytes(st.q), 1, Smaller(rest, outmax - Len(st.out)))

\* The reference: the characters that count, as one string of bits cut into bytes.
Keep(vs, v) == IF v = Junk THEN vs ELSE Append(vs, v)

Counting(text) ==
  LET kept[i \in 0 .. Len(text)] == IF i = 0 THEN <<>> ELSE Keep(kept[i - 1], text[i])
  IN  kept

Bit(vs, k) == (vs[k \div 6 + 1] \div <<32, 16, 8, 4, 2, 1>>[(k % 6) + 1]) % 2

Byte(vs, k) ==
  128 * Bit(vs, k) + 64 * Bit(vs, k + 1) + 32 * Bit(vs, k + 2) + 16 * Bit(vs, k + 3)
    + 8 * Bit(vs, k + 4) + 4 * Bit(vs, k + 5) + 2 * Bit(vs, k + 6) + Bit(vs, k + 7)

Meaning(text) ==
  LET vs == Counting(text)[Len(text)]
  IN  [i \in 1 .. (6 * Len(vs)) \div 8 |-> Byte(vs, 8 * (i - 1))]

\* For every one of the texts and sizes, Decode writes what its text means, cut to size.
DecodesRight(texts, sizes) ==
  \A t \in texts, m \in sizes :
    LET b == Meaning(t) IN Decode(t, m) = SubSeq(b, 1, Smaller(m, Len(b)))
=============================================================================
