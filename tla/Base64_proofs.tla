--------------------------- MODULE Base64_proofs ---------------------------
(***************************************************************************)
(* b64decode gives the bytes its text stands for, for every text and every *)
(* size of the buffer.  Loop and Counting are recursive functions: what is *)
(* proved about them goes over the characters of the text, by the least    *)
(* number at which it would fail.                                          *)
(***************************************************************************)
EXTENDS Base64, TLAPS, WellFoundedInduction, SequenceTheorems

\* Induction for a set: one that has 0, and each successor of what it has, has all of Nat.
LEMMA Induct ==
  ASSUME NEW T, 0 \in T, \A n \in Nat : n \in T => n + 1 \in T
  PROVE  Nat \subseteq T
<1> SUFFICES ASSUME Nat \ T # {}
             PROVE  FALSE
  OBVIOUS
<1>1. PICK m \in Nat \ T : \A k \in Nat \ T : <<k, m>> \notin OpToRel(<, Nat)
  <2> DEFINE M == Nat \ T
  <2>1. M \subseteq Nat /\ M # {}
    OBVIOUS
  <2> HIDE DEF M
  <2>2. \E x \in M : \A y \in M : <<y, x>> \notin OpToRel(<, Nat)
    BY <2>1, WFMin, NatLessThanWellFounded, Zenon
  <2>3. QED
    BY <2>2 DEF M
<1>2. \A k \in Nat : k < m => k \in T
  BY <1>1, Zenon DEF OpToRel
<1>3. m - 1 \in Nat /\ m - 1 < m /\ (m - 1) + 1 = m
  OBVIOUS
<1>4. QED
  BY <1>1, <1>2, <1>3

\* A state and a function for each step give the sequence of states they lead to.
LEMMA Iterates ==
  ASSUME NEW S, NEW b \in S, NEW N \in Nat, NEW step \in [1 .. N -> [S -> S]]
  PROVE  \E f \in [0 .. N -> S] :
           f[0] = b /\ \A i \in 1 .. N : f[i] = step[i][f[i - 1]]
<1> DEFINE Runs(n) == {f \in [0 .. n -> S] :
                         f[0] = b /\ \A i \in 1 .. n : f[i] = step[i][f[i - 1]]}
           T == {n \in Nat : n <= N => Runs(n) # {}}
<1>1. 0 \in T
  <2>1. [i \in 0 .. 0 |-> b] \in Runs(0)
    OBVIOUS
  <2>2. QED
    BY <2>1
<1>2. ASSUME NEW n \in Nat, n \in T
      PROVE  n + 1 \in T
  <2> SUFFICES ASSUME n + 1 <= N
               PROVE  Runs(n + 1) # {}
    OBVIOUS
  <2>1. PICK f \in Runs(n) : TRUE
    BY <1>2
  <2> DEFINE g == [i \in 0 .. n + 1 |-> IF i = n + 1 THEN step[n + 1][f[n]] ELSE f[i]]
  <2>2. f \in [0 .. n -> S] /\ f[0] = b /\ \A i \in 1 .. n : f[i] = step[i][f[i - 1]]
    BY <2>1
  <2>3. step[n + 1][f[n]] \in S
    BY <2>2
  <2>4. g \in [0 .. n + 1 -> S]
    BY <2>2, <2>3
  <2>5. g[0] = b /\ g[n + 1] = step[n + 1][g[n]]
    BY <2>2
  <2>6. \A i \in 1 .. n : g[i] = f[i] /\ g[i - 1] = f[i - 1]
    OBVIOUS
  <2>7. \A i \in 1 .. n + 1 : g[i] = step[i][g[i - 1]]
    <3> HIDE DEF g
    <3>1. \A i \in 1 .. n + 1 : i \in 1 .. n \/ i = n + 1
      OBVIOUS
    <3>2. QED
      BY <2>2, <2>5, <2>6, <3>1
  <2>8. QED
    BY <2>4, <2>5, <2>7
<1>3. N \in T
  <2> HIDE DEF T
  <2>1. QED
    BY <1>1, <1>2, Induct
<1>4. PICK f \in Runs(N) : TRUE
  BY <1>3
<1>5. QED
  BY <1>4
\* The values of characters that count, of any characters, and texts without junk.
Sextet == 0 .. 63
Char == Junk .. 63
Sextets == Seq(Sextet)

\* Where the loop can be.
LoopState ==
  {s \in [out : Seq(Int), q : Seq(Sextet), stop : BOOLEAN] :
     IF s.stop THEN Len(s.q) = 4 ELSE Len(s.q) <= 3}

\* A group of characters gives bytes.
LEMMA GroupBytesType ==
  ASSUME NEW q \in Seq(Sextet)
  PROVE  GroupBytes(q) \in Seq(Int) /\ Len(GroupBytes(q)) = 3
<1> DEFINE v(i) == IF i <= Len(q) THEN q[i] ELSE 0
<1>1. \A i \in 1 .. Len(q) : q[i] \in Int
  <2>1. \A i \in 1 .. Len(q) : q[i] \in Sextet
    OBVIOUS
  <2>2. \A x \in Sextet : x \in Int
    BY DEF Sextet
  <2>3. QED
    BY <2>1, <2>2
<1>2. v(1) \in Int /\ v(2) \in Int /\ v(3) \in Int /\ v(4) \in Int
  <2>1. \A i \in {1, 2, 3, 4} : i <= Len(q) => i \in 1 .. Len(q)
    OBVIOUS
  <2>2. \A i \in {1, 2, 3, 4} : v(i) \in Int
    BY <1>1, <2>1
  <2>3. QED
    BY <2>2
<1>3. \A a, b \in Int : /\ a * 4 + b \div 16 \in Int
                         /\ (a % 16) * 16 + b \div 4 \in Int
                         /\ (a % 4) * 64 + b \in Int
  OBVIOUS
<1>4. GroupBytes(q) = <<v(1) * 4 + v(2) \div 16, (v(2) % 16) * 16 + v(3) \div 4,
                        (v(3) % 4) * 64 + v(4)>>
  BY DEF GroupBytes
<1> HIDE DEF v
<1>5. \A x, y, z \in Int : <<x, y, z>> \in Seq(Int) /\ Len(<<x, y, z>>) = 3
  OBVIOUS
<1>6. \E x, y, z \in Int : GroupBytes(q) = <<x, y, z>>
  BY <1>2, <1>3, <1>4
<1>7. QED
  BY <1>5, <1>6

\* A character takes the loop from a state it can be in to another one.
LEMMA GatherType ==
  ASSUME NEW st \in LoopState, NEW v \in Char, NEW m \in Nat
  PROVE  Gather(st, v, m) \in LoopState
<1> DEFINE q == Append(st.q, v)
<1>1. CASE v = Junk \/ st.stop
  BY <1>1 DEF Gather
<1>2. CASE ~(v = Junk \/ st.stop)
  <2>1. /\ st \in [out : Seq(Int), q : Seq(Sextet), stop : BOOLEAN]
        /\ st.out \in Seq(Int) /\ st.q \in Seq(Sextet) /\ Len(st.q) <= 3 /\ st.stop = FALSE
    BY <1>2 DEF LoopState
  <2>2. v \in Sextet
    BY <1>2 DEF Junk, Char, Sextet
  <2>3. q \in Seq(Sextet) /\ Len(q) = Len(st.q) + 1 /\ Len(st.q) \in Nat
    BY <2>1, <2>2
  <2>4. GroupBytes(q) \in Seq(Int)
    BY <2>3, GroupBytesType
  <2>5. st.out \o GroupBytes(q) \in Seq(Int) /\ <<>> \in Seq(Sextet) /\ Len(<<>>) = 0
    BY <2>1, <2>4
  <2>6. Gather(st, v, m) =
          IF Len(q) < 4 THEN [out |-> st.out, q |-> q, stop |-> FALSE]
          ELSE IF Len(st.out) + 3 > m THEN [out |-> st.out, q |-> q, stop |-> TRUE]
          ELSE [out |-> st.out \o GroupBytes(q), q |-> <<>>, stop |-> FALSE]
    BY <1>2, <2>1 DEF Gather
  <2> HIDE DEF q
  <2>7. CASE Len(q) < 4
    BY <2>1, <2>3, <2>6, <2>7 DEF LoopState
  <2>8. CASE Len(q) >= 4 /\ Len(st.out) + 3 > m
    <3>1. Gather(st, v, m) = [out |-> st.out, q |-> q, stop |-> TRUE] /\ Len(q) = 4
      BY <2>1, <2>3, <2>6, <2>8
    <3>2. QED
      BY <2>1, <2>3, <3>1 DEF LoopState
  <2>9. CASE Len(q) >= 4 /\ ~(Len(st.out) + 3 > m)
    BY <2>3, <2>5, <2>6, <2>9 DEF LoopState
  <2>10. QED
    BY <2>3, <2>7, <2>8, <2>9
<1>3. QED
  BY <1>1, <1>2

\* The states of the loop: each is the one before after the next character.
LEMMA LoopRuns ==
  ASSUME NEW t \in Seq(Char), NEW m \in Nat
  PROVE  /\ Loop(t, m) \in [0 .. Len(t) -> LoopState]
         /\ Loop(t, m)[0] = [out |-> <<>>, q |-> <<>>, stop |-> FALSE]
         /\ \A i \in 1 .. Len(t) : Loop(t, m)[i] = Gather(Loop(t, m)[i - 1], t[i], m)
<1> DEFINE b == [out |-> <<>>, q |-> <<>>, stop |-> FALSE]
           N == Len(t)
           P(f) == f = [i \in 0 .. N |-> IF i = 0 THEN b ELSE Gather(f[i - 1], t[i], m)]
           step == [i \in 1 .. N |-> [s \in LoopState |-> Gather(s, t[i], m)]]
<1>1. N \in Nat
  OBVIOUS
<1>2. b \in LoopState
  BY DEF LoopState
<1>3. \A s \in LoopState, i \in 1 .. N : Gather(s, t[i], m) \in LoopState
  <2>1. \A i \in 1 .. N : t[i] \in Char
    OBVIOUS
  <2>2. QED
    BY <2>1, GatherType
<1>4. Loop(t, m) = CHOOSE f : P(f)
  BY DEF Loop
<1> HIDE DEF b, N
<1>5. step \in [1 .. N -> [LoopState -> LoopState]]
  BY <1>3
<1>6. PICK f \in [0 .. N -> LoopState] :
        f[0] = b /\ \A i \in 1 .. N : f[i] = step[i][f[i - 1]]
  <2> HIDE DEF step
  <2>1. QED
    BY <1>1, <1>2, <1>5, Iterates
<1>7. \A i \in 1 .. N : step[i][f[i - 1]] = Gather(f[i - 1], t[i], m)
  <2>1. \A i \in 1 .. N : i - 1 \in 0 .. N
    BY <1>1
  <2>2. \A i \in 1 .. N : f[i - 1] \in LoopState
    BY <1>6, <2>1
  <2>3. QED
    BY <2>2
<1> HIDE DEF step
<1>8. P(f)
  <2>1. \A i \in 0 .. N : i # 0 => i \in 1 .. N
    BY <1>1
  <2>2. QED
    BY <1>6, <1>7, <2>1
<1>9. P(Loop(t, m))
  BY <1>4, <1>8
<1>10. /\ Loop(t, m)[0] = b
       /\ \A i \in 1 .. N : Loop(t, m)[i] = Gather(Loop(t, m)[i - 1], t[i], m)
  BY <1>1, <1>9
<1>11. Loop(t, m) \in [0 .. N -> LoopState]
  <2> DEFINE T == {i \in Nat : i <= N => Loop(t, m)[i] \in LoopState}
  <2>1. 0 \in T
    BY <1>2, <1>10
  <2>2. ASSUME NEW i \in Nat, i \in T
        PROVE  i + 1 \in T
    <3> SUFFICES ASSUME i + 1 <= N
                 PROVE  Loop(t, m)[i + 1] \in LoopState
      OBVIOUS
    <3>1. i + 1 \in 1 .. N /\ (i + 1) - 1 = i /\ i <= N
      BY <1>1
    <3>2. Loop(t, m)[i] \in LoopState
      BY <2>2, <3>1
    <3>3. Loop(t, m)[i + 1] = Gather(Loop(t, m)[i], t[i + 1], m)
      BY <1>10, <3>1
    <3>4. QED
      BY <1>3, <3>1, <3>2, <3>3
  <2>3. Nat \subseteq T
    <3> HIDE DEF T
    <3>1. QED
      BY <2>1, <2>2, Induct
  <2>4. \A i \in 0 .. N : Loop(t, m)[i] \in LoopState
    BY <1>1, <2>3
  <2>5. QED
    BY <1>9, <2>4
<1>12. QED
  BY <1>10, <1>11 DEF b, N

\* The characters that count: each adds itself or nothing to the ones before.
LEMMA CountingRuns ==
  ASSUME NEW t \in Seq(Char)
  PROVE  /\ Counting(t) \in [0 .. Len(t) -> Sextets]
         /\ Counting(t)[0] = <<>>
         /\ \A i \in 1 .. Len(t) : Counting(t)[i] = Keep(Counting(t)[i - 1], t[i])
<1> DEFINE b == <<>>
           N == Len(t)
           P(f) == f = [i \in 0 .. N |-> IF i = 0 THEN b ELSE Keep(f[i - 1], t[i])]
           step == [i \in 1 .. N |-> [s \in Sextets |-> Keep(s, t[i])]]
<1>1. N \in Nat
  OBVIOUS
<1>2. b \in Sextets
  BY DEF Sextets
<1>3. \A s \in Sextets, i \in 1 .. N : Keep(s, t[i]) \in Sextets
  <2>1. \A i \in 1 .. N : t[i] \in Char
    OBVIOUS
  <2>2. \A i \in 1 .. N : t[i] = Junk \/ t[i] \in Sextet
    BY <2>1 DEF Char, Junk, Sextet
  <2>3. QED
    BY <2>2 DEF Keep, Sextets
<1>4. Counting(t) = CHOOSE f : P(f)
  BY DEF Counting
<1> HIDE DEF b, N
<1>5. step \in [1 .. N -> [Sextets -> Sextets]]
  BY <1>3
<1>6. PICK f \in [0 .. N -> Sextets] :
        f[0] = b /\ \A i \in 1 .. N : f[i] = step[i][f[i - 1]]
  <2> HIDE DEF step
  <2>1. QED
    BY <1>1, <1>2, <1>5, Iterates
<1>7. \A i \in 1 .. N : step[i][f[i - 1]] = Keep(f[i - 1], t[i])
  <2>1. \A i \in 1 .. N : i - 1 \in 0 .. N
    BY <1>1
  <2>2. \A i \in 1 .. N : f[i - 1] \in Sextets
    BY <1>6, <2>1
  <2>3. QED
    BY <2>2
<1> HIDE DEF step
<1>8. P(f)
  <2>1. \A i \in 0 .. N : i # 0 => i \in 1 .. N
    BY <1>1
  <2>2. QED
    BY <1>6, <1>7, <2>1
<1>9. P(Counting(t))
  BY <1>4, <1>8
<1>10. /\ Counting(t)[0] = b
       /\ \A i \in 1 .. N : Counting(t)[i] = Keep(Counting(t)[i - 1], t[i])
  BY <1>1, <1>9
<1>11. Counting(t) \in [0 .. N -> Sextets]
  <2> DEFINE T == {i \in Nat : i <= N => Counting(t)[i] \in Sextets}
  <2>1. 0 \in T
    BY <1>2, <1>10
  <2>2. ASSUME NEW i \in Nat, i \in T
        PROVE  i + 1 \in T
    <3> SUFFICES ASSUME i + 1 <= N
                 PROVE  Counting(t)[i + 1] \in Sextets
      OBVIOUS
    <3>1. i + 1 \in 1 .. N /\ (i + 1) - 1 = i /\ i <= N
      BY <1>1
    <3>2. Counting(t)[i] \in Sextets
      BY <2>2, <3>1
    <3>3. Counting(t)[i + 1] = Keep(Counting(t)[i], t[i + 1])
      BY <1>10, <3>1
    <3>4. QED
      BY <1>3, <3>1, <3>2, <3>3
  <2>3. Nat \subseteq T
    <3> HIDE DEF T
    <3>1. QED
      BY <2>1, <2>2, Induct
  <2>4. \A i \in 0 .. N : Counting(t)[i] \in Sextets
    BY <1>1, <2>3
  <2>5. QED
    BY <1>9, <2>4
<1>12. QED
  BY <1>10, <1>11 DEF b, N

\* The bits of a character.
LEMMA BitsOfSextet ==
  ASSUME NEW a \in Sextet
  PROVE  /\ 32 * ((a \div 32) % 2) + 16 * ((a \div 16) % 2) + 8 * ((a \div 8) % 2)
              + 4 * ((a \div 4) % 2) + 2 * ((a \div 2) % 2) + ((a \div 1) % 2) = a
         /\ 2 * ((a \div 32) % 2) + ((a \div 16) % 2) = a \div 16
         /\ 8 * ((a \div 8) % 2) + 4 * ((a \div 4) % 2) + 2 * ((a \div 2) % 2)
              + ((a \div 1) % 2) = (a % 16)
         /\ 8 * ((a \div 32) % 2) + 4 * ((a \div 16) % 2) + 2 * ((a \div 8) % 2)
              + ((a \div 4) % 2) = a \div 4
         /\ 2 * ((a \div 2) % 2) + ((a \div 1) % 2) = (a % 4)
<1>1. a \in 0 .. 63
  BY DEF Sextet
<1>2. QED
  BY <1>1

\* Bit j of a group of 24 is of its character j / 6.
LEMMA BitOfGroup ==
  ASSUME NEW vs, NEW g \in Nat, NEW c \in 0 .. 3
  PROVE  /\ Bit(vs, 24 * g + 6 * c) = (vs[4 * g + c + 1] \div 32) % 2
         /\ Bit(vs, 24 * g + 6 * c + 1) = (vs[4 * g + c + 1] \div 16) % 2
         /\ Bit(vs, 24 * g + 6 * c + 2) = (vs[4 * g + c + 1] \div 8) % 2
         /\ Bit(vs, 24 * g + 6 * c + 3) = (vs[4 * g + c + 1] \div 4) % 2
         /\ Bit(vs, 24 * g + 6 * c + 4) = (vs[4 * g + c + 1] \div 2) % 2
         /\ Bit(vs, 24 * g + 6 * c + 5) = (vs[4 * g + c + 1] \div 1) % 2
<1> DEFINE w == <<32, 16, 8, 4, 2, 1>>
<1>1. w[1] = 32 /\ w[2] = 16 /\ w[3] = 8 /\ w[4] = 4 /\ w[5] = 2 /\ w[6] = 1
  OBVIOUS
<1>2. \A k : Bit(vs, k) = (vs[k \div 6 + 1] \div w[(k % 6) + 1]) % 2
  BY DEF Bit
<1> HIDE DEF w
<1>3. \A i \in 0 .. 5 : LET k == 24 * g + 6 * c + i IN k \div 6 + 1 = 4 * g + c + 1 /\ (k % 6) + 1 = i + 1
  OBVIOUS
<1>4. QED
  BY <1>1, <1>2, <1>3

\* The bytes of group g, by the characters they are made from.
LEMMA BytesOfGroup ==
  ASSUME NEW vs, NEW g \in Nat
  PROVE  /\ vs[4 * g + 1] \in Sextet /\ vs[4 * g + 2] \in Sextet
              => Byte(vs, 24 * g) = vs[4 * g + 1] * 4 + vs[4 * g + 2] \div 16
         /\ vs[4 * g + 2] \in Sextet /\ vs[4 * g + 3] \in Sextet
              => Byte(vs, 24 * g + 8) = (vs[4 * g + 2] % 16) * 16 + vs[4 * g + 3] \div 4
         /\ vs[4 * g + 3] \in Sextet /\ vs[4 * g + 4] \in Sextet
              => Byte(vs, 24 * g + 16) = (vs[4 * g + 3] % 4) * 64 + vs[4 * g + 4]
<1>1. /\ Bit(vs, 24 * g + 0) = (vs[4 * g + 1] \div 32) % 2
      /\ Bit(vs, 24 * g + 1) = (vs[4 * g + 1] \div 16) % 2
      /\ Bit(vs, 24 * g + 2) = (vs[4 * g + 1] \div 8) % 2
      /\ Bit(vs, 24 * g + 3) = (vs[4 * g + 1] \div 4) % 2
      /\ Bit(vs, 24 * g + 4) = (vs[4 * g + 1] \div 2) % 2
      /\ Bit(vs, 24 * g + 5) = (vs[4 * g + 1] \div 1) % 2
  BY BitOfGroup, 0 \in 0 .. 3
<1>2. /\ Bit(vs, 24 * g + 6) = (vs[4 * g + 2] \div 32) % 2
      /\ Bit(vs, 24 * g + 7) = (vs[4 * g + 2] \div 16) % 2
      /\ Bit(vs, 24 * g + 8) = (vs[4 * g + 2] \div 8) % 2
      /\ Bit(vs, 24 * g + 9) = (vs[4 * g + 2] \div 4) % 2
      /\ Bit(vs, 24 * g + 10) = (vs[4 * g + 2] \div 2) % 2
      /\ Bit(vs, 24 * g + 11) = (vs[4 * g + 2] \div 1) % 2
  BY BitOfGroup, 1 \in 0 .. 3
<1>3. /\ Bit(vs, 24 * g + 12) = (vs[4 * g + 3] \div 32) % 2
      /\ Bit(vs, 24 * g + 13) = (vs[4 * g + 3] \div 16) % 2
      /\ Bit(vs, 24 * g + 14) = (vs[4 * g + 3] \div 8) % 2
      /\ Bit(vs, 24 * g + 15) = (vs[4 * g + 3] \div 4) % 2
      /\ Bit(vs, 24 * g + 16) = (vs[4 * g + 3] \div 2) % 2
      /\ Bit(vs, 24 * g + 17) = (vs[4 * g + 3] \div 1) % 2
  BY BitOfGroup, 2 \in 0 .. 3
<1>4. /\ Bit(vs, 24 * g + 18) = (vs[4 * g + 4] \div 32) % 2
      /\ Bit(vs, 24 * g + 19) = (vs[4 * g + 4] \div 16) % 2
      /\ Bit(vs, 24 * g + 20) = (vs[4 * g + 4] \div 8) % 2
      /\ Bit(vs, 24 * g + 21) = (vs[4 * g + 4] \div 4) % 2
      /\ Bit(vs, 24 * g + 22) = (vs[4 * g + 4] \div 2) % 2
      /\ Bit(vs, 24 * g + 23) = (vs[4 * g + 4] \div 1) % 2
  BY BitOfGroup, 3 \in 0 .. 3
<1>5. /\ Byte(vs, 24 * g) =
           128 * Bit(vs, 24 * g + 0) + 64 * Bit(vs, 24 * g + 1) + 32 * Bit(vs, 24 * g + 2)
             + 16 * Bit(vs, 24 * g + 3) + 8 * Bit(vs, 24 * g + 4) + 4 * Bit(vs, 24 * g + 5)
             + 2 * Bit(vs, 24 * g + 6) + Bit(vs, 24 * g + 7)
      /\ Byte(vs, 24 * g + 8) =
           128 * Bit(vs, 24 * g + 8) + 64 * Bit(vs, 24 * g + 9) + 32 * Bit(vs, 24 * g + 10)
             + 16 * Bit(vs, 24 * g + 11) + 8 * Bit(vs, 24 * g + 12) + 4 * Bit(vs, 24 * g + 13)
             + 2 * Bit(vs, 24 * g + 14) + Bit(vs, 24 * g + 15)
      /\ Byte(vs, 24 * g + 16) =
           128 * Bit(vs, 24 * g + 16) + 64 * Bit(vs, 24 * g + 17) + 32 * Bit(vs, 24 * g + 18)
             + 16 * Bit(vs, 24 * g + 19) + 8 * Bit(vs, 24 * g + 20) + 4 * Bit(vs, 24 * g + 21)
             + 2 * Bit(vs, 24 * g + 22) + Bit(vs, 24 * g + 23)
  BY DEF Byte
<1> DEFINE a(i) == vs[4 * g + i]
<1>6. ASSUME a(1) \in Sextet, a(2) \in Sextet
      PROVE  Byte(vs, 24 * g) = a(1) * 4 + a(2) \div 16
  <2>1. a(1) \in Int /\ a(2) \in Int
    BY <1>6 DEF Sextet
  <2>2. QED
    BY <1>1, <1>2, <1>5, <1>6, <2>1, BitsOfSextet
<1>7. ASSUME a(2) \in Sextet, a(3) \in Sextet
      PROVE  Byte(vs, 24 * g + 8) = (a(2) % 16) * 16 + a(3) \div 4
  <2>1. a(2) \in Int /\ a(3) \in Int
    BY <1>7 DEF Sextet
  <2>2. QED
    BY <1>2, <1>3, <1>5, <1>7, <2>1, BitsOfSextet
<1>8. ASSUME a(3) \in Sextet, a(4) \in Sextet
      PROVE  Byte(vs, 24 * g + 16) = (a(3) % 4) * 64 + a(4)
  <2>1. a(3) \in Int /\ a(4) \in Int
    BY <1>8 DEF Sextet
  <2>2. QED
    BY <1>3, <1>4, <1>5, <1>8, <2>1, BitsOfSextet
<1>9. QED
  BY <1>6, <1>7, <1>8

\* The bytes of the first groups depend on their characters only.
LEMMA BytesAreLocal ==
  ASSUME NEW e, NEW k, NEW g \in Nat, \A i \in 1 .. 4 * g : e[i] = k[i]
  PROVE  \A j \in 1 .. 3 * g : Byte(e, 8 * (j - 1)) = Byte(k, 8 * (j - 1))
<1>1. \A x \in 0 .. 24 * g - 1 : x \div 6 + 1 \in 1 .. 4 * g
  OBVIOUS
<1>2. \A x \in 0 .. 24 * g - 1 : Bit(e, x) = Bit(k, x)
  BY <1>1 DEF Bit
<1>3. ASSUME NEW j \in 1 .. 3 * g, NEW i \in 0 .. 7
      PROVE  8 * (j - 1) + i \in 0 .. 24 * g - 1
  OBVIOUS
<1>4. ASSUME NEW j \in 1 .. 3 * g
      PROVE  Byte(e, 8 * (j - 1)) = Byte(k, 8 * (j - 1))
  <2> DEFINE x == 8 * (j - 1)
  <2>1. /\ Bit(e, x + 0) = Bit(k, x + 0) /\ Bit(e, x + 1) = Bit(k, x + 1)
        /\ Bit(e, x + 2) = Bit(k, x + 2) /\ Bit(e, x + 3) = Bit(k, x + 3)
        /\ Bit(e, x + 4) = Bit(k, x + 4) /\ Bit(e, x + 5) = Bit(k, x + 5)
        /\ Bit(e, x + 6) = Bit(k, x + 6) /\ Bit(e, x + 7) = Bit(k, x + 7)
    BY <1>2, <1>3
  <2>2. x + 0 = x
    OBVIOUS
  <2>3. QED
    BY <2>1, <2>2 DEF Byte
<1>5. QED
  BY <1>4

\* Where the loop is, s, after the characters k that count: g whole groups of k are out,
\* the ones after them are in hand, and it stops when the next group does not fit.
Decoding(s, k, m) ==
  \E g \in Nat :
    /\ Len(s.out) = 3 * g /\ 3 * g <= m
    /\ IF s.stop THEN Len(k) >= 4 * g + 4 /\ 3 * g + 3 > m ELSE Len(k) = 4 * g + Len(s.q)
    /\ \A j \in 1 .. Len(s.q) : s.q[j] = k[4 * g + j]
    /\ \A j \in 1 .. 3 * g : s.out[j] = Byte(k, 8 * (j - 1))

\* What GroupBytes makes of characters in hand are the bytes after the first g groups.
LEMMA GroupBytesAre ==
  ASSUME NEW q \in Seq(Sextet), NEW k \in Seq(Sextet), NEW g \in Nat,
         Len(k) >= 4 * g + Len(q),
         \A j \in 1 .. Len(q) : q[j] = k[4 * g + j]
  PROVE  /\ Len(q) >= 2 => GroupBytes(q)[1] = Byte(k, 8 * (3 * g))
         /\ Len(q) >= 3 => GroupBytes(q)[2] = Byte(k, 8 * (3 * g + 1))
         /\ Len(q) >= 4 => GroupBytes(q)[3] = Byte(k, 8 * (3 * g + 2))
<1>1. \A j \in 1 .. Len(q) : q[j] \in Sextet /\ k[4 * g + j] \in Sextet
  OBVIOUS
<1> DEFINE v(i) == IF i <= Len(q) THEN q[i] ELSE 0
<1>2. GroupBytes(q) = <<v(1) * 4 + v(2) \div 16, (v(2) % 16) * 16 + v(3) \div 4,
                        (v(3) % 4) * 64 + v(4)>>
  BY DEF GroupBytes
<1>3. /\ GroupBytes(q)[1] = v(1) * 4 + v(2) \div 16
      /\ GroupBytes(q)[2] = (v(2) % 16) * 16 + v(3) \div 4
      /\ GroupBytes(q)[3] = (v(3) % 4) * 64 + v(4)
  <2> HIDE DEF v
  <2>1. QED
    BY <1>2
<1>4. 8 * (3 * g) = 24 * g /\ 8 * (3 * g + 1) = 24 * g + 8 /\ 8 * (3 * g + 2) = 24 * g + 16
  OBVIOUS
<1>5. \A j \in {1, 2, 3, 4} : j <= Len(q) => v(j) = k[4 * g + j] /\ k[4 * g + j] \in Sextet
  BY <1>1
<1> HIDE DEF v
<1>6. ASSUME Len(q) >= 2
      PROVE  GroupBytes(q)[1] = Byte(k, 24 * g)
  <2>1. /\ v(1) = k[4 * g + 1] /\ k[4 * g + 1] \in Sextet
        /\ v(2) = k[4 * g + 2] /\ k[4 * g + 2] \in Sextet
    BY <1>5, <1>6
  <2>2. QED
    BY <1>3, <2>1, BytesOfGroup
<1>7. ASSUME Len(q) >= 3
      PROVE  GroupBytes(q)[2] = Byte(k, 24 * g + 8)
  <2>1. /\ v(2) = k[4 * g + 2] /\ k[4 * g + 2] \in Sextet
        /\ v(3) = k[4 * g + 3] /\ k[4 * g + 3] \in Sextet
    BY <1>5, <1>7
  <2>2. QED
    BY <1>3, <2>1, BytesOfGroup
<1>8. ASSUME Len(q) >= 4
      PROVE  GroupBytes(q)[3] = Byte(k, 24 * g + 16)
  <2>1. /\ v(3) = k[4 * g + 3] /\ k[4 * g + 3] \in Sextet
        /\ v(4) = k[4 * g + 4] /\ k[4 * g + 4] \in Sextet
    BY <1>5, <1>8
  <2>2. QED
    BY <1>3, <2>1, BytesOfGroup
<1>9. QED
  BY <1>4, <1>6, <1>7, <1>8

\* What a group's bytes put behind others.
LEMMA ConcatThree ==
  ASSUME NEW x \in Seq(Int), NEW y \in Seq(Int), NEW n \in Nat, Len(x) = n, Len(y) = 3
  PROVE  /\ Len(x \o y) = n + 3
         /\ \A j \in 1 .. n : (x \o y)[j] = x[j]
         /\ (x \o y)[n + 1] = y[1] /\ (x \o y)[n + 2] = y[2] /\ (x \o y)[n + 3] = y[3]
<1>1. /\ Len(x \o y) = Len(x) + Len(y)
      /\ \A i \in 1 .. Len(x) + Len(y) :
           (x \o y)[i] = IF i <= Len(x) THEN x[i] ELSE y[i - Len(x)]
  BY ConcatProperties
<1>2. /\ n + 1 \in 1 .. n + 3 /\ ~(n + 1 <= n) /\ (n + 1) - n = 1
      /\ n + 2 \in 1 .. n + 3 /\ ~(n + 2 <= n) /\ (n + 2) - n = 2
      /\ n + 3 \in 1 .. n + 3 /\ ~(n + 3 <= n) /\ (n + 3) - n = 3
  OBVIOUS
<1>3. \A j \in 1 .. n : j \in 1 .. n + 3 /\ j <= n
  OBVIOUS
<1>4. QED
  BY <1>1, <1>2, <1>3

\* Decoding is kept by a character.
LEMMA GatherDecodes ==
  ASSUME NEW s \in LoopState, NEW k \in Seq(Sextet), NEW v \in Char, NEW m \in Nat,
         Decoding(s, k, m)
  PROVE  Decoding(Gather(s, v, m), Keep(k, v), m)
<1>0. PICK u, p, h : s.out = u /\ s.q = p /\ s.stop = h
  OBVIOUS
<1> DEFINE q == Append(p, v)
           e == Append(k, v)
<1>1. CASE v = Junk
  BY <1>1 DEF Gather, Keep
<1>2. CASE v # Junk
  <2>1. v \in Sextet
    BY <1>2 DEF Char, Junk, Sextet
  <2>2. PICK g \in Nat :
          /\ Len(u) = 3 * g /\ 3 * g <= m
          /\ IF h THEN Len(k) >= 4 * g + 4 /\ 3 * g + 3 > m ELSE Len(k) = 4 * g + Len(p)
          /\ \A j \in 1 .. Len(p) : p[j] = k[4 * g + j]
          /\ \A j \in 1 .. 3 * g : u[j] = Byte(k, 8 * (j - 1))
    BY <1>0 DEF Decoding
  <2>3. /\ u \in Seq(Int) /\ p \in Seq(Sextet) /\ h \in BOOLEAN
        /\ IF h THEN Len(p) = 4 ELSE Len(p) <= 3
    BY <1>0 DEF LoopState
  <2>4. /\ q \in Seq(Sextet) /\ Len(q) = Len(p) + 1 /\ Len(p) \in Nat
        /\ q[Len(p) + 1] = v /\ \A j \in 1 .. Len(p) : q[j] = p[j]
    BY <2>1, <2>3
  <2>5. /\ e \in Seq(Sextet) /\ Len(e) = Len(k) + 1 /\ Len(k) \in Nat
        /\ e[Len(k) + 1] = v /\ \A j \in 1 .. Len(k) : e[j] = k[j]
    BY <2>1
  <2>6. Keep(k, v) = e
    BY <1>2 DEF Keep
  <2> HIDE DEF q, e
  <2>n. /\ Len(p) \in Nat /\ Len(k) \in Nat /\ Len(q) = Len(p) + 1 /\ Len(e) = Len(k) + 1
    BY <2>3, <2>4, <2>5
  <2>s. h => Len(p) = 4 /\ Len(k) >= 4 * g + 4 /\ 3 * g + 3 > m
    BY <2>2, <2>3
  <2>t. ~h => Len(p) <= 3 /\ Len(k) = 4 * g + Len(p)
    BY <2>2, <2>3
  <2>7. 4 * g + Len(p) <= Len(k)
    <3>1. CASE h
      BY <2>n, <2>s, <3>1
    <3>2. CASE ~h
      BY <2>n, <2>t, <3>2
    <3>3. QED
      BY <3>1, <3>2
  <2>8. \A j \in 1 .. Len(p) : p[j] = e[4 * g + j]
    <3>1. \A j \in 1 .. Len(p) : 4 * g + j \in 1 .. Len(k)
      BY <2>n, <2>7
    <3>2. QED
      BY <2>2, <2>5, <3>1
  <2>9. \A j \in 1 .. 3 * g : u[j] = Byte(e, 8 * (j - 1))
    <3>1. \A i \in 1 .. 4 * g : i \in 1 .. Len(k)
      BY <2>n, <2>7
    <3>2. \A i \in 1 .. 4 * g : e[i] = k[i]
      BY <2>5, <3>1
    <3>3. QED
      BY <2>2, <3>2, BytesAreLocal
  <2>10. CASE h
    <3>1. Gather(s, v, m) = s
      BY <1>0, <2>10 DEF Gather
    <3>2. Len(e) >= 4 * g + 4
      BY <2>2, <2>5, <2>10
    <3>3. QED
      BY <2>2, <2>6, <2>8, <2>9, <2>10, <3>1, <3>2, <1>0 DEF Decoding
  <2>11. CASE ~h
    <3>1. Gather(s, v, m) =
            IF Len(q) < 4 THEN [out |-> u, q |-> q, stop |-> FALSE]
            ELSE IF Len(u) + 3 > m THEN [out |-> u, q |-> q, stop |-> TRUE]
            ELSE [out |-> u \o GroupBytes(q), q |-> <<>>, stop |-> FALSE]
      BY <1>0, <1>2, <2>11 DEF Gather, q
    <3>2. Len(e) = 4 * g + Len(q)
      BY <2>n, <2>t, <2>11
    <3>3. \A j \in 1 .. Len(q) : q[j] = e[4 * g + j]
      <4>1. \A j \in 1 .. Len(q) : j \in 1 .. Len(p) \/ j = Len(p) + 1
        BY <2>4
      <4>2. e[4 * g + (Len(p) + 1)] = v
        <5>1. 4 * g + (Len(p) + 1) = Len(k) + 1
          BY <2>n, <2>t, <2>11
        <5>2. QED
          BY <2>5, <5>1
      <4>3. QED
        BY <2>4, <2>8, <4>1, <4>2
    <3>4. CASE Len(q) < 4
      <4> DEFINE r == [out |-> u, q |-> q, stop |-> FALSE]
      <4>1. r.out = u /\ r.q = q /\ r.stop = FALSE
        OBVIOUS
      <4>2. Gather(s, v, m) = r
        BY <3>1, <3>4
      <4> HIDE DEF r
      <4>3. Len(u) = 3 * g /\ 3 * g <= m
        BY <2>2
      <4>4. QED
        BY <2>6, <2>9, <3>2, <3>3, <4>1, <4>2, <4>3 DEF Decoding
    <3>5. CASE Len(q) >= 4 /\ Len(u) + 3 > m
      <4> DEFINE r == [out |-> u, q |-> q, stop |-> TRUE]
      <4>1. r.out = u /\ r.q = q /\ r.stop = TRUE
        OBVIOUS
      <4>2. Gather(s, v, m) = r
        BY <2>4, <3>1, <3>5
      <4> HIDE DEF r
      <4>3. Len(u) = 3 * g /\ 3 * g <= m
        BY <2>2
      <4>4. Len(e) >= 4 * g + 4 /\ 3 * g + 3 > m
        BY <2>2, <2>4, <3>2, <3>5
      <4>5. QED
        BY <2>6, <2>9, <3>3, <4>1, <4>2, <4>3, <4>4 DEF Decoding
    <3>6. CASE Len(q) >= 4 /\ ~(Len(u) + 3 > m)
      <4> DEFINE b == GroupBytes(q)
                 o == u \o b
      <4>1. b \in Seq(Int) /\ Len(b) = 3
        BY <2>4, GroupBytesType
      <4>2. b[1] = Byte(e, 8 * (3 * g)) /\ b[2] = Byte(e, 8 * (3 * g + 1))
              /\ b[3] = Byte(e, 8 * (3 * g + 2))
        <5>1. Len(e) >= 4 * g + Len(q) /\ Len(q) >= 3 /\ Len(q) >= 2
          BY <2>n, <3>2, <3>6
        <5>2. QED
          BY <2>4, <2>5, <3>3, <3>6, <5>1, GroupBytesAre, ZenonT(40)
      <4>3. Gather(s, v, m) = [out |-> o, q |-> <<>>, stop |-> FALSE]
        BY <2>4, <3>1, <3>6
      <4> HIDE DEF b
      <4>4. /\ Len(o) = 3 * g + 3
            /\ \A j \in 1 .. 3 * g : o[j] = u[j]
            /\ o[3 * g + 1] = b[1] /\ o[3 * g + 2] = b[2] /\ o[3 * g + 3] = b[3]
        <5>1. Len(u) = 3 * g
          BY <2>2
        <5>2. u \in Seq(Int)
          BY <2>3
        <5>3. QED
          <6> DEFINE n == 3 * g
          <6>1. n \in Nat /\ Len(u) = n
            BY <5>1
          <6> HIDE DEF n
          <6>2. /\ Len(u \o b) = n + 3
                /\ \A j \in 1 .. n : (u \o b)[j] = u[j]
                /\ (u \o b)[n + 1] = b[1] /\ (u \o b)[n + 2] = b[2] /\ (u \o b)[n + 3] = b[3]
            BY <4>1, <5>2, <6>1, ConcatThree, SMTT(30)
          <6>3. QED
            BY <6>2 DEF n
      <4> HIDE DEF o
      <4>5. /\ Len(o) = 3 * (g + 1) /\ 3 * (g + 1) <= m /\ g + 1 \in Nat
            /\ Len(e) = 4 * (g + 1)
        <5>1. Len(u) = 3 * g
          BY <2>2
        <5>2. Len(q) = 4
          BY <2>n, <2>t, <2>11, <3>6
        <5>3. QED
          BY <3>2, <3>6, <4>4, <5>1, <5>2
      <4>6. \A j \in 1 .. 3 * (g + 1) : o[j] = Byte(e, 8 * (j - 1))
        <5>1. ASSUME NEW j \in 1 .. 3 * (g + 1)
              PROVE  j \in 1 .. 3 * g \/ j = 3 * g + 1 \/ j = 3 * g + 2 \/ j = 3 * g + 3
          OBVIOUS
        <5>2. 8 * (3 * g) = 8 * ((3 * g + 1) - 1) /\ 8 * (3 * g + 1) = 8 * ((3 * g + 2) - 1)
                /\ 8 * (3 * g + 2) = 8 * ((3 * g + 3) - 1)
          OBVIOUS
        <5>3. QED
          BY <2>9, <4>2, <4>4, <5>1, <5>2
      <4> DEFINE z == <<>>
      <4>7. Len(z) = 0 /\ \A j \in 1 .. Len(z) : FALSE
        OBVIOUS
      <4> DEFINE r == [out |-> o, q |-> z, stop |-> FALSE]
      <4> HIDE DEF z
      <4>8. r.out = o /\ r.q = z /\ r.stop = FALSE
        OBVIOUS
      <4>9. Gather(s, v, m) = r
        BY <4>3 DEF z
      <4> HIDE DEF r
      <4>10. Len(e) = 4 * (g + 1) + Len(z)
        BY <4>5, <4>7
      <4>11. Decoding(r, e, m)
        BY <4>5, <4>6, <4>7, <4>8, <4>10, ZenonT(40) DEF Decoding
      <4>12. QED
        BY <2>6, <4>9, <4>11
    <3>7. QED
      BY <2>4, <3>4, <3>5, <3>6
  <2>12. QED
    BY <2>10, <2>11
<1>3. QED
  BY <1>1, <1>2


\* The state of the loop after any number of characters is the one the bytes of those that
\* count describe.
LEMMA LoopDecodes ==
  ASSUME NEW t \in Seq(Char), NEW m \in Nat
  PROVE  Decoding(Loop(t, m)[Len(t)], Counting(t)[Len(t)], m)
<1> DEFINE T == {i \in Nat : i <= Len(t) => Decoding(Loop(t, m)[i], Counting(t)[i], m)}
<1>1. 0 \in T
  <2> DEFINE z == <<>>
             s == [out |-> z, q |-> z, stop |-> FALSE]
  <2>1. Len(z) = 0
    OBVIOUS
  <2>2. Loop(t, m)[0] = s /\ Counting(t)[0] = z
    BY LoopRuns, CountingRuns
  <2> HIDE DEF z
  <2>3. s.out = z /\ s.q = z /\ s.stop = FALSE
    OBVIOUS
  <2> HIDE DEF s
  <2>4. Len(z) = 3 * 0 /\ 3 * 0 <= m /\ Len(z) = 4 * 0 + Len(z) /\ 0 \in Nat
    BY <2>1
  <2>5. \A j \in 1 .. 3 * 0 : FALSE
    OBVIOUS
  <2>6. \A j \in 1 .. Len(z) : FALSE
    BY <2>1
  <2>7. Decoding(s, z, m)
    BY <2>3, <2>4, <2>5, <2>6 DEF Decoding
  <2>8. QED
    BY <2>2, <2>7
<1>2. ASSUME NEW i \in Nat, i \in T
      PROVE  i + 1 \in T
  <2> SUFFICES ASSUME i + 1 <= Len(t)
               PROVE  Decoding(Loop(t, m)[i + 1], Counting(t)[i + 1], m)
    OBVIOUS
  <2>1. i + 1 \in 1 .. Len(t) /\ (i + 1) - 1 = i /\ i \in 0 .. Len(t)
    OBVIOUS
  <2>2. Decoding(Loop(t, m)[i], Counting(t)[i], m)
    BY <1>2, <2>1
  <2>3. Loop(t, m)[i] \in LoopState /\ Loop(t, m)[i + 1] = Gather(Loop(t, m)[i], t[i + 1], m)
    BY <2>1, LoopRuns
  <2>4. Counting(t)[i] \in Sextets /\ Counting(t)[i + 1] = Keep(Counting(t)[i], t[i + 1])
    BY <2>1, CountingRuns
  <2>5. t[i + 1] \in Char
    BY <2>1
  <2>6. QED
    BY <2>2, <2>3, <2>4, <2>5, GatherDecodes DEF Sextets
<1>3. Nat \subseteq T
  <2> HIDE DEF T
  <2>1. QED
    BY <1>1, <1>2, Induct
<1>4. QED
  BY <1>3

\* What is written after the loop completes what the characters mean, as far as it fits.
LEMMA TailDecodes ==
  ASSUME NEW s \in LoopState, NEW k \in Seq(Sextet), NEW m \in Nat, Decoding(s, k, m)
  PROVE  LET w == [i \in 1 .. (6 * Len(k)) \div 8 |-> Byte(k, 8 * (i - 1))]
         IN  s.out \o SubSeq(GroupBytes(s.q), 1, Smaller(Smaller(2, Len(s.q) - 1), m - Len(s.out)))
               = SubSeq(w, 1, Smaller(m, Len(w)))
<1>1. PICK u, p, h : s.out = u /\ s.q = p /\ s.stop = h
  OBVIOUS
<1>2. PICK g \in Nat :
        /\ Len(u) = 3 * g /\ 3 * g <= m
        /\ IF h THEN Len(k) >= 4 * g + 4 /\ 3 * g + 3 > m ELSE Len(k) = 4 * g + Len(p)
        /\ \A j \in 1 .. Len(p) : p[j] = k[4 * g + j]
        /\ \A j \in 1 .. 3 * g : u[j] = Byte(k, 8 * (j - 1))
  BY <1>1 DEF Decoding
<1>3. /\ u \in Seq(Int) /\ p \in Seq(Sextet) /\ h \in BOOLEAN
      /\ IF h THEN Len(p) = 4 ELSE Len(p) <= 3
  BY <1>1 DEF LoopState
<1> DEFINE l == Len(k)
           n == Len(p)
           W == (6 * l) \div 8
           w == [i \in 1 .. W |-> Byte(k, 8 * (i - 1))]
           a == Smaller(Smaller(2, n - 1), m - 3 * g)
           c == IF a < 0 THEN 0 ELSE a
<1>4. /\ l \in Nat /\ n \in Nat
      /\ h => n = 4 /\ l >= 4 * g + 4 /\ 3 * g + 3 > m
      /\ ~h => n <= 3 /\ l = 4 * g + n
  <2>1. l \in Nat /\ n \in Nat
    BY <1>3
  <2>2. QED
    BY <1>2, <1>3, <2>1
<1> HIDE DEF l, n
<1>5. W \in Nat /\ Len(w) = W
  BY <1>4
<1>6. /\ Smaller(m, W) = 3 * g + c /\ c \in 0 .. 2 /\ a \in Int
      /\ c >= 1 => n >= 2
      /\ c >= 2 => n >= 3
  <2>1. m - 3 * g \in Nat
    BY <1>2
  <2>2. CASE h
    <3>1. n = 4 /\ l >= 4 * g + 4 /\ 3 * g + 3 > m
      BY <1>4, <2>2
    <3>2. W >= 3 * g + 3
      BY <1>4, <3>1
    <3>3. m - 3 * g <= 2
      BY <3>1
    <3>4. a = m - 3 * g /\ Smaller(m, W) = m
      BY <1>5, <2>1, <3>1, <3>2, <3>3 DEF Smaller
    <3>5. QED
      BY <2>1, <3>1, <3>3, <3>4
  <2>3. CASE ~h
    <3>1. n \in 0 .. 3 /\ l = 4 * g + n
      BY <1>4, <2>3
    <3>2. CASE n = 0
      <4>1. W = 3 * g /\ a = -1
        BY <2>1, <3>1, <3>2 DEF Smaller
      <4>2. QED
        BY <2>1, <3>2, <4>1 DEF Smaller
    <3>3. CASE n = 1
      <4>1. W = 3 * g /\ a = 0
        BY <2>1, <3>1, <3>3 DEF Smaller
      <4>2. QED
        BY <2>1, <3>3, <4>1 DEF Smaller
    <3>4. CASE n = 2
      <4>1. W = 3 * g + 1 /\ a = Smaller(1, m - 3 * g)
        BY <2>1, <3>1, <3>4 DEF Smaller
      <4>2. QED
        BY <2>1, <3>4, <4>1 DEF Smaller
    <3>5. CASE n = 3
      <4>1. W = 3 * g + 2 /\ a = Smaller(2, m - 3 * g)
        BY <2>1, <3>1, <3>5 DEF Smaller
      <4>2. QED
        BY <2>1, <3>5, <4>1 DEF Smaller
    <3>6. QED
      BY <3>1, <3>2, <3>3, <3>4, <3>5
  <2>4. QED
    BY <1>3, <2>2, <2>3
<1> DEFINE b == GroupBytes(p)
           x == SubSeq(b, 1, a)
<1>7. b \in Seq(Int) /\ Len(b) = 3
  BY <1>3, GroupBytesType
<1>8. \A j \in 1 .. c : b[j] = Byte(k, 8 * (3 * g + j - 1))
  <2>1. l >= 4 * g + n
    BY <1>3, <1>4
  <2>2. /\ n >= 2 => b[1] = Byte(k, 8 * (3 * g))
        /\ n >= 3 => b[2] = Byte(k, 8 * (3 * g + 1))
    BY <1>2, <1>3, <2>1, GroupBytesAre DEF l, n
  <2>3. \A j \in 1 .. c : (j = 1 /\ c >= 1) \/ (j = 2 /\ c >= 2)
    BY <1>6
  <2>4. 3 * g + 1 - 1 = 3 * g /\ 3 * g + 2 - 1 = 3 * g + 1
    OBVIOUS
  <2>5. QED
    BY <1>6, <2>2, <2>3, <2>4
<1> HIDE DEF b, c, a
<1>9. x \in Seq(Int) /\ Len(x) = c /\ \A j \in 1 .. c : x[j] = b[j]
  <2>1. c = IF a < 0 THEN 0 ELSE a
    BY DEF c
  <2>2. \A j \in 1 .. a : b[j] \in Int
    <3>1. \A j \in 1 .. a : j \in 1 .. 3
      BY <1>6, <2>1
    <3>2. \A j \in 1 .. 3 : b[j] \in Int
      <4>1. \A j \in 1 .. Len(b) : b[j] \in Int
        BY <1>7, ElementOfSeq
      <4>2. QED
        BY <1>7, <4>1
    <3>3. QED
      BY <3>1, <3>2
  <2>3. /\ x \in Seq(Int) /\ Len(x) = (IF 1 <= a THEN a - 1 + 1 ELSE 0)
        /\ \A j \in 1 .. a - 1 + 1 : x[j] = b[1 + j - 1]
    BY <1>6, <2>2, SubSeqProperties
  <2>4. \A j \in 1 .. c : j \in 1 .. a - 1 + 1 /\ 1 + j - 1 = j
    BY <1>6, <2>1
  <2>5. QED
    BY <1>6, <2>1, <2>3, <2>4
<1> DEFINE V == Int \cup {Byte(k, 8 * (i - 1)) : i \in 1 .. W}
           y == SubSeq(w, 1, Smaller(m, W))
<1>10. u \o x \in Seq(V) /\ Len(u \o x) = 3 * g + c
       /\ \A j \in 1 .. 3 * g + c : (u \o x)[j] = Byte(k, 8 * (j - 1))
  <2> HIDE DEF x
  <2>1. u \in Seq(Int) /\ Len(u) = 3 * g
    BY <1>2, <1>3
  <2>2. /\ u \o x \in Seq(Int) /\ Len(u \o x) = 3 * g + c
        /\ \A j \in 1 .. 3 * g + c :
             (u \o x)[j] = IF j <= 3 * g THEN u[j] ELSE x[j - 3 * g]
    BY <1>9, <2>1, ConcatProperties
  <2>3. \A j \in 1 .. 3 * g + c : j \in 1 .. 3 * g \/ (~(j <= 3 * g) /\ j - 3 * g \in 1 .. c)
    BY <1>6
  <2>4. \A j \in 1 .. 3 * g : (u \o x)[j] = Byte(k, 8 * (j - 1))
    <3>1. \A j \in 1 .. 3 * g : j \in 1 .. 3 * g + c /\ j <= 3 * g
      BY <1>6
    <3>2. QED
      BY <1>2, <2>2, <3>1
  <2>5. ASSUME NEW j \in 1 .. 3 * g + c, ~(j <= 3 * g), j - 3 * g \in 1 .. c
        PROVE  (u \o x)[j] = Byte(k, 8 * (j - 1))
    <3>1. (u \o x)[j] = Byte(k, 8 * (3 * g + (j - 3 * g) - 1))
      BY <1>8, <1>9, <2>2, <2>5
    <3>2. 8 * (3 * g + (j - 3 * g) - 1) = 8 * (j - 1)
      OBVIOUS
    <3>3. QED
      BY <3>1, <3>2
  <2>6. u \o x \in Seq(V)
    BY <2>2
  <2>7. QED
    BY <2>2, <2>3, <2>4, <2>5, <2>6
<1>11. y \in Seq(V) /\ Len(y) = 3 * g + c
       /\ \A j \in 1 .. 3 * g + c : y[j] = Byte(k, 8 * (j - 1))
  <2> DEFINE e == Smaller(m, W)
  <2>1. e = 3 * g + c /\ e \in Nat /\ e <= W
    BY <1>5, <1>6 DEF Smaller
  <2> HIDE DEF e
  <2>2. \A j \in 1 .. e : j \in 1 .. W
    BY <1>5, <2>1
  <2>3. \A j \in 1 .. e : w[j] = Byte(k, 8 * (j - 1)) /\ w[j] \in V
    BY <2>2 DEF w
  <2> HIDE DEF V
  <2>4. /\ SubSeq(w, 1, e) \in Seq(V)
        /\ Len(SubSeq(w, 1, e)) = (IF 1 <= e THEN e - 1 + 1 ELSE 0)
        /\ \A j \in 1 .. e - 1 + 1 : SubSeq(w, 1, e)[j] = w[1 + j - 1]
    BY <2>1, <2>3, SubSeqProperties, SMTT(30)
  <2>5. \A j \in 1 .. e : j \in 1 .. e - 1 + 1 /\ 1 + j - 1 = j
    BY <2>1
  <2>6. Len(SubSeq(w, 1, e)) = e
    BY <2>1, <2>4
  <2>7. \A j \in 1 .. e : SubSeq(w, 1, e)[j] = Byte(k, 8 * (j - 1))
    BY <2>3, <2>4, <2>5
  <2>8. y = SubSeq(w, 1, e)
    BY DEF e
  <2>9. QED
    BY <2>1, <2>4, <2>6, <2>7, <2>8
<1>12. u \o x = y
  <2> HIDE DEF x, y, V
  <2>1. QED
    BY <1>10, <1>11, SeqEqual
<1>13. QED
  BY <1>1, <1>2, <1>5, <1>12 DEF a, b, n, l

\* b64decode gives the bytes its text stands for, as many as the buffer takes: for every
\* text and every size of the buffer.
THEOREM DecodesEveryText == DecodesRight(Seq(Char), Nat)
<1>1. ASSUME NEW t \in Seq(Char), NEW m \in Nat
      PROVE  Decode(t, m) = SubSeq(Meaning(t), 1, Smaller(m, Len(Meaning(t))))
  <2> DEFINE s == Loop(t, m)[Len(t)]
             k == Counting(t)[Len(t)]
  <2>1. Len(t) \in 0 .. Len(t)
    OBVIOUS
  <2>2. s \in LoopState /\ k \in Seq(Sextet) /\ Decoding(s, k, m)
    BY <2>1, LoopRuns, CountingRuns, LoopDecodes DEF Sextets
  <2>3. Meaning(t) = [i \in 1 .. (6 * Len(k)) \div 8 |-> Byte(k, 8 * (i - 1))]
    BY DEF Meaning
  <2>4. Decode(t, m) = s.out \o SubSeq(GroupBytes(s.q), 1, Smaller(Smaller(2, Len(s.q) - 1), m - Len(s.out)))
    BY DEF Decode
  <2> HIDE DEF s, k
  <2>5. QED
    BY <2>2, <2>3, <2>4, TailDecodes
<1>2. QED
  BY <1>1 DEF DecodesRight
====
