--------------------------- MODULE LuaQueryProofs ---------------------------
(***************************************************************************)
(* What encode_url writes decode_url takes back, and the table parse_query *)
(* makes has all values.                                                   *)
(***************************************************************************)
EXTENDS LuaQuery, LlQueryProofs

-----------------------------------------------------------------------------
(* Induction up to n, and functions defined by it. *)

\* P holds the numbers of which the hypothesis of the induction is true.
LEMMA UpTo ==
  ASSUME NEW n \in Nat, NEW P, 0 \in P, \A k \in 1..n : k - 1 \in P => k \in P
  PROVE  \A k \in 0..n : k \in P
<1> DEFINE Bad == {k \in 0..n : k \notin P}
<1> SUFFICES ASSUME Bad # {} PROVE FALSE
  OBVIOUS
<1>1. Bad \subseteq Nat
  OBVIOUS
<1>2. PICK m \in Bad : \A k \in Bad : m <= k
  BY <1>1, LeastNatural
<1>3. m \in 1..n
  BY <1>2
<1>4. m - 1 \in P
  BY <1>2, <1>3
<1> QED BY <1>2, <1>3, <1>4

\* g begins with b and goes on as step says for each number.
Chain(n, b, step, g) == g[0] = b /\ \A k \in 1..n : g[k] = step[k][g[k - 1]]

LEMMA Recursion ==
  ASSUME NEW n \in Nat, NEW S, NEW b \in S, NEW step \in [1..n -> [S -> S]]
  PROVE  \E g \in [0..n -> S] : Chain(n, b, step, g)
<1> DEFINE P == {m \in 0..n : \E g \in [0..m -> S] : Chain(m, b, step, g)}
<1>1. 0 \in P
  <2> DEFINE g == [k \in 0..0 |-> b]
  <2>1. g \in [0..0 -> S] /\ g[0] = b
    OBVIOUS
  <2> HIDE DEF g
  <2>2. Chain(0, b, step, g)
    BY <2>1 DEF Chain
  <2> QED BY <2>1, <2>2
<1>2. ASSUME NEW m \in 1..n, m - 1 \in P PROVE m \in P
  <2>1. PICK g \in [0..(m - 1) -> S] : Chain(m - 1, b, step, g)
    BY <1>2
  <2> DEFINE h == [k \in 0..m |-> IF k = m THEN step[m][g[m - 1]] ELSE g[k]]
  <2>2. g[m - 1] \in S /\ \A k \in 0..(m - 1) : g[k] \in S
    OBVIOUS
  <2>3. step[m][g[m - 1]] \in S
    BY <2>2
  <2>4. h \in [0..m -> S]
    BY <2>2, <2>3
  <2>5. h[m] = step[m][g[m - 1]] /\ \A k \in 0..(m - 1) : h[k] = g[k]
    OBVIOUS
  <2> HIDE DEF h
  <2>6. h[0] = b
    BY <2>1, <2>5 DEF Chain
  <2>7. ASSUME NEW k \in 1..m PROVE h[k] = step[k][h[k - 1]]
    <3>1. CASE k = m
      <4>1. m - 1 \in 0..(m - 1)
        OBVIOUS
      <4> QED BY <2>5, <3>1, <4>1
    <3>2. CASE k # m
      <4>1. k \in 1..(m - 1) /\ k \in 0..(m - 1) /\ k - 1 \in 0..(m - 1)
        BY <3>2
      <4> QED BY <2>1, <2>5, <4>1 DEF Chain
    <3> QED BY <3>1, <3>2
  <2>8. Chain(m, b, step, h)
    BY <2>6, <2>7 DEF Chain
  <2> QED BY <2>4, <2>8
<1> HIDE DEF P
<1>3. n \in P
  <2>1. \A k \in 0..n : k \in P
    BY <1>1, <1>2, UpTo
  <2> QED BY <2>1
<1> QED BY <1>3 DEF P

-----------------------------------------------------------------------------
(* The code of a byte. *)

Bytes255 == 0..255

\* A code is one byte that is no '%', or an escape, and says which byte it stands for.
LEMMA CodeOfByte ==
  ASSUME NEW c \in Bytes255
  PROVE  /\ EncodedByte(c) \in Seq(Bytes255) /\ Len(EncodedByte(c)) \in {1, 3}
         /\ Len(EncodedByte(c)) = 1 =>
              /\ EncodedByte(c)[1] # Percent
              /\ c = IF EncodedByte(c)[1] = Plus THEN Space ELSE EncodedByte(c)[1]
         /\ Len(EncodedByte(c)) = 3 =>
              /\ EncodedByte(c)[1] = Percent
              /\ EncodedByte(c)[2] \in HexDigits /\ EncodedByte(c)[3] \in HexDigits
              /\ c = 16 * HexValue(EncodedByte(c)[2]) + HexValue(EncodedByte(c)[3])
         /\ c # NUL => \A i \in 1..Len(EncodedByte(c)) :
                         EncodedByte(c)[i] \in Alnum \cup Unreserved \cup {Percent, Plus}
<1>1. CASE c \in Kept
  <2>1. EncodedByte(c) = <<c>>
    BY <1>1 DEF EncodedByte
  <2>2. c # Percent /\ c # Plus
    BY <1>1 DEF Kept, Alnum, Digits, Upper, Unreserved, NUL, Percent, Plus
  <2>3. c # NUL => c \in Alnum \cup Unreserved
    BY <1>1 DEF Kept
  <2>4. <<c>> \in Seq(Bytes255) /\ Len(<<c>>) = 1 /\ <<c>>[1] = c
    OBVIOUS
  <2> QED BY <2>1, <2>2, <2>3, <2>4
<1>2. CASE c \notin Kept /\ c = Space
  <2>1. EncodedByte(c) = <<Plus>>
    BY <1>2 DEF EncodedByte
  <2>2. Plus # Percent /\ Plus \in Bytes255
    BY DEF Plus, Percent, Bytes255
  <2>3. <<Plus>> \in Seq(Bytes255) /\ Len(<<Plus>>) = 1 /\ <<Plus>>[1] = Plus
    BY <2>2
  <2> QED BY <1>2, <2>1, <2>2, <2>3
<1>3. CASE c \notin Kept /\ c # Space
  <2> DEFINE h == c \div 16
             d == c % 16
  <2>1. h \in 0..15 /\ d \in 0..15 /\ c = 16 * h + d
    BY DEF Bytes255
  <2>2. EncodedByte(c) = <<Percent, HexOf(h), HexOf(d)>>
    BY <1>3 DEF EncodedByte
  <2> HIDE DEF h, d
  <2>3. ASSUME NEW x \in 0..15
        PROVE  HexOf(x) \in HexDigits /\ HexValue(HexOf(x)) = x /\ HexOf(x) \in Alnum \cap Bytes255
    BY DEF HexOf, HexDigits, HexValue, Digits, Upper, Alnum, Bytes255
  <2>4. Percent \in Bytes255 /\ HexOf(h) \in Bytes255 /\ HexOf(d) \in Bytes255
    BY <2>1, <2>3 DEF Percent, Bytes255
  <2> DEFINE e == <<Percent, HexOf(h), HexOf(d)>>
  <2>5. e \in Seq(Bytes255) /\ Len(e) = 3 /\ e[1] = Percent /\ e[2] = HexOf(h) /\ e[3] = HexOf(d)
    BY <2>4
  <2> HIDE DEF e
  <2>6. c = 16 * HexValue(e[2]) + HexValue(e[3]) /\ e[2] \in HexDigits /\ e[3] \in HexDigits
    BY <2>1, <2>3, <2>5
  <2>7. \A i \in 1..3 : e[i] \in Alnum \cup Unreserved \cup {Percent, Plus}
    <3>1. e[2] \in Alnum /\ e[3] \in Alnum
      BY <2>1, <2>3, <2>5
    <3>2. \A i \in 1..3 : i = 1 \/ i = 2 \/ i = 3
      OBVIOUS
    <3> QED BY <2>5, <3>1, <3>2
  <2>8. EncodedByte(c) = e
    BY <2>2 DEF e
  <2> QED BY <2>5, <2>6, <2>7, <2>8
<1> QED BY <1>1, <1>2, <1>3

-----------------------------------------------------------------------------
(* The encoded text e: the code of t's byte k is behind at[k - 1], before at[k]. *)

Size(t, k) == Len(EncodedByte(t[k]))

Spells(t, e, at) ==
  /\ e \in Seq(Bytes255) /\ at \in [0..Len(t) -> Nat]
  /\ at[0] = 0 /\ at[Len(t)] = Len(e)
  /\ \A k \in 1..Len(t) : at[k] = at[k - 1] + Size(t, k)
  /\ \A k \in 1..Len(t) : \A j \in 1..Size(t, k) : e[at[k - 1] + j] = EncodedByte(t[k])[j]

LEMMA EncodedSteps ==
  ASSUME NEW t \in Seq(Bytes255)
  PROVE  \E g \in [0..Len(t) -> Seq(Bytes255)] :
            /\ g[0] = <<>> /\ \A k \in 1..Len(t) : g[k] = g[k - 1] \o EncodedByte(t[k])
            /\ Encoded(t) = g[Len(t)]
<1> DEFINE n    == Len(t)
           S    == Seq(Bytes255)
           step == [k \in 1..n |-> [s \in S |-> s \o EncodedByte(t[k])]]
<1>1. n \in Nat /\ \A k \in 1..n : t[k] \in Bytes255
  OBVIOUS
<1>2. \A k \in 1..n : EncodedByte(t[k]) \in S
  BY <1>1, CodeOfByte
<1>3. step \in [1..n -> [S -> S]]
  BY <1>2
<1>4. <<>> \in S
  OBVIOUS
<1>5. PICK g \in [0..n -> S] : Chain(n, <<>>, step, g)
  <2> HIDE DEF step, S, n
  <2> QED BY <1>1, <1>3, <1>4, Recursion
<1>6. ASSUME NEW k \in 1..n PROVE g[k] = g[k - 1] \o EncodedByte(t[k])
  <2>1. k - 1 \in 0..n
    BY <1>1
  <2>2. g[k - 1] \in S
    BY <2>1
  <2> QED BY <1>5, <2>2 DEF Chain
<1>0. g[0] = <<>>
  BY <1>5 DEF Chain
<1> DEFINE Is(u) == u = [k \in 0..n |-> IF k = 0 THEN <<>> ELSE u[k - 1] \o EncodedByte(t[k])]
<1>7. Is(g)
  <2>1. \A k \in 0..n : g[k] = IF k = 0 THEN <<>> ELSE g[k - 1] \o EncodedByte(t[k])
    <3> HIDE DEF n
    <3>1. ASSUME NEW k \in 0..n, k # 0 PROVE k \in 1..n
      BY <1>1, <3>1
    <3> QED BY <1>0, <1>6, <3>1
  <2> HIDE DEF n
  <2> QED BY <2>1
<1>8. ASSUME NEW u, Is(u) PROVE u[n] = g[n]
  <2>0. \A k \in 0..n : u[k] = IF k = 0 THEN <<>> ELSE u[k - 1] \o EncodedByte(t[k])
    BY <1>8
  <2> HIDE DEF Is
  <2> DEFINE P == {k \in 0..n : u[k] = g[k]}
  <2>1. 0 \in P
    BY <1>1, <1>0, <2>0
  <2>2. ASSUME NEW k \in 1..n, k - 1 \in P PROVE k \in P
    <3> HIDE DEF n
    <3>1. k \in 0..n /\ k # 0
      BY <1>1
    <3>2. u[k] = u[k - 1] \o EncodedByte(t[k])
      BY <2>0, <3>1
    <3>3. u[k - 1] = g[k - 1]
      BY <2>2
    <3> QED BY <1>6, <3>1, <3>2, <3>3
  <2>3. \A k \in 0..n : k \in P
    <3> HIDE DEF P
    <3> QED BY <1>1, <2>1, <2>2, UpTo
  <2> QED BY <1>1, <2>3
<1>9. Encoded(t) = g[n]
  <2>1. Encoded(t) = (CHOOSE u : Is(u))[n]
    BY DEF Encoded
  <2> HIDE DEF Is
  <2> QED BY <1>7, <1>8, <2>1
<1> QED BY <1>0, <1>6, <1>9

\* What is said of a code below, by numbers.
LEMMA CodeSize ==
  ASSUME NEW t \in Seq(Bytes255), NEW k \in 1..Len(t)
  PROVE  t[k] \in Bytes255 /\ EncodedByte(t[k]) \in Seq(Bytes255) /\ Size(t, k) \in {1, 3}
<1>1. t[k] \in Bytes255
  OBVIOUS
<1> QED BY <1>1, CodeOfByte DEF Size

LEMMA EncodedSpells ==
  ASSUME NEW t \in Seq(Bytes255)
  PROVE  \E at : Spells(t, Encoded(t), at)
<1> DEFINE n == Len(t)
<1>0. n \in Nat
  OBVIOUS
<1>1. PICK g \in [0..n -> Seq(Bytes255)] :
         /\ g[0] = <<>> /\ \A k \in 1..n : g[k] = g[k - 1] \o EncodedByte(t[k])
         /\ Encoded(t) = g[n]
  BY EncodedSteps
<1> DEFINE at == [k \in 0..n |-> Len(g[k])]
<1>2. \A k \in 1..n : EncodedByte(t[k]) \in Seq(Bytes255) /\ Size(t, k) \in {1, 3}
  BY CodeSize
<1> HIDE DEF n
<1>3. \A k \in 0..n : g[k] \in Seq(Bytes255) /\ at[k] = Len(g[k]) /\ at[k] \in Nat
  OBVIOUS
<1>4. at \in [0..n -> Nat]
  BY <1>3
<1>5. at[0] = 0 /\ at[n] = Len(Encoded(t)) /\ Encoded(t) \in Seq(Bytes255)
  BY <1>0, <1>1, <1>3
<1>6. ASSUME NEW k \in 1..n
      PROVE  /\ k - 1 \in 0..n /\ k \in 0..n /\ at[k] = at[k - 1] + Size(t, k)
             /\ \A j \in 1..at[k - 1] : g[k][j] = g[k - 1][j]
             /\ \A j \in 1..Size(t, k) : g[k][at[k - 1] + j] = EncodedByte(t[k])[j]
  <2>1. k - 1 \in 0..n /\ k \in 0..n
    BY <1>0
  <2> DEFINE a == g[k - 1]
             c == EncodedByte(t[k])
  <2>2. a \in Seq(Bytes255) /\ c \in Seq(Bytes255) /\ g[k] = a \o c
    BY <1>1, <1>2, <1>3, <2>1
  <2>3. at[k] = Len(g[k]) /\ at[k - 1] = Len(a) /\ Size(t, k) = Len(c)
    BY <1>3, <2>1 DEF Size
  <2> HIDE DEF a, c, at
  <2>4. /\ Len(a \o c) = Len(a) + Len(c)
        /\ \A j \in 1..Len(a) : (a \o c)[j] = a[j]
        /\ \A j \in 1..Len(c) : (a \o c)[Len(a) + j] = c[j]
    BY <2>2
  <2> QED BY <2>1, <2>2, <2>3, <2>4 DEF a, c
<1> HIDE DEF at
<1> DEFINE P == {k \in 0..n : \A i \in 1..k : \A j \in 1..Size(t, i) :
                                /\ at[i - 1] + j \in 1..at[k]
                                /\ g[k][at[i - 1] + j] = EncodedByte(t[i])[j]}
<1>7. 0 \in P
  BY <1>0
<1>8. ASSUME NEW k \in 1..n, k - 1 \in P PROVE k \in P
  <2>0. k - 1 \in 0..n /\ k \in 0..n /\ at[k] = at[k - 1] + Size(t, k)
    BY <1>6
  <2>1. at[k - 1] \in Nat /\ at[k] \in Nat /\ at[k] = at[k - 1] + Size(t, k) /\ Size(t, k) \in Nat
    BY <1>2, <1>3, <2>0
  <2>2. ASSUME NEW i \in 1..k, NEW j \in 1..Size(t, i)
        PROVE  at[i - 1] + j \in 1..at[k] /\ g[k][at[i - 1] + j] = EncodedByte(t[i])[j]
    <3>1. CASE i = k
      BY <1>6, <2>1, <3>1
    <3>2. CASE i # k
      <4>1. i \in 1..(k - 1)
        BY <3>2
      <4>2. /\ at[i - 1] + j \in 1..at[k - 1]
            /\ g[k - 1][at[i - 1] + j] = EncodedByte(t[i])[j]
        BY <1>8, <4>1
      <4> QED BY <1>6, <2>1, <4>2
    <3> QED BY <3>1, <3>2
  <2>3. k \in 0..n
    BY <1>6
  <2> QED BY <2>2, <2>3
<1>9. n \in P
  <2> HIDE DEF P
  <2>1. \A k \in 0..n : k \in P
    BY <1>0, <1>7, <1>8, UpTo
  <2> QED BY <1>0, <2>1
<1>10. \A k \in 1..n : \A j \in 1..Size(t, k) :
          Encoded(t)[at[k - 1] + j] = EncodedByte(t[k])[j]
  BY <1>1, <1>9
<1>11. \A k \in 1..n : at[k] = at[k - 1] + Size(t, k)
  BY <1>6
<1> QED BY <1>4, <1>5, <1>10, <1>11, Zenon DEF Spells, n

LEMMA SpellsParts ==
  ASSUME NEW t \in Seq(Bytes255), NEW e, NEW at, Spells(t, e, at)
  PROVE  /\ Len(t) \in Nat /\ at[0] = 0 /\ at[Len(t)] = Len(e)
         /\ \A k \in 0..Len(t) : at[k] \in Nat
         /\ \A k \in 1..Len(t) : /\ k - 1 \in 0..Len(t) /\ k \in 0..Len(t)
                                 /\ at[k] = at[k - 1] + Size(t, k) /\ Size(t, k) \in {1, 3}
<1>1. Len(t) \in Nat
  OBVIOUS
<1>2. \A k \in 1..Len(t) : k - 1 \in 0..Len(t) /\ k \in 0..Len(t)
  BY <1>1
<1>3. /\ at[0] = 0 /\ at[Len(t)] = Len(e) /\ at \in [0..Len(t) -> Nat]
      /\ \A k \in 1..Len(t) : at[k] = at[k - 1] + Size(t, k)
  BY Zenon DEF Spells
<1>4. \A k \in 1..Len(t) : Size(t, k) \in {1, 3}
  BY CodeSize
<1> QED BY <1>1, <1>2, <1>3, <1>4

\* Codes follow each other, and there is nothing between them.
LEMMA InOrder ==
  ASSUME NEW t \in Seq(Bytes255), NEW e, NEW at, Spells(t, e, at)
  PROVE  \A k \in 0..Len(t) : \A i \in 0..k : at[i] <= at[k]
<1> DEFINE n == Len(t)
           P == {k \in 0..n : \A i \in 0..k : at[i] <= at[k]}
<1>0. n \in Nat /\ \A k \in 0..n : at[k] \in Nat
  BY SpellsParts
<1>1. 0 \in P
  BY <1>0
<1>2. ASSUME NEW k \in 1..n, k - 1 \in P PROVE k \in P
  <2>1. k - 1 \in 0..n /\ k \in 0..n
    BY <1>0
  <2>2. at[k] = at[k - 1] + Size(t, k) /\ Size(t, k) \in Nat
    BY SpellsParts
  <2>3. at[k - 1] <= at[k]
    BY <1>0, <2>1, <2>2
  <2>4. ASSUME NEW i \in 0..k PROVE at[i] <= at[k]
    <3>1. CASE i = k
      BY <1>0, <2>1, <3>1
    <3>2. CASE i # k
      <4>1. i \in 0..(k - 1) /\ i \in 0..n
        BY <1>0, <3>2
      <4>2. at[i] <= at[k - 1]
        BY <1>2, <4>1
      <4> QED BY <1>0, <2>1, <2>3, <4>1, <4>2
    <3> QED BY <3>1, <3>2
  <2> QED BY <2>1, <2>4
<1>3. \A k \in 0..n : k \in P
  <2> HIDE DEF P, n
  <2> QED BY <1>0, <1>1, <1>2, UpTo
<1> QED BY <1>3

LEMMA EveryPlace ==
  ASSUME NEW t \in Seq(Bytes255), NEW e, NEW at, Spells(t, e, at)
  PROVE  \A p \in 1..Len(e) : \E k \in 1..Len(t) : at[k - 1] < p /\ p <= at[k]
<1> DEFINE n == Len(t)
           P == {k \in 0..n : \A p \in 1..at[k] :
                                \E i \in 1..n : at[i - 1] < p /\ p <= at[i]}
<1>0. n \in Nat /\ at[0] = 0 /\ at[n] = Len(e) /\ \A k \in 0..n : at[k] \in Nat
  BY SpellsParts
<1>1. 0 \in P
  BY <1>0
<1>2. ASSUME NEW k \in 1..n, k - 1 \in P PROVE k \in P
  <2>1. k - 1 \in 0..n /\ k \in 0..n
    BY <1>0
  <2>2. at[k - 1] \in Nat /\ at[k] \in Nat
    BY <1>0, <2>1
  <2>3. ASSUME NEW p \in 1..at[k]
        PROVE  \E i \in 1..n : at[i - 1] < p /\ p <= at[i]
    <3>1. CASE p <= at[k - 1]
      <4>1. p \in 1..at[k - 1]
        BY <2>2, <3>1
      <4> QED BY <1>2, <4>1
    <3>2. CASE ~(p <= at[k - 1])
      <4>1. at[k - 1] < p /\ p <= at[k]
        BY <2>2, <3>2
      <4> QED BY <4>1
    <3> QED BY <3>1, <3>2
  <2> QED BY <2>1, <2>3
<1>3. n \in P
  <2> HIDE DEF P, n
  <2>1. \A k \in 0..n : k \in P
    BY <1>0, <1>1, <1>2, UpTo
  <2> QED BY <1>0, <2>1
<1> QED BY <1>0, <1>3

-----------------------------------------------------------------------------
(* Decoding the encoded text. *)

\* The escapes of e are the codes of three bytes.
LEMMA CodeIsEscape ==
  ASSUME NEW t \in Seq(Bytes255), NEW e, NEW at, Spells(t, e, at),
         NEW k \in 1..Len(t), Size(t, k) = 3
  PROVE  /\ Escape(e, at[k - 1] + 1)
         /\ t[k] = 16 * HexValue(e[at[k - 1] + 2]) + HexValue(e[at[k - 1] + 3])
<1> DEFINE c == EncodedByte(t[k])
           a == at[k - 1]
<1>1. /\ c[1] = Percent /\ c[2] \in HexDigits /\ c[3] \in HexDigits
      /\ t[k] = 16 * HexValue(c[2]) + HexValue(c[3])
  BY CodeSize, CodeOfByte DEF Size
<1>2. \A j \in 1..3 : e[a + j] = c[j]
  BY DEF Spells
<1>3. a \in Nat /\ at[k] = a + 3 /\ at[k] \in Nat /\ k \in 0..Len(t)
  BY SpellsParts
<1>4. Len(t) \in 0..Len(t) /\ k \in 0..Len(t) /\ at[Len(t)] = Len(e) /\ at[Len(t)] \in Nat
  BY <1>3, SpellsParts
<1>5. at[k] <= Len(e)
  BY <1>4, InOrder
<1> HIDE DEF a, c
<1>6. e[a + 1] = c[1] /\ e[a + 2] = c[2] /\ e[a + 3] = c[3]
  BY <1>2
<1>7. /\ 1 <= a + 1 /\ a + 1 + 2 <= Len(e)
      /\ a + 1 + 1 = a + 2 /\ a + 1 + 2 = a + 3
  BY <1>3, <1>4, <1>5
<1>8. Escape(e, a + 1)
  BY <1>1, <1>6, <1>7 DEF Escape
<1> QED BY <1>1, <1>6, <1>8 DEF a

LEMMA EscapeIsCode ==
  ASSUME NEW t \in Seq(Bytes255), NEW e, NEW at, Spells(t, e, at), NEW p \in Int, Escape(e, p)
  PROVE  \E k \in 1..Len(t) : Size(t, k) = 3 /\ p = at[k - 1] + 1
<1>0. Len(e) \in Nat
  BY SpellsParts
<1>1. p \in 1..Len(e) /\ e[p] = Percent
  BY <1>0 DEF Escape
<1>2. PICK k \in 1..Len(t) : at[k - 1] < p /\ p <= at[k]
  BY <1>1, EveryPlace
<1> DEFINE c == EncodedByte(t[k])
           a == at[k - 1]
           j == p - a
<1>3. a \in Nat /\ at[k] = a + Size(t, k) /\ Size(t, k) \in {1, 3}
  BY SpellsParts
<1>4. j \in 1..Size(t, k) /\ p = a + j
  BY <1>2, <1>3
<1>5. e[p] = c[j]
  <2>1. \A i \in 1..Size(t, k) : e[a + i] = c[i]
    BY DEF Spells
  <2> HIDE DEF a, c, j
  <2> QED BY <1>4, <2>1
<1>6. /\ Size(t, k) = 1 => c[1] # Percent
      /\ Size(t, k) = 3 => c[2] # Percent /\ c[3] # Percent
  <2>1. Percent \notin HexDigits
    BY DEF Percent, HexDigits, Digits
  <2> QED BY <2>1, CodeSize, CodeOfByte DEF Size
<1> HIDE DEF c, a, j
<1>7. Size(t, k) = 3 /\ j = 1
  BY <1>1, <1>3, <1>4, <1>5, <1>6
<1> QED BY <1>4, <1>7 DEF a

\* No code begins right behind the first byte of another, or behind its second.
LEMMA CodesApart ==
  ASSUME NEW t \in Seq(Bytes255), NEW e, NEW at, Spells(t, e, at),
         NEW i \in 1..Len(t), NEW k \in 1..Len(t)
  PROVE  /\ i < k => at[i - 1] < at[k - 1]
         /\ Size(t, i) = 3 => at[k - 1] # at[i - 1] + 1 /\ at[k - 1] # at[i - 1] + 2
<1>1. /\ i - 1 \in 0..Len(t) /\ k - 1 \in 0..Len(t) /\ Len(t) \in Nat
      /\ at[i - 1] \in Nat /\ at[k - 1] \in Nat /\ at[i] \in Nat
      /\ at[i] = at[i - 1] + Size(t, i) /\ Size(t, i) \in {1, 3}
  BY SpellsParts
<1>2. CASE i < k
  <2>1. i \in 0..(k - 1)
    BY <1>2
  <2>2. at[i] <= at[k - 1]
    BY <1>1, <2>1, InOrder
  <2> DEFINE a == at[i - 1]
             b == at[k - 1]
  <2>3. a \in Nat /\ b \in Nat /\ \E z \in {1, 3} : z = Size(t, i) /\ a + z <= b
    BY <1>1, <2>2
  <2> HIDE DEF a, b
  <2>4. a < b /\ (Size(t, i) = 3 => b # a + 1 /\ b # a + 2)
    BY <2>3
  <2> QED BY <1>2, <2>4 DEF a, b
<1>3. CASE ~(i < k)
  <2>1. k - 1 \in 0..(i - 1)
    BY <1>3
  <2>2. at[k - 1] <= at[i - 1]
    BY <1>1, <2>1, InOrder
  <2> QED BY <1>1, <1>3, <2>2
<1> QED BY <1>2, <1>3

\* What decoding keeps of e is the first byte of each code.
LEMMA LeftOfCodes ==
  ASSUME NEW t \in Seq(Bytes255), NEW e, NEW at, Spells(t, e, at)
  PROVE  {p \in 1..Len(e) : ~Escape(e, p - 1) /\ ~Escape(e, p - 2)}
           = {at[k - 1] + 1 : k \in 1..Len(t)}
<1>1. ASSUME NEW k \in 1..Len(t), NEW p, p = at[k - 1] + 1
      PROVE  p \in 1..Len(e) /\ ~Escape(e, p - 1) /\ ~Escape(e, p - 2)
  <2>1. /\ k - 1 \in 0..Len(t) /\ at[k - 1] \in Nat /\ at[k] \in Nat /\ Len(t) \in 0..Len(t)
        /\ k \in 0..Len(t) /\ at[k] = at[k - 1] + Size(t, k) /\ Size(t, k) \in {1, 3}
        /\ at[Len(t)] = Len(e) /\ Len(e) \in Nat
    BY SpellsParts
  <2>2. at[k] <= Len(e)
    BY <2>1, InOrder
  <2>3. p \in 1..Len(e)
    BY <1>1, <2>1, <2>2
  <2>4. ASSUME NEW r \in Int, Escape(e, r)
        PROVE  p - 1 # r /\ p - 2 # r
    <3>1. PICK i \in 1..Len(t) : Size(t, i) = 3 /\ r = at[i - 1] + 1
      BY <2>4, EscapeIsCode
    <3>2. at[k - 1] # at[i - 1] + 1 /\ at[k - 1] # at[i - 1] + 2
      BY <3>1, CodesApart
    <3>3. at[i - 1] \in Nat
      BY SpellsParts
    <3> DEFINE a == at[k - 1]
               b == at[i - 1]
    <3>4. p = a + 1 /\ r = b + 1 /\ a # b + 1 /\ a # b + 2 /\ a \in Nat /\ b \in Nat
      BY <1>1, <2>1, <3>1, <3>2, <3>3
    <3> HIDE DEF a, b
    <3> QED BY <3>4
  <2>5. p - 1 \in Int /\ p - 2 \in Int
    BY <2>3
  <2> QED BY <2>3, <2>4, <2>5
<1>2. ASSUME NEW p \in 1..Len(e), ~Escape(e, p - 1), ~Escape(e, p - 2)
      PROVE  \E k \in 1..Len(t) : p = at[k - 1] + 1
  <2>1. PICK k \in 1..Len(t) : at[k - 1] < p /\ p <= at[k]
    BY EveryPlace
  <2>2. at[k - 1] \in Nat /\ at[k] = at[k - 1] + Size(t, k) /\ Size(t, k) \in {1, 3}
    BY SpellsParts
  <2>3. Size(t, k) = 3 => p # at[k - 1] + 2 /\ p # at[k - 1] + 3
    <3>1. SUFFICES ASSUME Size(t, k) = 3, p = at[k - 1] + 2 \/ p = at[k - 1] + 3 PROVE FALSE
      OBVIOUS
    <3>2. p - 1 = at[k - 1] + 1 \/ p - 2 = at[k - 1] + 1
      BY <2>2, <3>1
    <3> QED BY <1>2, <3>1, <3>2, CodeIsEscape
  <2>4. p = at[k - 1] + 1
    BY <2>1, <2>2, <2>3
  <2> QED BY <2>4
<1> DEFINE L == {p \in 1..Len(e) : ~Escape(e, p - 1) /\ ~Escape(e, p - 2)}
           C == {at[k - 1] + 1 : k \in 1..Len(t)}
<1>3. \A p \in L : p \in C
  BY <1>2
<1>4. ASSUME NEW k \in 1..Len(t) PROVE at[k - 1] + 1 \in L
  <2> DEFINE p == at[k - 1] + 1
  <2> HIDE DEF p
  <2>0. p = at[k - 1] + 1
    BY DEF p
  <2>1. p \in 1..Len(e) /\ ~Escape(e, p - 1) /\ ~Escape(e, p - 2)
    BY <1>1, <2>0
  <2>2. p \in L
    BY <2>1
  <2> QED BY <2>0, <2>2
<1>5. L = C
  <2> HIDE DEF L
  <2> QED BY <1>3, <1>4
<1> QED BY <1>5

\* The first k values of f.
First(f, k) == {f[i] : i \in 1..k}

\* A set of n numbers in order has k of them up to the k-th.
LEMMA CountedUp ==
  ASSUME NEW n \in Nat, NEW f, \A k \in 1..n : f[k] \in Nat,
         \A i, k \in 1..n : i < k => f[i] < f[k], NEW k \in 0..n
  PROVE  Cardinality(First(f, k)) = k
<1> DEFINE F(m) == First(f, m)
           P == {m \in 0..n : IsFiniteSet(F(m)) /\ Cardinality(F(m)) = m}
<1>1. 0 \in P
  <2>1. F(0) = {}
    BY DEF First
  <2> HIDE DEF F
  <2> QED BY <2>1, FS_EmptySet
<1>2. ASSUME NEW m \in 1..n, m - 1 \in P PROVE m \in P
  <2>1. F(m) = F(m - 1) \cup {f[m]}
    <3>1. \A i \in 1..m : i = m \/ i \in 1..(m - 1)
      OBVIOUS
    <3>2. 1..(m - 1) \subseteq 1..m /\ m \in 1..m
      OBVIOUS
    <3> QED BY <3>1, <3>2 DEF First
  <2>2. f[m] \notin F(m - 1)
    <3>1. SUFFICES ASSUME NEW i \in 1..(m - 1), f[m] = f[i] PROVE FALSE
      BY DEF First
    <3>2. i \in 1..n /\ i < m
      OBVIOUS
    <3>3. f[i] < f[m] /\ f[i] \in Nat /\ f[m] \in Nat
      BY <3>2
    <3> QED BY <3>1, <3>3
  <2>3. IsFiniteSet(F(m - 1)) /\ Cardinality(F(m - 1)) = m - 1
    BY <1>2
  <2> HIDE DEF F
  <2>4. IsFiniteSet(F(m)) /\ Cardinality(F(m)) = m - 1 + 1
    BY <2>1, <2>2, <2>3, FS_AddElement
  <2>5. m \in 0..n /\ m - 1 + 1 = m
    OBVIOUS
  <2> QED BY <2>4, <2>5
<1> HIDE DEF P
<1>3. k \in P
  BY <1>1, <1>2, UpTo
<1> QED BY <1>3 DEF P

LEMMA DecodeSpelled ==
  ASSUME NEW t \in Seq(Bytes255), NEW e, NEW at, Spells(t, e, at)
  PROVE  llquery_url_decode(e) = t
<1> DEFINE n        == Len(t)
           left     == {k \in 1..Len(e) : ~Escape(e, k - 1) /\ ~Escape(e, k - 2)}
           place(k) == Cardinality({j \in left : j <= k})
           byte(k)  == IF Escape(e, k) THEN 16 * HexValue(e[k + 1]) + HexValue(e[k + 2])
                       ELSE IF e[k] = Plus THEN Space ELSE e[k]
           nth(c)   == CHOOSE k \in left : place(k) = c
           f        == [k \in 1..n |-> at[k - 1] + 1]
<1>0. llquery_url_decode(e) = [c \in 1..Cardinality(left) |-> byte(nth(c))]
  BY DEF llquery_url_decode
<1>1. n \in Nat /\ \A k \in 1..n : at[k - 1] \in Nat
  BY SpellsParts
<1>2. \A i, k \in 1..n : i < k => f[i] < f[k]
  <2>1. \A i, k \in 1..n : i < k => at[i - 1] < at[k - 1]
    BY CodesApart
  <2> QED BY <1>1, <2>1
<1>3. \A k \in 1..n : f[k] \in Nat /\ f[k] = at[k - 1] + 1
  BY <1>1
<1>4. left = First(f, n)
  BY <1>3, LeftOfCodes DEF First
<1> HIDE DEF f, left, n
<1>5. Cardinality(left) = n
  <2>1. n \in 0..n
    BY <1>1
  <2> QED BY <1>1, <1>2, <1>3, <1>4, <2>1, CountedUp
<1>6. ASSUME NEW k \in 1..n PROVE place(f[k]) = k
  <2>1. \A i \in 1..n : f[i] <= f[k] <=> i \in 1..k
    <3>1. SUFFICES ASSUME NEW i \in 1..n PROVE f[i] <= f[k] <=> i \in 1..k
      OBVIOUS
    <3>2. f[i] \in Nat /\ f[k] \in Nat
      BY <1>3
    <3>3. (i < k => f[i] < f[k]) /\ (k < i => f[k] < f[i])
      BY <1>2
    <3>4. i < k \/ i = k \/ k < i
      OBVIOUS
    <3>5. i \in 1..k <=> i < k \/ i = k
      OBVIOUS
    <3> QED BY <3>2, <3>3, <3>4, <3>5
  <2>2. 1..k \subseteq 1..n /\ k \in 0..n
    BY <1>1
  <2> DEFINE A == {j \in left : j <= f[k]}
             B == First(f, k)
  <2>3. A = B
    <3>1. \A j \in A : j \in B
      BY <1>4, <2>1 DEF First
    <3>2. \A j \in B : j \in A
      BY <1>4, <2>1, <2>2 DEF First
    <3> HIDE DEF A, B
    <3> QED BY <3>1, <3>2
  <2>4. Cardinality(B) = k
    BY <1>1, <1>2, <1>3, <2>2, CountedUp
  <2> QED BY <2>3, <2>4
<1> HIDE DEF place
<1>7. ASSUME NEW c \in 1..n PROVE nth(c) = f[c]
  <2>1. f[c] \in left /\ place(f[c]) = c
    BY <1>4, <1>6 DEF First
  <2>2. ASSUME NEW k \in left, place(k) = c PROVE k = f[c]
    <3>1. PICK i \in 1..n : k = f[i]
      BY <1>4 DEF First
    <3> QED BY <1>6, <2>2, <3>1
  <2> QED BY <2>1, <2>2
<1> HIDE DEF nth
<1>8. ASSUME NEW k \in 1..n PROVE byte(f[k]) = t[k]
  <2>1. t[k] \in Bytes255 /\ Size(t, k) \in {1, 3} /\ f[k] = at[k - 1] + 1 /\ at[k - 1] \in Nat
    BY <1>1, <1>3, CodeSize DEF n
  <2>2. CASE Size(t, k) = 3
    <3>1. /\ Escape(e, at[k - 1] + 1)
          /\ t[k] = 16 * HexValue(e[at[k - 1] + 2]) + HexValue(e[at[k - 1] + 3])
      BY <2>2, CodeIsEscape DEF n
    <3>2. f[k] + 1 = at[k - 1] + 2 /\ f[k] + 2 = at[k - 1] + 3
      BY <2>1
    <3> QED BY <2>1, <3>1, <3>2
  <2>3. CASE Size(t, k) = 1
    <3>1. e[f[k]] = EncodedByte(t[k])[1]
      <4>1. \A j \in 1..Size(t, k) : e[at[k - 1] + j] = EncodedByte(t[k])[j]
        BY DEF Spells, n
      <4> QED BY <2>1, <2>3, <4>1
    <3>2. e[f[k]] # Percent /\ t[k] = IF e[f[k]] = Plus THEN Space ELSE e[f[k]]
      BY <2>1, <2>3, <3>1, CodeOfByte DEF Size
    <3>3. ~Escape(e, f[k])
      BY <3>2 DEF Escape
    <3> QED BY <3>2, <3>3
  <2> QED BY <2>1, <2>2, <2>3
<1> HIDE DEF byte
<1>9. llquery_url_decode(e) = [c \in 1..n |-> t[c]]
  BY <1>0, <1>5, <1>7, <1>8
<1> QED BY <1>9 DEF n

\* Decoding takes back what encoding did to any text of bytes (llquery.c:1009-1134).
THEOREM DecodeOfEncoded ==
  ASSUME NEW t \in Seq(Bytes255)
  PROVE  llquery_url_decode(Encoded(t)) = t
BY EncodedSpells, DecodeSpelled

-----------------------------------------------------------------------------
(* The encoded text is a valid query, and no longer than reckoned. *)

LEMMA EncodedIsValid ==
  ASSUME NEW t \in Seq(Bytes255), t # <<>>, NUL \notin Range(t)
  PROVE  llquery_is_valid(Encoded(t))
<1> DEFINE e == Encoded(t)
           Good == Alnum \cup Unreserved \cup {Percent, Plus}
<1>1. PICK at : Spells(t, e, at)
  BY EncodedSpells
<1> HIDE DEF e
<1>2. ASSUME NEW p \in 1..Len(e) PROVE e[p] \in Good
  <2>1. PICK k \in 1..Len(t) : at[k - 1] < p /\ p <= at[k]
    BY <1>1, EveryPlace
  <2>2. at[k - 1] \in Nat /\ at[k] = at[k - 1] + Size(t, k) /\ Size(t, k) \in {1, 3}
    BY <1>1, SpellsParts
  <2> DEFINE j == p - at[k - 1]
  <2>3. j \in 1..Size(t, k) /\ p = at[k - 1] + j
    BY <2>1, <2>2
  <2>4. e[p] = EncodedByte(t[k])[j]
    <3>1. \A i \in 1..Size(t, k) : e[at[k - 1] + i] = EncodedByte(t[k])[i]
      BY <1>1 DEF Spells
    <3> HIDE DEF j
    <3> QED BY <2>3, <3>1
  <2>5. t[k] \in Bytes255 /\ t[k] # NUL
    BY CodeSize DEF Range
  <2> HIDE DEF j
  <2> QED BY <2>3, <2>4, <2>5, CodeOfByte DEF Size
<1>3. e # <<>> /\ e \in Seq(Bytes255) /\ Len(e) \in Nat
  <2>1. 1 \in 1..Len(t) /\ Len(t) \in 0..Len(t)
    BY SpellsParts, <1>1
  <2>2. at[1] \in Nat /\ at[1] = at[0] + Size(t, 1) /\ Size(t, 1) \in {1, 3} /\ at[0] = 0
        /\ at[Len(t)] = Len(e) /\ at[Len(t)] \in Nat /\ 1 \in 0..Len(t)
    <3>1. 1 - 1 = 0 /\ 1 \in 0..Len(t)
      BY <2>1
    <3> QED BY <1>1, <2>1, <3>1, SpellsParts
  <2>3. at[1] <= Len(e)
    BY <1>1, <2>1, <2>2, InOrder
  <2>4. e \in Seq(Bytes255)
    BY <1>1 DEF Spells
  <2> QED BY <2>2, <2>3, <2>4
<1>4. Unquestioned(e) = e
  <2>1. 1 \in 1..Len(e)
    BY <1>3
  <2>2. Question \notin Good
    BY DEF Question, Alnum, Digits, Upper, Unreserved, Percent, Plus
  <2> QED BY <1>2, <2>1, <2>2 DEF Unquestioned
<1> QED BY <1>2, <1>3, <1>4 DEF llquery_is_valid, e

\* What is reckoned for each byte: a space takes less, everything else as much.
LEMMA EncodedSizeSteps ==
  ASSUME NEW t \in Seq(Bytes255)
  PROVE  \E s \in [0..Len(t) -> Nat] :
            /\ s[0] = 0 /\ EncodedSize(t) = s[Len(t)]
            /\ \A k \in 1..Len(t) : s[k] = s[k - 1] + (IF t[k] \in Kept THEN 1 ELSE 3)
<1> DEFINE n       == Len(t)
           Reck(k) == IF t[k] \in Kept THEN 1 ELSE 3
           step    == [k \in 1..n |-> [s \in Nat |-> s + Reck(k)]]
<1>1. n \in Nat
  OBVIOUS
<1>2. \A k \in 1..n : Reck(k) \in Nat
  OBVIOUS
<1>3. step \in [1..n -> [Nat -> Nat]]
  BY <1>2
<1>4. PICK g \in [0..n -> Nat] : Chain(n, 0, step, g)
  <2> HIDE DEF step, n
  <2> QED BY <1>1, <1>3, Recursion
<1>5. ASSUME NEW k \in 1..n PROVE g[k] = g[k - 1] + Reck(k)
  <2>1. k - 1 \in 0..n
    BY <1>1
  <2>2. g[k - 1] \in Nat
    BY <2>1
  <2> HIDE DEF Reck
  <2> QED BY <1>4, <2>2 DEF Chain
<1>6. g[0] = 0
  BY <1>4 DEF Chain
<1> DEFINE Is(u) == u = [k \in 0..n |-> IF k = 0 THEN 0 ELSE u[k - 1] + Reck(k)]
<1>7. EncodedSize(t) = (CHOOSE u : Is(u))[n]
  BY DEF EncodedSize
<1> HIDE DEF n, Reck
<1>8. Is(g)
  <2>1. ASSUME NEW k \in 0..n PROVE g[k] = IF k = 0 THEN 0 ELSE g[k - 1] + Reck(k)
    <3>1. k # 0 => k \in 1..n
      BY <1>1
    <3> QED BY <1>5, <1>6, <3>1
  <2> QED BY <2>1
<1>9. ASSUME NEW u, Is(u) PROVE u[n] = g[n]
  <2>0. \A k \in 0..n : u[k] = IF k = 0 THEN 0 ELSE u[k - 1] + Reck(k)
    BY <1>9
  <2> HIDE DEF Is
  <2> DEFINE P == {k \in 0..n : u[k] = g[k]}
  <2>1. 0 \in P
    BY <1>1, <1>6, <2>0
  <2>2. ASSUME NEW k \in 1..n, k - 1 \in P PROVE k \in P
    <3>1. k \in 0..n /\ k # 0
      BY <1>1
    <3>2. u[k] = u[k - 1] + Reck(k)
      BY <2>0, <3>1
    <3>3. u[k - 1] = g[k - 1]
      BY <2>2
    <3> QED BY <1>5, <3>1, <3>2, <3>3
  <2>3. \A k \in 0..n : k \in P
    <3> HIDE DEF P
    <3> QED BY <1>1, <2>1, <2>2, UpTo
  <2> QED BY <1>1, <2>3
<1>10. EncodedSize(t) = g[n]
  <2> HIDE DEF Is
  <2> QED BY <1>7, <1>8, <1>9
<1> QED BY <1>5, <1>6, <1>10 DEF n, Reck

LEMMA CodeIsReckoned ==
  ASSUME NEW c \in Bytes255
  PROVE  /\ Len(EncodedByte(c)) <= IF c \in Kept THEN 1 ELSE 3
         /\ c # Space => Len(EncodedByte(c)) = IF c \in Kept THEN 1 ELSE 3
<1>1. CASE c \in Kept
  BY <1>1 DEF EncodedByte
<1>2. CASE c \notin Kept /\ c = Space
  BY <1>2 DEF EncodedByte
<1>3. CASE c \notin Kept /\ c # Space
  BY <1>3 DEF EncodedByte
<1> QED BY <1>1, <1>2, <1>3

\* The size reckoned is enough, and right for a text without spaces.
LEMMA SizeIsEnough ==
  ASSUME NEW t \in Seq(Bytes255)
  PROVE  /\ EncodedSize(t) \in Nat /\ Encoded(t) \in Seq(Bytes255)
         /\ Len(Encoded(t)) <= EncodedSize(t)
         /\ Space \notin Range(t) => Len(Encoded(t)) = EncodedSize(t)
<1> DEFINE n == Len(t)
<1>0. n \in Nat
  OBVIOUS
<1>1. PICK at : Spells(t, Encoded(t), at)
  BY EncodedSpells
<1>2. PICK s \in [0..n -> Nat] :
         /\ s[0] = 0 /\ EncodedSize(t) = s[n]
         /\ \A k \in 1..n : s[k] = s[k - 1] + (IF t[k] \in Kept THEN 1 ELSE 3)
  BY EncodedSizeSteps
<1>3. /\ at[0] = 0 /\ at[n] = Len(Encoded(t)) /\ \A k \in 0..n : at[k] \in Nat
      /\ \A k \in 1..n : k - 1 \in 0..n /\ k \in 0..n /\ at[k] = at[k - 1] + Size(t, k)
  BY <1>1, SpellsParts
<1>4. \A k \in 1..n : /\ Size(t, k) <= (IF t[k] \in Kept THEN 1 ELSE 3)
                      /\ t[k] # Space => Size(t, k) = IF t[k] \in Kept THEN 1 ELSE 3
  BY CodeSize, CodeIsReckoned DEF Size
<1>5. \A k \in 1..n : Size(t, k) \in Nat
  BY CodeSize
<1>6. \A k \in 1..n : t[k] \in Range(t)
  BY DEF Range
<1> HIDE DEF n
<1> DEFINE P == {k \in 0..n : at[k] <= s[k] /\ (Space \notin Range(t) => at[k] = s[k])}
<1>7. 0 \in P
  BY <1>0, <1>2, <1>3
<1>8. ASSUME NEW k \in 1..n, k - 1 \in P PROVE k \in P
  <2> DEFINE r == IF t[k] \in Kept THEN 1 ELSE 3
             z == Size(t, k)
  <2>1. r \in Nat /\ z \in Nat /\ z <= r /\ (Space \notin Range(t) => z = r)
    BY <1>4, <1>5, <1>6
  <2>2. s[k] = s[k - 1] + r /\ at[k] = at[k - 1] + z
    BY <1>2, <1>3
  <2>3. k - 1 \in 0..n /\ k \in 0..n /\ s[k - 1] \in Nat /\ at[k - 1] \in Nat
    BY <1>3
  <2>4. at[k - 1] <= s[k - 1] /\ (Space \notin Range(t) => at[k - 1] = s[k - 1])
    BY <1>8
  <2> HIDE DEF r, z
  <2> QED BY <2>1, <2>2, <2>3, <2>4
<1>9. n \in P
  <2> HIDE DEF P
  <2>1. \A k \in 0..n : k \in P
    BY <1>0, <1>7, <1>8, UpTo
  <2> QED BY <1>0, <2>1
<1>10. Encoded(t) \in Seq(Bytes255)
  BY <1>1 DEF Spells
<1> QED BY <1>0, <1>2, <1>3, <1>9, <1>10

(* Whatever the size of the buffer, llquery_url_encode writes no further: the text and its *)
(* NUL fit, or nothing is written and the answer is a size that suffices                    *)
(* (llquery.c:1078-1134).                                                                    *)
THEOREM EncodeFits ==
  ASSUME NEW t \in Seq(Bytes255), NEW size \in Nat
  PROVE  LET r == llquery_url_encode(t, size) IN
         /\ r.out = <<>> \/ Len(r.out) + 1 <= size
         /\ r.answer \in Nat
         /\ r.out # Encoded(t) => llquery_url_encode(t, r.answer + 1).out = Encoded(t)
<1>1. /\ EncodedSize(t) \in Nat /\ Len(Encoded(t)) <= EncodedSize(t)
      /\ Len(Encoded(t)) \in Nat
  BY SizeIsEnough
<1>2. CASE size < EncodedSize(t) + 1
  BY <1>1, <1>2 DEF llquery_url_encode
<1>3. CASE ~(size < EncodedSize(t) + 1)
  BY <1>1, <1>3 DEF llquery_url_encode
<1> QED BY <1>2, <1>3

-----------------------------------------------------------------------------
(* encode_url and decode_url. *)

\* The text and its NUL stay below the size that encode_url compares with, or no byte
\* of it takes less than is reckoned.
FitsBuffer(t) == EncodedSize(t) < BufSize - 1 \/ Space \notin Range(t)

LEMMA EncodeUrlEncodes ==
  ASSUME NEW t \in Seq(Bytes255), FitsBuffer(t)
  PROVE  encode_url(t) = Encoded(t)
<1> DEFINE first  == llquery_url_encode(t, BufSize)
           second == llquery_url_encode(t, first.answer + 1)
           n      == EncodedSize(t)
           e      == Encoded(t)
<1>1. /\ n \in Nat /\ e \in Seq(Bytes255) /\ Len(e) \in Nat /\ Len(e) <= n
      /\ Space \notin Range(t) => Len(e) = n
  BY SizeIsEnough
<1>2. BufSize \in Nat \ {0}
  BY UrlBufferAssumption
<1>3. encode_url(t) = IF first.answer < BufSize - 1 THEN first.out
                      ELSE Filled(second.out, first.answer)
  BY DEF encode_url
<1>4. ASSUME NEW size \in Nat
      PROVE  llquery_url_encode(t, size) = IF size < n + 1 THEN [answer |-> n, out |-> <<>>]
                                           ELSE [answer |-> Len(e), out |-> e]
  BY DEF llquery_url_encode
<1> HIDE DEF e, n
<1>5. CASE n < BufSize - 1
  <2>1. first.answer = Len(e) /\ first.out = e
    BY <1>1, <1>2, <1>4, <1>5
  <2>2. Len(e) < BufSize - 1
    BY <1>1, <1>2, <1>5
  <2> QED BY <1>3, <2>1, <2>2 DEF e
<1>6. CASE ~(n < BufSize - 1)
  <2>1. Len(e) = n
    BY <1>1, <1>6 DEF FitsBuffer, n
  <2>2. first.answer = n
    BY <1>1, <1>2, <1>4, <2>1
  <2>3. second.out = e
    BY <1>1, <1>4, <2>1, <2>2
  <2>4. Filled(e, n) = e
    BY <1>1, <2>1 DEF Filled
  <2> QED BY <1>2, <1>3, <1>6, <2>2, <2>3, <2>4 DEF e
<1> QED BY <1>5, <1>6

LEMMA CodecInverts ==
  ASSUME NEW t \in Seq(Bytes255), FitsBuffer(t), t # <<>>
  PROVE  /\ decode_url(encode_url(t)) = t
         /\ NUL \notin Range(t) => llquery_is_valid(encode_url(t))
BY EncodeUrlEncodes, DecodeOfEncoded, EncodedIsValid DEF decode_url

-----------------------------------------------------------------------------
(* A text that is not to be decoded is one of those asked for. *)

Asked == {Unquestioned(t) : t \in Texts} \ {<<>>}

RawInv == /\ pc = "decode" => "AUTO_DECODE" \in q[me].flags
          /\ pc = "pool" => "AUTO_DECODE" \in q[me].flags \/ text \in Asked

\* The other steps go elsewhere.
LEMMA NotThere == ASSUME pc' \notin {"decode", "pool"} PROVE RawInv'
BY DEF RawInv

LEMMA ParseIsRaw ==
  ASSUME TypeInv, NEW x \in Queries, NEW t \in Texts, NEW size, llquery_parse_ex(x, t, size)
  PROVE  RawInv'
<1> DEFINE w == Unquestioned(t)
           r == ResetObject(q[x])
           c == [r EXCEPT !.decode_buffer = Caller]
           Enters(step, y, into) == Update(x, y) /\ Goes(step) /\ me' = x /\ text' = into
<1>0. q[x].flags = r.flags /\ c.flags = r.flags
  BY DEF ResetObject
<1>1. \/ \E err : Ends(err)
      \/ w # <<>> /\ ~Decodes(r, w) /\ Enters("pool", r, w)
      \/ Decodes(r, w) /\ Enters("decode", r, w)
      \/ Decodes(r, w) /\ Enters("pool", c, decode_in_place(w))
  BY DEF llquery_parse_ex
<1>2. CASE \E err : Ends(err)
  BY <1>2, NotThere DEF Ends
<1>3. ASSUME NEW y, Update(x, y) PROVE q'[x] = y
  BY <1>3 DEF Update, TypeInv, Types
<1> HIDE DEF w, r, c
<1>4. CASE w # <<>> /\ Enters("pool", r, w)
  <2>1. w \in Asked
    BY <1>4 DEF Asked, w
  <2> QED BY <1>4, <2>1 DEF RawInv, Goes
<1>5. ASSUME Decodes(r, w), NEW step, NEW y, y.flags = r.flags, NEW into, Enters(step, y, into)
      PROVE  RawInv'
  <2>1. q'[me'].flags = r.flags /\ "AUTO_DECODE" \in r.flags
    BY <1>3, <1>5 DEF Decodes
  <2> QED BY <2>1 DEF RawInv
<1> HIDE DEF Enters
<1>6. CASE Decodes(r, w) /\ Enters("decode", r, w)
  BY <1>5, <1>6
<1>7. CASE Decodes(r, w) /\ Enters("pool", c, decode_in_place(w))
  BY <1>0, <1>5, <1>7
<1> QED BY <1>1, <1>2, <1>4, <1>6, <1>7

LEMMA DecodeIsRaw == ASSUME TypeInv, RawInv, DecodeBuffer PROVE RawInv'
<1>0. me \in Queries /\ pc = "decode" /\ q \in [Queries -> Object]
  BY DEF DecodeBuffer, TypeInv, Types, Control
<1>1. CASE Ends("MEMORY_ERROR")
  BY <1>1, NotThere DEF Ends
<1>2. ASSUME NEW b, Update(me, [q[me] EXCEPT !.decode_buffer = b]), UNCHANGED me
      PROVE  RawInv'
  <2>1. q'[me'] = [q[me] EXCEPT !.decode_buffer = b]
    BY <1>0, <1>2 DEF Update
  <2>2. q'[me'].flags = q[me].flags
    BY <2>1
  <2> QED BY <1>0, <2>2 DEF RawInv
<1> QED BY <1>1, <1>2 DEF DecodeBuffer

LEMMA ElsewhereByCall ==
  ASSUME NEW x \in Queries,
         \/ \E a \in Allocators, n \in Limits, f \in FlagSets : llquery_init_ex(x, a, n, f)
         \/ llquery_reset(x) \/ llquery_free(x) \/ llquery_filter(x)
         \/ \E by \in BOOLEAN : llquery_sort(x, by)
         \/ \E y \in Queries : llquery_clone(x, y)
         \/ \E a \in Allocators : llquery_set_allocator(x, a)
  PROVE  RawInv'
<1>1. ASSUME NEW y, NEW a, NEW max, NEW flags, NewObject(x, y, a, max, flags)
      PROVE  pc' \notin {"decode", "pool"}
  BY <1>1 DEF NewObject, Ends, Goes
<1>2. CASE \E a \in Allocators, n \in Limits, f \in FlagSets : llquery_init_ex(x, a, n, f)
  BY <1>1, <1>2, NotThere DEF llquery_init_ex
<1>3. CASE \E y \in Queries : llquery_clone(x, y)
  BY <1>1, <1>3, NotThere DEF llquery_clone
<1>4. CASE \E by \in BOOLEAN : llquery_sort(x, by)
  BY <1>4, NotThere DEF llquery_sort, Goes
<1>5. CASE llquery_filter(x)
  BY <1>5, NotThere DEF llquery_filter, Goes
<1>6. CASE llquery_reset(x) \/ llquery_free(x)
  BY <1>6, NotThere DEF llquery_reset, llquery_free, Ends
<1>7. CASE \E a \in Allocators : llquery_set_allocator(x, a)
  BY <1>7, NotThere DEF llquery_set_allocator, Ends
<1> QED BY <1>2, <1>3, <1>4, <1>5, <1>6, <1>7

LEMMA ElsewhereByStep ==
  ASSUME \/ InitPairs \/ StringPool \/ SkipPair \/ ParseKey \/ ParseValue \/ ParseEnd
         \/ \E keep \in BOOLEAN : FilterPair(keep)
         \/ FilterEnd \/ SortPair \/ SortRound \/ SortEnd
         \/ CloneKey \/ CloneValue \/ CloneBuffer
  PROVE  RawInv'
<1>1. CASE InitPairs
  BY <1>1, NotThere DEF InitPairs, Ends, Goes
<1>2. CASE StringPool
  BY <1>2, NotThere DEF StringPool, Goes
<1>3. CASE SkipPair \/ ParseKey
  BY <1>3, NotThere DEF SkipPair, ParseKey, StopParsing, Ends, Goes
<1>4. CASE ParseValue \/ ParseEnd
  BY <1>4, NotThere DEF ParseValue, ParseEnd, FinishPair, StopParsing, Ends, Goes
<1>5. CASE \E keep \in BOOLEAN : FilterPair(keep)
  BY <1>5, NotThere DEF FilterPair, Goes
<1>6. CASE FilterEnd \/ SortEnd
  BY <1>6, NotThere DEF FilterEnd, SortEnd, Ends
<1>7. CASE SortPair \/ SortRound
  BY <1>7, NotThere DEF SortPair, SortRound
<1>8. CASE CloneKey \/ CloneValue \/ CloneBuffer
  BY <1>8, NotThere DEF CloneKey, CloneValue, CloneBuffer, CloneFails, Ends, Goes
<1> QED BY <1>1, <1>2, <1>3, <1>4, <1>5, <1>6, <1>7, <1>8

LEMMA StepIsRaw == TypeInv /\ RawInv /\ [Next]_vars => RawInv'
<1> SUFFICES ASSUME TypeInv, RawInv, [Next]_vars PROVE RawInv'
  OBVIOUS
<1>1. CASE Call
  BY <1>1, ParseIsRaw, ElsewhereByCall DEF Call
<1>2. CASE Step
  BY <1>2, DecodeIsRaw, ElsewhereByStep DEF Step
<1>3. CASE UNCHANGED vars
  BY <1>3 DEF vars, RawInv
<1> QED BY <1>1, <1>2, <1>3 DEF Next

LEMMA RawInvHolds == Spec => []RawInv
<1>1. Init => RawInv
  BY DEF Init, RawInv
<1> QED BY <1>1, TypeInvHolds, StepIsRaw, PTL DEF Spec

(* decode_url takes back what encode_url writes, and that is a valid query, for every text *)
(* a parse is given that encode_url has a buffer for or that has no spaces                  *)
(* (lhttp_url.c:54-87, llquery.c:1009-1134); of others encode_url answers more than it wrote. *)
THEOREM EncodeThenDecode ==
  ASSUME \A t \in Texts : FitsBuffer(Unquestioned(t))
  PROVE  Spec => []DecodeInvertsEncode
<1>1. RawInv => DecodeInvertsEncode
  <2> SUFFICES ASSUME RawInv, Raw
               PROVE  /\ decode_url(encode_url(text)) = text
                      /\ NUL \notin Range(text) => llquery_is_valid(encode_url(text))
    BY DEF DecodeInvertsEncode
  <2>1. PICK t \in Texts : text = Unquestioned(t) /\ text # <<>>
    BY DEF RawInv, Raw, Asked
  <2>2. t \in Seq(Bytes255)
    BY QueryAssumptions DEF Bytes255
  <2>3. text \in Seq(Bytes255)
    BY <2>1, <2>2, HeadTailProperties DEF Unquestioned
  <2>4. FitsBuffer(text)
    BY <2>1
  <2> QED BY <2>1, <2>3, <2>4, CodecInverts
<1> QED BY <1>1, RawInvHolds, PTL

-----------------------------------------------------------------------------
(* The table of a list of pairs. *)

KeyValue == [k : Seq(Int), v : Seq(Int)]

LEMMA PairsOf ==
  ASSUME NEW list \in Seq(KeyValue)
  PROVE  /\ Len(list) \in Nat /\ DOMAIN list = 1..Len(list)
         /\ \A i \in 1..Len(list) :
              list[i] \in KeyValue /\ list[i].k \in Seq(Int) /\ list[i].v \in Seq(Int)
<1>1. \A p \in KeyValue : p.k \in Seq(Int) /\ p.v \in Seq(Int)
  BY DEF KeyValue
<1>2. \A i \in 1..Len(list) : list[i] \in KeyValue
  OBVIOUS
<1> QED BY <1>1, <1>2

\* How the values of a key add up.
Adds(list, key, g) ==
  /\ g[0] = <<>>
  /\ \A m \in 1..Len(list) :
       g[m] = IF list[m].k = key THEN Append(g[m - 1], list[m].v) ELSE g[m - 1]

LEMMA ValuesSteps ==
  ASSUME NEW list \in Seq(KeyValue), NEW key
  PROVE  \E g \in [0..Len(list) -> Seq(Seq(Int))] :
            Adds(list, key, g) /\ llquery_get_all_values(list, key, Len(list)) = g[Len(list)]
<1> DEFINE n    == Len(list)
           S    == Seq(Seq(Int))
           step == [m \in 1..n |-> [s \in S |-> IF list[m].k = key THEN Append(s, list[m].v) ELSE s]]
<1>1. n \in Nat /\ \A m \in 1..n : list[m].v \in Seq(Int)
  BY PairsOf
<1>2. step \in [1..n -> [S -> S]]
  BY <1>1
<1>3. PICK g \in [0..n -> S] : Chain(n, <<>>, step, g)
  <2>1. <<>> \in S
    OBVIOUS
  <2> HIDE DEF step, n, S
  <2> QED BY <1>1, <1>2, <2>1, Recursion
<1>4. g[0] = <<>>
  BY <1>3 DEF Chain
<1>5. ASSUME NEW m \in 1..n
      PROVE  g[m] = IF list[m].k = key THEN Append(g[m - 1], list[m].v) ELSE g[m - 1]
  <2>1. m - 1 \in 0..n
    BY <1>1
  <2>2. g[m - 1] \in S
    BY <2>1
  <2> QED BY <1>3, <2>2 DEF Chain
<1>6. \A m \in 0..n : Len(g[m]) \in 0..m
  <2> DEFINE P == {m \in 0..n : Len(g[m]) \in 0..m}
  <2>1. 0 \in P
    BY <1>1, <1>4
  <2>2. ASSUME NEW m \in 1..n, m - 1 \in P PROVE m \in P
    <3>1. m - 1 \in 0..n /\ m \in 0..n /\ Len(g[m - 1]) \in 0..(m - 1)
      BY <1>1, <2>2
    <3>2. g[m - 1] \in S /\ list[m].v \in Seq(Int)
      BY <1>1, <3>1
    <3>3. Len(Append(g[m - 1], list[m].v)) = Len(g[m - 1]) + 1
      BY <3>2
    <3>4. g[m] = g[m - 1] \/ g[m] = Append(g[m - 1], list[m].v)
      BY <1>5
    <3>5. Len(g[m]) = Len(g[m - 1]) \/ Len(g[m]) = Len(g[m - 1]) + 1
      BY <3>3, <3>4
    <3> HIDE DEF n, S
    <3> QED BY <1>1, <3>1, <3>5
  <2>3. \A m \in 0..n : m \in P
    <3> HIDE DEF P, n
    <3> QED BY <1>1, <2>1, <2>2, UpTo
  <2> QED BY <2>3
<1> DEFINE Is(u) == u = [m \in 0..n |->
                      IF m = 0 THEN <<>>
                      ELSE IF list[m].k = key /\ Len(u[m - 1]) < n THEN Append(u[m - 1], list[m].v)
                      ELSE u[m - 1]]
<1>7. llquery_get_all_values(list, key, n) = (CHOOSE u : Is(u))[n]
  BY DEF llquery_get_all_values
<1>8. ASSUME NEW m \in 0..n
      PROVE  g[m] = IF m = 0 THEN <<>>
                    ELSE IF list[m].k = key /\ Len(g[m - 1]) < n THEN Append(g[m - 1], list[m].v)
                    ELSE g[m - 1]
  <2> HIDE DEF n
  <2>1. CASE m = 0
    BY <1>4, <2>1
  <2>2. CASE m # 0
    <3>1. m \in 1..n /\ m - 1 \in 0..n
      BY <1>1, <2>2
    <3>2. Len(g[m - 1]) < n
      BY <1>1, <1>6, <3>1
    <3> QED BY <1>5, <2>2, <3>1, <3>2
  <2> QED BY <2>1, <2>2
<1> HIDE DEF n, S, step
<1>9. Is(g)
  BY <1>8
<1>10. ASSUME NEW u, Is(u) PROVE u[n] = g[n]
  <2>0. ASSUME NEW m \in 0..n
        PROVE  u[m] = IF m = 0 THEN <<>>
                      ELSE IF list[m].k = key /\ Len(u[m - 1]) < n THEN Append(u[m - 1], list[m].v)
                      ELSE u[m - 1]
    BY <1>10
  <2> HIDE DEF Is
  <2> DEFINE P == {m \in 0..n : u[m] = g[m]}
  <2>1. 0 \in P
    BY <1>1, <1>4, <2>0
  <2>2. ASSUME NEW m \in 1..n, m - 1 \in P PROVE m \in P
    <3>1. m \in 0..n /\ u[m - 1] = g[m - 1]
      BY <1>1, <2>2
    <3>2. u[m] = g[m]
      BY <1>8, <2>0, <3>1
    <3> QED BY <3>1, <3>2
  <2>3. \A m \in 0..n : m \in P
    <3> HIDE DEF P
    <3> QED BY <1>1, <2>1, <2>2, UpTo
  <2> QED BY <1>1, <2>3
<1>11. llquery_get_all_values(list, key, n) = g[n]
  <2> HIDE DEF Is
  <2> QED BY <1>7, <1>9, <1>10
<1> QED BY <1>4, <1>5, <1>11 DEF Adds, n, S

NoPairs == [k \in {} |-> Single(<<>>)]

\* The table of the pairs in S, which query_to_lua_table goes through from the last one.
Tables(list, m, g) ==
  g = [S \in SUBSET (1..m) |-> IF S = {} THEN NoPairs
                               ELSE AddPair(g[S \ {Max(S)}], list[Max(S)])]

LEMMA MaxIs ==
  ASSUME NEW m \in Nat, NEW S \in SUBSET (1..m), m \in S
  PROVE  Max(S) = m
<1>1. \A x \in S : (\A y \in S : x >= y) <=> x = m
  OBVIOUS
<1>2. Max(S) = CHOOSE x \in S : \A y \in S : x >= y
  BY DEF Max
<1> QED BY <1>1, <1>2

LEMMA TablesAre ==
  ASSUME NEW list, NEW n \in Nat
  PROVE  \E g : Tables(list, n, g)
<1> DEFINE P == {m \in 0..n : \E g : Tables(list, m, g)}
<1>1. 0 \in P
  <2> DEFINE g == [S \in SUBSET (1..0) |-> NoPairs]
  <2>1. Tables(list, 0, g)
    BY DEF Tables
  <2> QED BY <2>1
<1>2. ASSUME NEW m \in 1..n, m - 1 \in P PROVE m \in P
  <2>1. PICK g : Tables(list, m - 1, g)
    BY <1>2
  <2> DEFINE h == [S \in SUBSET (1..m) |-> IF m \in S THEN AddPair(g[S \ {m}], list[m]) ELSE g[S]]
  <2>2. ASSUME NEW S \in SUBSET (1..m)
        PROVE  h[S] = IF S = {} THEN NoPairs ELSE AddPair(h[S \ {Max(S)}], list[Max(S)])
    <3>1. CASE m \in S
      <4>1. Max(S) = m
        BY <3>1, MaxIs
      <4>2. S \ {m} \in SUBSET (1..m) /\ m \notin S \ {m}
        OBVIOUS
      <4>3. h[S \ {m}] = g[S \ {m}] /\ h[S] = AddPair(g[S \ {m}], list[m])
        BY <3>1, <4>2
      <4> HIDE DEF h
      <4> QED BY <3>1, <4>1, <4>3
    <3>2. CASE m \notin S
      <4>1. S \in SUBSET (1..(m - 1)) /\ h[S] = g[S]
        BY <3>2
      <4>2. g[S] = IF S = {} THEN NoPairs ELSE AddPair(g[S \ {Max(S)}], list[Max(S)])
        BY <2>1, <4>1 DEF Tables
      <4>3. h[S \ {Max(S)}] = g[S \ {Max(S)}]
        BY <3>2
      <4> HIDE DEF h
      <4> QED BY <4>1, <4>2, <4>3
    <3> QED BY <3>1, <3>2
  <2>3. DOMAIN h = SUBSET (1..m) /\ h = [S \in SUBSET (1..m) |-> h[S]]
    OBVIOUS
  <2> HIDE DEF h
  <2>4. Tables(list, m, h)
    BY <2>2, <2>3 DEF Tables
  <2> QED BY <2>4
<1> HIDE DEF P
<1>3. n \in P
  <2>1. \A m \in 0..n : m \in P
    BY <1>1, <1>2, UpTo
  <2> QED BY <2>1
<1> QED BY <1>3 DEF P

LEMMA TableSteps ==
  ASSUME NEW list \in Seq(KeyValue)
  PROVE  \E tab : /\ tab[0] = NoPairs /\ query_to_lua_table(list) = tab[Len(list)]
                  /\ \A m \in 1..Len(list) : tab[m] = AddPair(tab[m - 1], list[m])
<1> DEFINE n == Len(list)
           g == CHOOSE u : Tables(list, n, u)
<1>0. n \in Nat /\ DOMAIN list = 1..n
  OBVIOUS
<1>1. query_to_lua_table(list) = g[1..n]
  BY <1>0 DEF query_to_lua_table, FoldLeft, MapThenFoldSet, Tables, NoPairs
<1>2. Tables(list, n, g)
  <2> HIDE DEF n
  <2> QED BY <1>0, TablesAre
<1> HIDE DEF g, n
<1>3. ASSUME NEW S \in SUBSET (1..n)
      PROVE  g[S] = IF S = {} THEN NoPairs ELSE AddPair(g[S \ {Max(S)}], list[Max(S)])
  BY <1>2 DEF Tables
<1> DEFINE tab == [m \in 0..n |-> g[1..m]]
<1>4. tab[0] = NoPairs
  <2>1. tab[0] = g[1..0] /\ 1..0 = {} /\ {} \in SUBSET (1..n)
    BY <1>0
  <2>2. g[{}] = NoPairs
    BY <1>3, <2>1
  <2> HIDE DEF tab
  <2> QED BY <2>1, <2>2
<1>5. ASSUME NEW m \in 1..n PROVE tab[m] = AddPair(tab[m - 1], list[m])
  <2>1. 1..m \in SUBSET (1..n) /\ 1..m # {} /\ m - 1 \in 0..n /\ m \in 0..n
    BY <1>0
  <2>2. Max(1..m) = m
    BY <1>0, MaxIs
  <2>3. (1..m) \ {m} = 1..(m - 1)
    BY <1>0
  <2> QED BY <1>3, <2>1, <2>2, <2>3
<1>6. tab[n] = g[1..n]
  BY <1>0
<1> HIDE DEF tab
<1> QED BY <1>1, <1>4, <1>5, <1>6 DEF n

\* What the table says of a key when the values found so far are vals.
Told(table, key, vals) ==
  /\ key \in DOMAIN table <=> vals # <<>>
  /\ key \in DOMAIN table => table[key] = [array |-> Len(vals) > 1, values |-> vals]

LEMMA Longer ==
  ASSUME NEW S, NEW v \in Seq(S), NEW x \in S
  PROVE  Append(v, x) # <<>> /\ Len(Append(v, x)) = Len(v) + 1
<1>1. Len(v) \in Nat /\ Len(Append(v, x)) = Len(v) + 1
  OBVIOUS
<1>2. Len(Append(v, x)) # 0 /\ Len(<<>>) = 0
  BY <1>1
<1> QED BY <1>1, <1>2

LEMMA AddTells ==
  ASSUME NEW table, NEW key, NEW vals \in Seq(Seq(Int)), NEW p \in KeyValue, p.k # <<>>,
         Told(table, key, vals)
  PROVE  Told(AddPair(table, p), key, IF p.k = key THEN Append(vals, p.v) ELSE vals)
<1> DEFINE new == AddPair(table, p)
<1>1. new = [k \in DOMAIN table \cup {p.k} |->
               IF k # p.k THEN table[k]
               ELSE IF k \notin DOMAIN table THEN Single(p.v)
               ELSE [array |-> TRUE, values |-> Append(table[k].values, p.v)]]
  BY DEF AddPair
<1> HIDE DEF new
<1>2. CASE p.k # key
  BY <1>1, <1>2 DEF Told, new
<1>3. CASE p.k = key
  <2>1. p.v \in Seq(Int) /\ key \in DOMAIN new
    BY <1>1, <1>3 DEF KeyValue
  <2>2. Append(vals, p.v) # <<>> /\ Len(Append(vals, p.v)) = Len(vals) + 1
    <3>1. p.v \in Seq(Int)
      BY <2>1
    <3> QED BY <3>1, Longer
  <2>3. CASE key \notin DOMAIN table
    <3>1. new[key] = Single(p.v)
      BY <1>1, <1>3, <2>3
    <3>2. vals = <<>>
      BY <2>3 DEF Told
    <3>3. Append(vals, p.v) = <<p.v>> /\ Len(Append(vals, p.v)) = 1
      BY <2>1, <3>2
    <3>4. (Len(Append(vals, p.v)) > 1) = FALSE
      BY <3>3
    <3>5. new[key] = [array |-> Len(Append(vals, p.v)) > 1, values |-> Append(vals, p.v)]
      BY <3>1, <3>3, <3>4, Zenon DEF Single
    <3> QED BY <1>3, <2>1, <2>2, <3>5, Zenon DEF Told, new
  <2>4. CASE key \in DOMAIN table
    <3>1. new[key] = [array |-> TRUE, values |-> Append(table[key].values, p.v)]
      BY <1>1, <1>3, <2>4
    <3>2. vals # <<>> /\ table[key].values = vals
      BY <2>4 DEF Told
    <3>3. (Len(Append(vals, p.v)) > 1) = TRUE
      BY <2>2, <3>2
    <3>4. new[key] = [array |-> Len(Append(vals, p.v)) > 1, values |-> Append(vals, p.v)]
      BY <3>1, <3>2, <3>3, Zenon
    <3> QED BY <1>3, <2>1, <2>2, <3>4, Zenon DEF Told, new
  <2> QED BY <2>3, <2>4
<1> QED BY <1>2, <1>3

\* Where the key stands among the first m pairs.
Among(list, key, m) == {i \in 1..m : list[i].k = key}

(* The table query_to_lua_table makes of pairs that have keys has each key once, all its     *)
(* values in their order, and an array of them when there is more than one                   *)
(* (lhttp_url.c:102-137).                                                                     *)
THEOREM TableHasAll ==
  ASSUME NEW list \in Seq(KeyValue), \A i \in 1..Len(list) : list[i].k # <<>>
  PROVE  LET table == query_to_lua_table(list) IN
         /\ DOMAIN table = {list[i].k : i \in DOMAIN list}
         /\ \A k \in DOMAIN table :
              /\ table[k].values = llquery_get_all_values(list, k, Len(list))
              /\ table[k].array = (Cardinality(Positions(list, k)) > 1)
<1> DEFINE n     == Len(list)
           table == query_to_lua_table(list)
<1>0. n \in Nat /\ DOMAIN list = 1..n /\ \A i \in 1..n : list[i] \in KeyValue
  BY PairsOf
<1>1. PICK tab : /\ tab[0] = NoPairs /\ table = tab[n]
                 /\ \A m \in 1..n : tab[m] = AddPair(tab[m - 1], list[m])
  BY TableSteps
<1> HIDE DEF table, n
<1>2. ASSUME NEW key
      PROVE  /\ key \in DOMAIN table <=> Positions(list, key) # {}
             /\ key \in DOMAIN table =>
                  /\ table[key].values = llquery_get_all_values(list, key, n)
                  /\ table[key].array = (Cardinality(Positions(list, key)) > 1)
  <2>0. PICK g \in [0..n -> Seq(Seq(Int))] :
           Adds(list, key, g) /\ llquery_get_all_values(list, key, n) = g[n]
    BY ValuesSteps DEF n
  <2>1. /\ g[0] = <<>> /\ llquery_get_all_values(list, key, n) = g[n]
        /\ \A m \in 1..n : g[m] = IF list[m].k = key THEN Append(g[m - 1], list[m].v) ELSE g[m - 1]
    BY <2>0 DEF Adds, n
  <2> DEFINE P == {m \in 0..n : /\ Told(tab[m], key, g[m])
                                /\ IsFiniteSet(Among(list, key, m))
                                /\ Cardinality(Among(list, key, m)) = Len(g[m])}
  <2>2. 0 \in P
    <3>1. Among(list, key, 0) = {}
      BY DEF Among
    <3>2. Told(tab[0], key, g[0])
      BY <1>1, <2>1 DEF Told, NoPairs
    <3>3. IsFiniteSet(Among(list, key, 0)) /\ Cardinality(Among(list, key, 0)) = Len(g[0])
      <4>1. Len(g[0]) = 0
        BY <2>1
      <4> QED BY <3>1, <4>1, FS_EmptySet
    <3> QED BY <1>0, <3>2, <3>3
  <2>3. ASSUME NEW m \in 1..n, m - 1 \in P PROVE m \in P
    <3>1. /\ m - 1 \in 0..n /\ m \in 0..n /\ g[m - 1] \in Seq(Seq(Int))
          /\ list[m] \in KeyValue /\ list[m].k # <<>> /\ list[m].v \in Seq(Int)
      BY <1>0, PairsOf DEF n
    <3>2. Told(tab[m], key, g[m])
      <4>1. Told(tab[m - 1], key, g[m - 1])
        BY <2>3
      <4>2. tab[m] = AddPair(tab[m - 1], list[m])
        BY <1>1
      <4>3. g[m] = IF list[m].k = key THEN Append(g[m - 1], list[m].v) ELSE g[m - 1]
        BY <2>1
      <4> QED BY <3>1, <4>1, <4>2, <4>3, AddTells
    <3>3. CASE list[m].k = key
      <4>1. Among(list, key, m) = Among(list, key, m - 1) \cup {m} /\ m \notin Among(list, key, m - 1)
        BY <1>0, <3>3 DEF Among
      <4>2. /\ IsFiniteSet(Among(list, key, m))
            /\ Cardinality(Among(list, key, m)) = Cardinality(Among(list, key, m - 1)) + 1
        <5>1. IsFiniteSet(Among(list, key, m - 1))
          BY <2>3
        <5> DEFINE B == Among(list, key, m - 1)
        <5> HIDE DEF P, B
        <5>2. /\ IsFiniteSet(B \cup {m})
              /\ Cardinality(B \cup {m}) = IF m \in B THEN Cardinality(B) ELSE Cardinality(B) + 1
          <6>1. IsFiniteSet(B)
            BY <5>1 DEF B
          <6> QED BY <6>1, FS_AddElement
        <5>3. m \notin B /\ Among(list, key, m) = B \cup {m}
          BY <4>1 DEF B
        <5> QED BY <5>2, <5>3, Zenon DEF B
      <4>3. Len(g[m]) = Len(g[m - 1]) + 1
        <5>1. g[m] = Append(g[m - 1], list[m].v)
          BY <2>1, <3>3
        <5> HIDE DEF P
        <5> QED BY <3>1, <5>1
      <4> QED BY <2>3, <3>1, <3>2, <4>2, <4>3
    <3>4. CASE list[m].k # key
      <4>1. Among(list, key, m) = Among(list, key, m - 1)
        BY <1>0, <3>4 DEF Among
      <4>2. g[m] = g[m - 1]
        BY <2>1, <3>4
      <4> QED BY <2>3, <3>1, <3>2, <4>1, <4>2
    <3> QED BY <3>3, <3>4
  <2>4. n \in P
    <3> HIDE DEF P
    <3>1. \A m \in 0..n : m \in P
      BY <1>0, <2>2, <2>3, UpTo
    <3> QED BY <1>0, <3>1
  <2>5. Positions(list, key) = Among(list, key, n)
    BY <1>0 DEF Positions, Among
  <2>6. g[n] \in Seq(Seq(Int))
    BY <1>0
  <2>7. Cardinality(Positions(list, key)) = Len(g[n]) /\ IsFiniteSet(Positions(list, key))
        /\ Told(table, key, g[n])
    BY <1>1, <2>4, <2>5
  <2>8. Positions(list, key) # {} <=> g[n] # <<>>
    <3>1. Len(g[n]) = 0 <=> g[n] = <<>>
      BY <2>6
    <3> QED BY <2>7, <3>1, FS_EmptySet
  <2> QED BY <2>1, <2>7, <2>8 DEF Told
<1>3. DOMAIN table = {list[i].k : i \in DOMAIN list}
  <2>1. \A key : key \in DOMAIN table <=> \E i \in DOMAIN list : list[i].k = key
    BY <1>2 DEF Positions
  <2>2. \A key : key \in DOMAIN table <=> key \in {list[i].k : i \in DOMAIN list}
    BY <2>1
  <2> QED BY <2>2, Zenon
<1> QED BY <1>2, <1>3 DEF table, n

-----------------------------------------------------------------------------
(* The pairs of an object have keys. *)

\* The slots with a key: filter leaves empty slots behind those it has moved up, parse and
\* clone have not come to all of them.
KeySlots(x) ==
  IF me = x /\ pc \in {"pair", "clone_key"} THEN 1..index
  ELSE IF me = x /\ pc \in {"value", "clone_value"} THEN 1..(index + 1)
  ELSE IF me = x /\ pc = "filter" THEN (1..write) \cup ((index + 1)..q[x].count)
  ELSE 1..q[x].count

Keyed(y, S) == \A i \in S : y.pairs[i].k # <<>>

KeyInv == \A x \in Queries : Keyed(q[x], KeySlots(x))

\* A step of the call for x leaves the other objects as they are.
LEMMA KeysKept ==
  ASSUME KeyInv, NEW x \in Queries, NEW v,
         q'[x] = v, \A y \in Queries : y # x => q'[y] = q[y],
         pc = "idle" \/ me = x, pc' = "idle" \/ me' = x,
         Keyed(v, KeySlots(x)')
  PROVE  KeyInv'
<1>1. ASSUME NEW y \in Queries, y # x PROVE Keyed(q'[y], KeySlots(y)')
  <2>1. KeySlots(y) = 1..q[y].count /\ KeySlots(y)' = 1..q'[y].count
    BY <1>1 DEF KeySlots
  <2> QED BY <1>1, <2>1 DEF KeyInv
<1> QED BY <1>1 DEF KeyInv, Keyed

LEMMA Put ==
  ASSUME TypeInv, NEW x \in Queries, NEW v, Update(x, v)
  PROVE  q'[x] = v /\ \A y \in Queries : y # x => q'[y] = q[y]
BY DEF TypeInv, Types, Update

\* A call ends, or goes to a step that finds all slots in use: all have keys.
LEMMA AllKept ==
  ASSUME TypeInv, KeyInv, NEW x \in Queries, NEW v, Update(x, v),
         pc = "idle" \/ me = x,
         pc' = "idle" \/ (me' = x /\ pc' \notin {"pair", "value", "filter", "clone_key", "clone_value"}),
         Keyed(v, 1..v.count)
  PROVE  KeyInv'
<1>1. q'[x] = v /\ \A y \in Queries : y # x => q'[y] = q[y]
  BY Put
<1>2. KeySlots(x)' = 1..v.count
  BY <1>1 DEF KeySlots
<1> QED BY <1>1, <1>2, KeysKept

LEMMA NoneKept ==
  ASSUME TypeInv, KeyInv, NEW x \in Queries, UNCHANGED q,
         pc = "idle" \/ me = x, pc' = "idle" \/ me' = x,
         Keyed(q[x], KeySlots(x)')
  PROVE  KeyInv'
BY KeysKept

LEMMA EndKept ==
  ASSUME TypeInv, KeyInv, NEW x \in Queries, UNCHANGED q,
         pc = "idle" \/ me = x, pc' = "idle", Keyed(q[x], 1..q[x].count)
  PROVE  KeyInv'
<1>1. KeySlots(x)' = 1..q[x].count
  BY DEF KeySlots
<1> QED BY <1>1, NoneKept

\* What begins with an object that has no pairs.
LEMMA EmptyKeyed ==
  ASSUME NEW y, y.count = 0
  PROVE  Keyed(y, 1..y.count)
BY DEF Keyed

LEMMA ZeroKeyed == Keyed(Zero, 1..Zero.count)
BY EmptyKeyed DEF Zero

LEMMA NewObjectKeys ==
  ASSUME TypeInv, KeyInv, NEW x \in Queries, NEW from, NEW a, NEW max, NEW flags,
         pc = "idle", NewObject(x, from, a, max, flags)
  PROVE  KeyInv'
<1>1. CASE Update(x, Zero) /\ Ends("MEMORY_ERROR")
  BY <1>1, ZeroKeyed, AllKept DEF Ends
<1>2. ASSUME NEW b, Update(x, [Zero EXCEPT !.alloc = a, !.internal = b, !.max = max, !.flags = flags]),
             pc' = "init_pairs", me' = x
      PROVE  KeyInv'
  <2> DEFINE v == [Zero EXCEPT !.alloc = a, !.internal = b, !.max = max, !.flags = flags]
  <2>1. v.count = 0
    BY DEF Zero
  <2> HIDE DEF v
  <2> QED BY <1>2, <2>1, EmptyKeyed, AllKept DEF v
<1> QED BY <1>1, <1>2 DEF NewObject, Goes

LEMMA ParseKeys ==
  ASSUME TypeInv, KeyInv, NEW x \in Queries, NEW t \in Texts, NEW size, llquery_parse_ex(x, t, size)
  PROVE  KeyInv'
<1> DEFINE r == ResetObject(q[x])
           c == [r EXCEPT !.decode_buffer = Caller]
<1>1. pc = "idle" /\ q[x].up
  BY DEF llquery_parse_ex, Begins
<1>2. \/ UNCHANGED q /\ pc' = "idle"
      \/ (Update(x, r) \/ Update(x, c)) /\ (pc' = "idle" \/ (pc' \in {"pool", "decode"} /\ me' = x))
  BY DEF llquery_parse_ex, Ends, Goes
<1>3. r.count = 0 /\ c.count = 0
  BY DEF ResetObject
<1> HIDE DEF r, c
<1>4. CASE UNCHANGED q /\ pc' = "idle"
  BY <1>1, <1>4, NoneKept DEF KeySlots, KeyInv
<1>5. CASE /\ Update(x, r) \/ Update(x, c)
           /\ pc' = "idle" \/ (pc' \in {"pool", "decode"} /\ me' = x)
  BY <1>1, <1>3, <1>5, EmptyKeyed, AllKept
<1> QED BY <1>2, <1>4, <1>5

LEMMA CallKeys ==
  ASSUME TypeInv, KeyInv, Call
  PROVE  KeyInv'
<1>0. ASSUME NEW x \in Queries, pc = "idle" PROVE Keyed(q[x], 1..q[x].count)
  BY <1>0 DEF KeyInv, KeySlots
<1>1. ASSUME NEW x \in Queries,
             \/ \E a \in Allocators, n \in Limits, f \in FlagSets : llquery_init_ex(x, a, n, f)
             \/ \E y \in Queries : llquery_clone(x, y)
      PROVE  KeyInv'
  BY <1>1, NewObjectKeys DEF llquery_init_ex, llquery_clone, Begins
<1>2. ASSUME NEW x \in Queries, \E t \in Texts, n \in BufferSizes : llquery_parse_ex(x, t, n)
      PROVE  KeyInv'
  BY <1>2, ParseKeys
<1>3. ASSUME NEW x \in Queries, llquery_reset(x) PROVE KeyInv'
  <2>1. pc = "idle" /\ Update(x, ResetObject(q[x])) /\ pc' = "idle"
    BY <1>3 DEF llquery_reset, Begins, Ends
  <2>2. ResetObject(q[x]).count = 0
    BY DEF ResetObject
  <2> QED BY <2>1, <2>2, EmptyKeyed, AllKept
<1>4. ASSUME NEW x \in Queries, llquery_free(x) PROVE KeyInv'
  BY <1>4, ZeroKeyed, AllKept DEF llquery_free, Begins, Ends, Discard
<1>5. ASSUME NEW x \in Queries, llquery_filter(x) PROVE KeyInv'
  <2>1. /\ pc = "idle" /\ UNCHANGED q /\ pc' = "filter" /\ me' = x /\ index' = 0 /\ write' = 0
    BY <1>5 DEF llquery_filter, Begins, Goes
  <2>2. q[x].count \in Nat
    BY DEF TypeInv, Types, Object
  <2>3. KeySlots(x)' = 1..q[x].count
    BY <2>1, <2>2 DEF KeySlots
  <2> QED BY <1>0, <2>1, <2>3, NoneKept
<1>6. ASSUME NEW x \in Queries, \E by \in BOOLEAN : llquery_sort(x, by) PROVE KeyInv'
  <2>1. pc = "idle" /\ UNCHANGED q /\ pc' \in {"sort", "sort_by"} /\ me' = x
    BY <1>6 DEF llquery_sort, Begins, Goes
  <2>2. KeySlots(x)' = 1..q[x].count
    BY <2>1 DEF KeySlots
  <2> QED BY <1>0, <2>1, <2>2, NoneKept
<1>7. ASSUME NEW x \in Queries, NEW a \in Allocators, llquery_set_allocator(x, a) PROVE KeyInv'
  <2>1. /\ pc = "idle" /\ pc' = "idle"
        /\ \/ Update(x, [q[x] EXCEPT !.alloc = a])
           \/ \E b \in Blocks : Update(x, [q[x] EXCEPT !.alloc = a, !.kv_pairs = b])
    BY <1>7 DEF llquery_set_allocator, Begins, Ends
  <2>2. ASSUME NEW v, Update(x, v), v.pairs = q[x].pairs, v.count = q[x].count PROVE KeyInv'
    <3>1. Keyed(v, 1..v.count)
      BY <1>0, <2>1, <2>2 DEF Keyed
    <3> QED BY <2>1, <2>2, <3>1, AllKept
  <2>3. q[x] \in Object
    BY DEF TypeInv, Types
  <2>4. CASE Update(x, [q[x] EXCEPT !.alloc = a])
    <3> DEFINE v == [q[x] EXCEPT !.alloc = a]
    <3>1. v.pairs = q[x].pairs /\ v.count = q[x].count
      BY <2>3 DEF Object
    <3> HIDE DEF v
    <3> QED BY <2>2, <2>4, <3>1 DEF v
  <2>5. ASSUME NEW b, Update(x, [q[x] EXCEPT !.alloc = a, !.kv_pairs = b]) PROVE KeyInv'
    <3> DEFINE v == [q[x] EXCEPT !.alloc = a, !.kv_pairs = b]
    <3>1. v.pairs = q[x].pairs /\ v.count = q[x].count
      BY <2>3 DEF Object
    <3> HIDE DEF v
    <3> QED BY <2>2, <2>5, <3>1 DEF v
  <2> QED BY <2>1, <2>4, <2>5
<1> QED BY <1>1, <1>2, <1>3, <1>4, <1>5, <1>6, <1>7 DEF Call

\* A new object has no pairs; a copy has none yet.
LEMMA InitPairsKeys == ASSUME TypeInv, KeyInv, InitPairs PROVE KeyInv'
<1>1. me \in Queries /\ index = 0
  BY PairsEffect
<1>2. CASE Update(me, Zero) /\ Ends("MEMORY_ERROR")
  BY <1>1, <1>2, ZeroKeyed, AllKept DEF Ends
<1>3. ASSUME NEW b, NEW v, PairsMade(b, v) PROVE KeyInv'
  <2>1. CASE other = me
    <3>1. Update(me, v) /\ v.count = 0 /\ (Ends("OK") \/ other # me)
      BY <1>3, <2>1 DEF PairsMade
    <3> QED BY <1>1, <2>1, <3>1, EmptyKeyed, AllKept DEF Ends
  <2>2. CASE other # me
    <3>1. Update(me, v) /\ pc' = "clone_key" /\ UNCHANGED locals
      BY <1>3, <2>2 DEF PairsMade
    <3>2. me' = me /\ index' = 0
      BY <1>1, <3>1 DEF locals
    <3>3. KeySlots(me)' = {}
      BY <3>1, <3>2 DEF KeySlots
    <3>4. Keyed(v, KeySlots(me)')
      BY <3>3 DEF Keyed
    <3> QED BY <1>1, <3>1, <3>2, <3>4, Put, KeysKept
  <2> QED BY <2>1, <2>2
<1> QED BY <1>2, <1>3, PairsEffect

\* Before the first pair there are none.
LEMMA PoolKeys ==
  ASSUME TypeInv, KeyInv, DecodeBuffer \/ StringPool
  PROVE  KeyInv'
<1>1. /\ me \in Queries /\ q[me] \in Object /\ q[me].count = 0 /\ index = 0
      /\ pc \in {"decode", "pool"}
  BY DEF DecodeBuffer, StringPool, TypeInv, Types, Control, Parses
<1>2. CASE DecodeBuffer
  <2>1. \/ UNCHANGED q /\ pc' = "idle"
        \/ \E b \in Blocks : Update(me, [q[me] EXCEPT !.decode_buffer = b])
                             /\ pc' = "pool" /\ me' = me
    BY <1>2 DEF DecodeBuffer, Ends, Goes
  <2>2. CASE UNCHANGED q /\ pc' = "idle"
    <3>1. Keyed(q[me], 1..q[me].count)
      BY <1>1, EmptyKeyed
    <3> QED BY <1>1, <2>2, <3>1, EndKept
  <2>3. ASSUME NEW b, Update(me, [q[me] EXCEPT !.decode_buffer = b]), pc' = "pool", me' = me
        PROVE  KeyInv'
    <3> DEFINE v == [q[me] EXCEPT !.decode_buffer = b]
    <3>1. v.count = 0
      BY <1>1 DEF Object
    <3> HIDE DEF v
    <3> QED BY <1>1, <2>3, <3>1, EmptyKeyed, AllKept DEF v
  <2> QED BY <2>1, <2>2, <2>3
<1>3. CASE StringPool
  <2>1. pc' = "pair" /\ me' = me /\ index' = 0
    BY <1>1, <1>3 DEF StringPool, Goes, locals
  <2>2. UNCHANGED q \/ \E v : Update(me, v)
    BY <1>3 DEF StringPool
  <2>3. KeySlots(me)' = {}
    BY <2>1 DEF KeySlots
  <2>4. ASSUME NEW v PROVE Keyed(v, KeySlots(me)')
    BY <2>3 DEF Keyed
  <2>5. CASE UNCHANGED q
    BY <1>1, <2>1, <2>4, <2>5, NoneKept
  <2>6. CASE \E v : Update(me, v)
    BY <1>1, <2>1, <2>4, <2>6, Put, KeysKept
  <2> QED BY <2>2, <2>5, <2>6
<1> QED BY <1>2, <1>3

\* A parse that ends keeps the pairs before index.
LEMMA StopKeys ==
  ASSUME TypeInv, KeyInv, pc \in {"pair", "value"}, NEW err, StopParsing(err)
  PROVE  KeyInv'
<1> DEFINE v == [q[me] EXCEPT !.count = index]
<1>1. me \in Queries /\ q[me] \in Object /\ Fits(q[me]) /\ index \in Nat /\ index <= Len(q[me].pairs)
  BY AtTurn
<1>2. v.pairs = q[me].pairs /\ v.count = index
  BY <1>1, CountSet
<1>3. Update(me, v) /\ pc' = "idle"
  BY DEF StopParsing, Ends
<1> HIDE DEF v
<1>4. 1..index \subseteq KeySlots(me)
  BY <1>1 DEF KeySlots
<1>5. Keyed(v, 1..v.count)
  BY <1>1, <1>2, <1>4 DEF KeyInv, Keyed
<1> QED BY <1>1, <1>3, <1>5, AllKept

LEMMA PairKeys ==
  ASSUME TypeInv, KeyInv, SkipPair \/ ParseEnd
  PROVE  KeyInv'
<1>1. pc = "pair" /\ me \in Queries
  BY AtTurn DEF SkipPair, ParseEnd
<1>2. CASE SkipPair
  <2>1. UNCHANGED <<q, me, index, pc>>
    BY <1>1, <1>2 DEF SkipPair, Goes
  <2>2. KeySlots(me)' = KeySlots(me)
    BY <1>1, <2>1 DEF KeySlots
  <2>3. Keyed(q[me], KeySlots(me)')
    BY <1>1, <2>2 DEF KeyInv
  <2> QED BY <1>1, <2>1, <2>3, NoneKept
<1>3. CASE ParseEnd
  BY <1>1, <1>3, StopKeys DEF ParseEnd
<1> QED BY <1>2, <1>3

\* The loop passes over pairs without a key.
LEMMA ParseKeyKeys == ASSUME TypeInv, KeyInv, ParseKey PROVE KeyInv'
<1>1. /\ pc = "pair" /\ AtPair /\ me \in Queries /\ q[me] \in Object /\ index \in Nat
      /\ index + 1 \in 1..Len(q[me].pairs) /\ q[me].pairs \in Seq(Pair)
  <2>1. pc = "pair" /\ AtPair /\ index < q[me].max
    BY DEF ParseKey, AtPair, MorePairs
  <2> QED BY <2>1, AtTurn DEF Object
<1>2. ASSUME NEW v, NEW s, KeyTaken(v, s) PROVE KeyInv'
  <2>1. /\ v.pairs = [q[me].pairs EXCEPT ![index + 1] = s] /\ s.k # <<>>
        /\ Update(me, v) /\ pc' = "value" /\ me' = me /\ index' = index
    BY <1>1, <1>2 DEF KeyTaken, AtPair
  <2>2. KeySlots(me) = 1..index /\ KeySlots(me)' = 1..(index + 1)
    BY <1>1, <2>1 DEF KeySlots
  <2>3. Keyed(v, 1..(index + 1))
    <3>1. ASSUME NEW i \in 1..(index + 1) PROVE v.pairs[i].k # <<>>
      <4>1. i = index + 1 \/ i \in 1..index
        BY <1>1
      <4>2. i \in 1..index => q[me].pairs[i].k # <<>>
        BY <1>1, <2>2 DEF KeyInv, Keyed
      <4> QED BY <1>1, <2>1, <4>1, <4>2
    <3> QED BY <3>1 DEF Keyed
  <2> QED BY <1>1, <2>1, <2>2, <2>3, Put, KeysKept
<1> QED BY <1>1, <1>2, KeyEffect, StopKeys

\* A key in lower case is as long.
LEMMA ParseValueKeys == ASSUME TypeInv, KeyInv, ParseValue PROVE KeyInv'
<1>1. /\ pc = "value" /\ me \in Queries /\ q[me] \in Object /\ index \in Nat
      /\ index + 1 \in 1..Len(q[me].pairs) /\ q[me].pairs \in Seq(Pair)
  <2>1. pc = "value"
    BY DEF ParseValue
  <2> QED BY <2>1, AtTurn DEF Object
<1>2. ASSUME NEW v, NEW s, NEW keep \in BOOLEAN, ValueTaken(v, s, keep) PROVE KeyInv'
  <2>1. /\ v.pairs = [q[me].pairs EXCEPT ![index + 1] = s] /\ s \in Pair
        /\ Len(s.k) = Len(q[me].pairs[index + 1].k)
        /\ Update(me, v) /\ pc' = "pair" /\ me' = me
        /\ index' = IF keep THEN index + 1 ELSE index
    BY <1>2 DEF ValueTaken
  <2>2. KeySlots(me) = 1..(index + 1)
    BY <1>1 DEF KeySlots
  <2>3. KeySlots(me)' \subseteq 1..(index + 1)
    BY <1>1, <2>1 DEF KeySlots
  <2>4. s.k # <<>>
    <3>1. q[me].pairs[index + 1] \in Pair /\ q[me].pairs[index + 1].k # <<>>
      BY <1>1, <2>2 DEF KeyInv, Keyed
    <3>2. q[me].pairs[index + 1].k \in Seq(Int) /\ s.k \in Seq(Int)
      BY <2>1, <3>1 DEF Pair
    <3> QED BY <2>1, <3>1, <3>2
  <2>5. ASSUME NEW i \in 1..(index + 1) PROVE v.pairs[i].k # <<>>
    <3>1. q[me].pairs[i].k # <<>>
      BY <1>1, <2>2 DEF KeyInv, Keyed
    <3> QED BY <1>1, <2>1, <2>4, <3>1
  <2>6. Keyed(v, KeySlots(me)')
    BY <2>3, <2>5 DEF Keyed
  <2> QED BY <1>1, <2>1, <2>6, Put, KeysKept
<1> QED BY <1>1, <1>2, ValueEffect, StopKeys

\* Filter moves pairs with keys up to the first empty slot.
LEMMA FilterKeys ==
  ASSUME TypeInv, KeyInv, NEW keep \in BOOLEAN, FilterPair(keep)
  PROVE  KeyInv'
<1>1. /\ pc = "filter" /\ index < q[me].count /\ pc' = "filter" /\ index' = index + 1 /\ me' = me
      /\ me \in Queries /\ index \in Nat /\ write \in Nat /\ write <= index
      /\ q[me].count \in Nat /\ q[me].count <= Len(q[me].pairs) /\ Len(q[me].pairs) \in Nat
  <2>1. /\ pc = "filter" /\ index < q[me].count /\ pc' = "filter" /\ index' = index + 1 /\ me' = me
    BY FilterEffect
  <2>2. write <= index
    BY <2>1 DEF TypeInv, Control, Filters
  <2> QED BY <2>1, <2>2, AtWalk DEF Walking
<1>2. KeySlots(me) = (1..write) \cup ((index + 1)..q[me].count)
  BY <1>1 DEF KeySlots
<1>3. \A i \in 1..write : q[me].pairs[i].k # <<>>
  BY <1>1, <1>2 DEF KeyInv, Keyed
<1>4. \A i \in (index + 1)..q[me].count : q[me].pairs[i].k # <<>>
  BY <1>1, <1>2 DEF KeyInv, Keyed
<1>5. ASSUME NEW v, Update(me, v), v.count = q[me].count,
             Keyed(v, (1..write') \cup ((index + 2)..q[me].count))
      PROVE  KeyInv'
  <2>1. q'[me] = v
    BY <1>1, <1>5, Put
  <2>2. KeySlots(me)' = (1..write') \cup ((index + 2)..q[me].count)
    BY <1>1, <1>5, <2>1 DEF KeySlots
  <2> QED BY <1>1, <1>5, <2>2, Put, KeysKept
<1>6. ASSUME NEW v, Moved(v), Update(me, v) PROVE KeyInv'
  <2>1. /\ v.count = q[me].count /\ write' = write + 1
        /\ \A i \in 1..Len(q[me].pairs) :
             v.pairs[i] = IF i = write + 1 THEN q[me].pairs[index + 1]
                          ELSE IF i = index + 1 THEN EmptyPair ELSE q[me].pairs[i]
    BY <1>6 DEF Moved
  <2>2. ASSUME NEW i \in (1..(write + 1)) \cup ((index + 2)..q[me].count)
        PROVE  v.pairs[i].k # <<>>
    <3>1. CASE i = write + 1
      <4>1. v.pairs[i] = q[me].pairs[index + 1] /\ index + 1 \in (index + 1)..q[me].count
        BY <1>1, <2>1, <3>1
      <4> QED BY <1>4, <4>1
    <3>2. CASE i # write + 1
      <4>1. i # index + 1 /\ i \in 1..Len(q[me].pairs)
            /\ (i \in 1..write \/ i \in (index + 1)..q[me].count)
        BY <1>1, <3>2
      <4>2. v.pairs[i] = q[me].pairs[i]
        BY <2>1, <3>2, <4>1
      <4> QED BY <1>3, <1>4, <4>1, <4>2
    <3> QED BY <3>1, <3>2
  <2>3. Keyed(v, (1..write') \cup ((index + 2)..q[me].count))
    BY <2>1, <2>2 DEF Keyed
  <2> QED BY <1>5, <1>6, <2>1, <2>3
<1>7. ASSUME NEW v, Dropped(v), Update(me, v) PROVE KeyInv'
  <2>1. /\ v.count = q[me].count /\ write' = write
        /\ \A i \in 1..Len(q[me].pairs) :
             v.pairs[i] = IF i = index + 1 THEN EmptyPair ELSE q[me].pairs[i]
    BY <1>7 DEF Dropped
  <2>2. ASSUME NEW i \in (1..write) \cup ((index + 2)..q[me].count)
        PROVE  v.pairs[i].k # <<>>
    <3>1. i # index + 1 /\ i \in 1..Len(q[me].pairs)
          /\ (i \in 1..write \/ i \in (index + 1)..q[me].count)
      BY <1>1
    <3>2. v.pairs[i] = q[me].pairs[i]
      BY <2>1, <3>1
    <3> QED BY <1>3, <1>4, <3>1, <3>2
  <2>3. Keyed(v, (1..write') \cup ((index + 2)..q[me].count))
    BY <2>1, <2>2 DEF Keyed
  <2> QED BY <1>5, <1>7, <2>1, <2>3
<1> QED BY <1>6, <1>7, FilterEffect

LEMMA FilterEndKeys == ASSUME TypeInv, KeyInv, FilterEnd PROVE KeyInv'
<1> DEFINE x  == q[me]
           ps == Cleared(x.pairs, (write + 1)..x.count)
           v  == [x EXCEPT !.count = write, !.pairs = ps]
<1>1. pc = "filter" /\ index = x.count /\ Update(me, v) /\ pc' = "idle"
  BY DEF FilterEnd, Ends
<1>2. /\ x \in Object /\ Fits(x) /\ x.pairs \in Seq(Pair) /\ me \in Queries
      /\ write \in Nat /\ write <= Len(x.pairs) /\ Len(x.pairs) \in Nat
  BY <1>1, AtWalk DEF Walking
<1>3. ps \in Seq(Pair) /\ Len(ps) = Len(x.pairs) /\ \A i \in 1..write : ps[i] = x.pairs[i]
  <2>1. /\ ps \in Seq(Pair) /\ Len(ps) = Len(x.pairs)
        /\ \A i \in 1..Len(x.pairs) : ps[i] = IF i \in (write + 1)..x.count THEN EmptyPair ELSE x.pairs[i]
    <3> DEFINE S == (write + 1)..x.count
               old == x.pairs
    <3> HIDE DEF x, S
    <3>1. old \in Seq(Pair)
      BY <1>2
    <3> HIDE DEF old
    <3>2. /\ Cleared(old, S) \in Seq(Pair) /\ Len(Cleared(old, S)) = Len(old)
          /\ \A i \in 1..Len(old) : Cleared(old, S)[i] = IF i \in S THEN EmptyPair ELSE old[i]
      BY <3>1, ClearedSlots
    <3> QED BY <3>2 DEF S, old
  <2> HIDE DEF ps, x
  <2> QED BY <1>2, <2>1
<1> HIDE DEF ps
<1>4. v.pairs = ps /\ v.count = write
  <2> HIDE DEF x
  <2> QED BY <1>2 DEF Object
<1>5. \A i \in 1..write : x.pairs[i].k # <<>>
  BY <1>1, <1>2 DEF KeyInv, Keyed, KeySlots
<1> HIDE DEF v, x
<1>6. Keyed(v, 1..v.count)
  BY <1>3, <1>4, <1>5 DEF Keyed
<1> QED BY <1>1, <1>2, <1>6, AllKept

LEMMA SortKeys ==
  ASSUME TypeInv, KeyInv, SortPair \/ SortRound \/ SortEnd
  PROVE  KeyInv'
<1>1. /\ pc \in {"sort", "sort_by"} /\ me \in Queries /\ index \in Nat /\ write \in Nat
      /\ q[me].count \in Nat /\ q[me].count <= Len(q[me].pairs) /\ Len(q[me].pairs) \in Nat
  <2>1. pc \in {"sort", "sort_by"}
    BY DEF SortPair, SortRound, SortEnd
  <2> QED BY <2>1, AtWalk DEF Walking
<1>2. Keyed(q[me], 1..q[me].count)
  BY <1>1 DEF KeyInv, KeySlots
<1>3. CASE SortPair
  <2>1. /\ index < ThisRound /\ UNCHANGED <<pc, me>>
        /\ (\E v : Swapped(v) /\ Update(me, v)) \/ UNCHANGED q
    BY <1>3, SortEffect
  <2>2. ASSUME NEW v, Swapped(v), Update(me, v) PROVE KeyInv'
    <3>1. /\ v.count = q[me].count
          /\ \A i \in 1..Len(q[me].pairs) :
               v.pairs[i] = IF i = index + 1 THEN q[me].pairs[index + 2]
                            ELSE IF i = index + 2 THEN q[me].pairs[index + 1] ELSE q[me].pairs[i]
      BY <2>2 DEF Swapped
    <3>2. index + 1 \in 1..q[me].count /\ index + 2 \in 1..q[me].count
      BY <1>1, <2>1 DEF ThisRound
    <3>3. ASSUME NEW i \in 1..q[me].count PROVE v.pairs[i].k # <<>>
      <4>1. i \in 1..Len(q[me].pairs)
        BY <1>1
      <4>2. \E j \in 1..q[me].count : v.pairs[i] = q[me].pairs[j]
        BY <3>1, <3>2, <4>1
      <4> QED BY <1>2, <4>2 DEF Keyed
    <3>4. Keyed(v, 1..v.count)
      BY <3>1, <3>3 DEF Keyed
    <3> QED BY <1>1, <2>1, <2>2, <3>4, AllKept
  <2>3. CASE UNCHANGED q
    BY <1>1, <2>1, <2>3 DEF KeyInv, KeySlots, Keyed
  <2> QED BY <2>1, <2>2, <2>3
<1>4. CASE SortRound
  BY <1>1, <1>4 DEF SortRound, KeyInv, KeySlots, Keyed
<1>5. CASE SortEnd
  BY <1>1, <1>2, <1>5, EndKept DEF SortEnd, Ends
<1> QED BY <1>3, <1>4, <1>5

\* What clone copies had keys, and the slots before it still have.
LEMMA CopyKeys ==
  ASSUME TypeInv, KeyInv, pc \in {"clone_key", "clone_value"}, index < q[me].count,
         NEW v, NEW s, NEW b, Copied(v, s, b), s.k # <<>>,
         \/ pc = "clone_key" /\ pc' = "clone_value" /\ index' = index
         \/ pc = "clone_value" /\ pc' = "clone_key" /\ index' = index + 1
  PROVE  KeyInv'
<1>1. /\ me \in Queries /\ index \in Nat /\ index + 1 \in 1..Len(q[me].pairs)
      /\ q[me].pairs \in Seq(Pair)
  BY AtCopy DEF Object
<1>2. /\ v.pairs = [q[me].pairs EXCEPT ![index + 1] = s] /\ Update(me, v) /\ me' = me
  BY DEF Copied
<1>3. 1..index \subseteq KeySlots(me) /\ KeySlots(me)' = 1..(index + 1)
  BY <1>1, <1>2 DEF KeySlots
<1>4. ASSUME NEW i \in 1..(index + 1) PROVE v.pairs[i].k # <<>>
  <2>1. i = index + 1 \/ i \in 1..index
    BY <1>1
  <2>2. i \in 1..index => q[me].pairs[i].k # <<>>
    BY <1>1, <1>3 DEF KeyInv, Keyed
  <2> QED BY <1>1, <1>2, <2>1, <2>2
<1>5. Keyed(v, KeySlots(me)')
  BY <1>3, <1>4 DEF Keyed
<1> QED BY <1>1, <1>2, <1>5, Put, KeysKept

LEMMA CloneKeys ==
  ASSUME TypeInv, KeyInv, CloneKey \/ CloneValue \/ CloneBuffer
  PROVE  KeyInv'
<1>1. /\ pc \in {"clone_key", "clone_value"} /\ me \in Queries /\ other \in Queries /\ other # me
      /\ q[me].count = q[other].count /\ q[me].count \in Nat /\ index \in Nat /\ q[me] \in Object
  <2>1. pc \in {"clone_key", "clone_value"}
    BY DEF CloneKey, CloneValue, CloneBuffer
  <2> QED BY <2>1, AtCopy
<1>2. CASE CloneFails
  BY <1>1, <1>2, ZeroKeyed, AllKept DEF CloneFails, Discard, Ends
<1>3. ASSUME pc = "clone_key", index < q[me].count, NEW v, NEW s, KeyCopied(v, s) PROVE KeyInv'
  <2>1. KeySlots(other) = 1..q[me].count /\ index + 1 \in 1..q[me].count
    BY <1>1, <1>3 DEF KeySlots
  <2>2. s.k # <<>>
    BY <1>1, <1>3, <2>1 DEF KeyCopied, KeyInv, Keyed
  <2> QED BY <1>3, <2>2, CopyKeys DEF KeyCopied
<1>4. ASSUME pc = "clone_value", index < q[me].count, NEW v, NEW s, ValueCopied(v, s) PROVE KeyInv'
  <2>1. index + 1 \in KeySlots(me)
    BY <1>1, <1>4 DEF KeySlots
  <2>2. s.k # <<>>
    BY <1>1, <1>4, <2>1 DEF ValueCopied, KeyInv, Keyed
  <2> QED BY <1>4, <2>2, CopyKeys DEF ValueCopied
<1>5. ASSUME pc = "clone_key", index = q[me].count PROVE Keyed(q[me], 1..q[me].count)
  BY <1>1, <1>5 DEF KeyInv, KeySlots
<1>6. ASSUME pc = "clone_key", index = q[me].count, UNCHANGED q, Ends("OK") PROVE KeyInv'
  BY <1>1, <1>5, <1>6, EndKept DEF Ends
<1>7. ASSUME pc = "clone_key", index = q[me].count, NEW v, NEW b, BufferCopied(v, b), Ends("OK")
      PROVE  KeyInv'
  <2>1. v.pairs = q[me].pairs /\ v.count = q[me].count /\ Update(me, v) /\ pc' = "idle"
    BY <1>7 DEF BufferCopied, Ends
  <2>2. Keyed(v, 1..v.count)
    BY <1>5, <1>7, <2>1 DEF Keyed
  <2> QED BY <1>1, <2>1, <2>2, AllKept
<1>8. CASE CloneKey
  BY <1>2, <1>3, <1>8, CopyKeyEffect
<1>9. CASE CloneValue
  BY <1>2, <1>4, <1>9, CopyValueEffect
<1>10. CASE CloneBuffer
  BY <1>2, <1>6, <1>7, <1>10, CopyBufferEffect
<1> QED BY <1>8, <1>9, <1>10

LEMMA KeyStep == TypeInv /\ KeyInv /\ [Next]_vars => KeyInv'
<1> SUFFICES ASSUME TypeInv, KeyInv, [Next]_vars PROVE KeyInv'
  OBVIOUS
<1>1. CASE Call
  BY <1>1, CallKeys
<1>2. CASE Step
  BY <1>2, InitPairsKeys, PoolKeys, PairKeys, ParseKeyKeys, ParseValueKeys, FilterKeys,
     FilterEndKeys, SortKeys, CloneKeys DEF Step
<1>3. CASE UNCHANGED vars
  BY <1>3 DEF vars, KeyInv, KeySlots, Keyed
<1> QED BY <1>1, <1>2, <1>3 DEF Next

LEMMA KeyInvHolds == Spec => []KeyInv
<1>1. Init => KeyInv
  BY DEF Init, KeyInv, KeySlots, Keyed, Zero
<1> QED BY <1>1, TypeInvHolds, KeyStep, PTL DEF Spec

(* The table made of the pairs of any object has every key, all its values in their order, and *)
(* arrays of them exactly for the keys that come more than once: whatever was parsed with       *)
(* which flags, dropped, sorted or copied (lhttp_url.c:102-137, llquery.c:330-513).             *)
THEOREM TableLosesNothing == Spec => []MergeLosesNothing
<1>1. TypeInv /\ KeyInv => MergeLosesNothing
  <2> SUFFICES ASSUME TypeInv, KeyInv, pc = "idle", rc = "OK", NEW x \in Queries
               PROVE  LET list  == Contents(q[x])
                          table == parse_query(rc, list)[1]
                      IN /\ DOMAIN table = {list[n].k : n \in DOMAIN list}
                         /\ \A k \in DOMAIN table :
                              /\ table[k].values = llquery_get_all_values(list, k, Len(list))
                              /\ table[k].array = (Cardinality(Positions(list, k)) > 1)
    BY DEF MergeLosesNothing
  <2> DEFINE list == Contents(q[x])
  <2>1. /\ q[x].count \in Nat /\ q[x].pairs \in Seq(Pair) /\ q[x].count <= Len(q[x].pairs)
        /\ Len(q[x].pairs) \in Nat
    BY DEF TypeInv, Types, Object, Fits
  <2>2. \A i \in 1..q[x].count : /\ q[x].pairs[i] \in Pair
                                 /\ q[x].pairs[i].k \in Seq(Int) /\ q[x].pairs[i].v \in Seq(Int)
    <3>1. \A p \in Pair : p.k \in Seq(Int) /\ p.v \in Seq(Int)
      BY DEF Pair
    <3> QED BY <2>1, <3>1
  <2>3. list \in Seq(KeyValue) /\ Len(list) = q[x].count
        /\ \A i \in 1..q[x].count : list[i].k = q[x].pairs[i].k
    <3> DEFINE n == q[x].count
               p(i) == [k |-> q[x].pairs[i].k, v |-> q[x].pairs[i].v]
    <3>1. list = [i \in 1..n |-> p(i)]
      BY DEF Contents
    <3>2. \A i \in 1..n : p(i) \in KeyValue /\ p(i).k = q[x].pairs[i].k
      BY <2>2 DEF KeyValue
    <3> HIDE DEF list, n, p
    <3>3. n \in Nat
      BY <2>1 DEF n
    <3>4. list \in Seq(KeyValue) /\ Len(list) = n /\ \A i \in 1..n : list[i] = p(i)
      BY <3>1, <3>2, <3>3
    <3> QED BY <3>2, <3>4 DEF n
  <2>4. \A i \in 1..q[x].count : q[x].pairs[i].k # <<>>
    BY DEF KeyInv, KeySlots, Keyed
  <2>5. parse_query(rc, list)[1] = query_to_lua_table(list)
    BY DEF parse_query
  <2> HIDE DEF list
  <2>6. \A i \in 1..Len(list) : list[i].k # <<>>
    BY <2>3, <2>4
  <2> QED BY <2>3, <2>5, <2>6, TableHasAll DEF list
<1> QED BY <1>1, TypeInvHolds, KeyInvHolds, PTL
=============================================================================
