--------------------------- MODULE QueryTextProofs ---------------------------
(***************************************************************************)
(* What the operators of QueryText return: where a scan stops, how long    *)
(* what is cut, decoded, trimmed or lowered may be, where the parts of a   *)
(* pair lie, and that KeyAfter orders keys.                                *)
(***************************************************************************)
EXTENDS QueryText, SequenceTheorems, FiniteSetTheorems, WellFoundedInduction, TLAPS

-----------------------------------------------------------------------------
(* The least element of a set of naturals. *)

LEMMA LeastNatural ==
  ASSUME NEW S, S \subseteq Nat, S # {}
  PROVE  \E m \in S : \A n \in S : m <= n
<1>1. PICK m \in S : \A n \in S : ~(<<n, m>> \in OpToRel(<, Nat))
  BY NatLessThanWellFounded, WFMin
<1>2. \A n \in S : ~(n < m)
  BY <1>1 DEF OpToRel
<1>3. \A n \in S : m <= n
  BY <1>2
<1> QED BY <1>3

\* So has a set of naturals below a bound a greatest one.
LEMMA GreatestNatural ==
  ASSUME NEW n \in Nat, NEW S, S \subseteq 0..n, S # {}
  PROVE  \E m \in S : \A k \in S : k <= m
<1> DEFINE T == {n - k : k \in S}
<1>0. \A k \in S : k \in Nat /\ n - k \in Nat
  OBVIOUS
<1>1. T \subseteq Nat /\ T # {}
  BY <1>0
<1> HIDE DEF T
<1>2. PICK t \in T : \A u \in T : t <= u
  BY <1>1, LeastNatural
<1>3. PICK m \in S : t = n - m
  BY DEF T
<1>4. ASSUME NEW k \in S PROVE k <= m
  <2>1. n - k \in T
    BY DEF T
  <2>2. n - m <= n - k
    BY <1>2, <1>3, <2>1
  <2> QED BY <1>0, <2>2
<1> QED BY <1>4

-----------------------------------------------------------------------------
(* Scanning and cutting. *)

\* A scan from k ends between k and the end; if before the end, at a byte of S.
LEMMA FindRange ==
  ASSUME NEW t \in Seq(Int), NEW S, NEW k \in 0..Len(t)
  PROVE  /\ Find(t, S, k) \in k..Len(t)
         /\ Find(t, S, k) < Len(t) => At(t, Find(t, S, k)) \in S
<1> DEFINE hits == {j \in k..(Len(t) - 1) : At(t, j) \in S}
<1>0. Len(t) \in Nat
  OBVIOUS
<1>1. CASE hits = {}
  BY <1>0, <1>1 DEF Find
<1>2. CASE hits # {}
  <2>1. \E j \in hits : \A h \in hits : j <= h
    <3>1. hits \subseteq Nat
      BY <1>0
    <3> HIDE DEF hits
    <3> QED BY <1>2, <3>1, LeastNatural
  <2>2. Find(t, S, k) \in hits
    <3> HIDE DEF hits
    <3>1. (CHOOSE j \in hits : \A h \in hits : j <= h) \in hits
      BY <2>1
    <3>2. Find(t, S, k) = CHOOSE j \in hits : \A h \in hits : j <= h
      BY <1>2 DEF Find, hits
    <3> QED BY <3>1, <3>2
  <2> QED BY <1>0, <2>2
<1> QED BY <1>1, <1>2

\* A cut is a text as long as the distance.
LEMMA CutLength ==
  ASSUME NEW t \in Seq(Int), NEW k \in Nat, NEW n \in Nat, k <= n, n <= Len(t)
  PROVE  Cut(t, k, n) \in Seq(Int) /\ Len(Cut(t, k, n)) = n - k
<1>1. \A i \in (k + 1)..n : t[i] \in Int
  OBVIOUS
<1>2. /\ SubSeq(t, k + 1, n) \in Seq(Int)
      /\ Len(SubSeq(t, k + 1, n)) = IF k + 1 <= n THEN n - (k + 1) + 1 ELSE 0
  BY <1>1, SubSeqProperties
<1> QED BY <1>2 DEF Cut

-----------------------------------------------------------------------------
(* The parts of the pair at position k: key, value and end. *)

LEMMA PairParts ==
  ASSUME NEW t \in Seq(Int), NEW k \in 0..Len(t)
  PROVE  /\ KeyEnd(t, k) \in k..Len(t)
         /\ Key(t, k) \in Seq(Int) /\ Len(Key(t, k)) = KeyEnd(t, k) - k
         /\ ValueStart(t, k) \in KeyEnd(t, k)..Len(t)
         /\ ValueEnd(t, k) \in ValueStart(t, k)..Len(t)
         /\ ValueEnd(t, k) # KeyEnd(t, k) => ValueStart(t, k) = KeyEnd(t, k) + 1
         /\ Value(t, k) \in Seq(Int)
         /\ Len(Value(t, k)) = ValueEnd(t, k) - ValueStart(t, k)
         /\ PairEnd(t, k) = IF ValueEnd(t, k) < Len(t) THEN ValueEnd(t, k) + 1
                                                       ELSE Len(t)
         /\ PairEnd(t, k) \in k..Len(t)
<1>0. Len(t) \in Nat
  OBVIOUS
<1>1. KeyEnd(t, k) \in k..Len(t)
  BY FindRange DEF KeyEnd
<1>2. ValueStart(t, k) \in KeyEnd(t, k)..Len(t)
  BY <1>0, <1>1 DEF ValueStart, HasEqual
<1>3. /\ ValueEnd(t, k) \in ValueStart(t, k)..Len(t)
      /\ ValueEnd(t, k) # KeyEnd(t, k) => ValueStart(t, k) = KeyEnd(t, k) + 1
  <2>1. CASE HasEqual(t, k)
    <3>1. ValueStart(t, k) \in 0..Len(t)
      BY <1>0, <1>1, <1>2
    <3>2. Find(t, {Amp}, ValueStart(t, k)) \in ValueStart(t, k)..Len(t)
      BY <3>1, FindRange
    <3> QED BY <2>1, <3>2 DEF ValueEnd, ValueStart
  <2>2. CASE ~HasEqual(t, k)
    BY <1>0, <1>1, <2>2 DEF ValueEnd, ValueStart
  <2> QED BY <2>1, <2>2
<1>4. Key(t, k) \in Seq(Int) /\ Len(Key(t, k)) = KeyEnd(t, k) - k
  <2>1. k \in Nat /\ KeyEnd(t, k) \in Nat /\ k <= KeyEnd(t, k) /\ KeyEnd(t, k) <= Len(t)
    BY <1>0, <1>1
  <2> QED BY <2>1, CutLength DEF Key
<1>5. Value(t, k) \in Seq(Int) /\ Len(Value(t, k)) = ValueEnd(t, k) - ValueStart(t, k)
  <2>1. /\ ValueStart(t, k) \in Nat /\ ValueEnd(t, k) \in Nat
        /\ ValueStart(t, k) <= ValueEnd(t, k) /\ ValueEnd(t, k) <= Len(t)
    BY <1>0, <1>1, <1>2, <1>3
  <2> QED BY <2>1, CutLength DEF Value
<1>6. PairEnd(t, k) = IF ValueEnd(t, k) < Len(t) THEN ValueEnd(t, k) + 1 ELSE Len(t)
  BY <1>0, <1>1, <1>2, <1>3 DEF PairEnd
<1>7. PairEnd(t, k) \in k..Len(t)
  BY <1>0, <1>1, <1>2, <1>3, <1>6
<1> QED BY <1>1, <1>2, <1>3, <1>4, <1>5, <1>6, <1>7

LEMMA StartRange ==
  ASSUME NEW t \in Seq(Int), NEW k \in 0..Len(t)
  PROVE  PairStart(t, k) \in k..Len(t)
BY FindRange DEF PairStart
-----------------------------------------------------------------------------
(* Decoding. *)

\* Every place up to the number of elements is that of some element.
LEMMA PlaceTaken ==
  ASSUME NEW n \in Nat, NEW L \in SUBSET (1..n), NEW c \in 1..Cardinality(L)
  PROVE  \E k \in L : Cardinality({j \in L : j <= k}) = c
<1> DEFINE upto(m) == {j \in L : j <= m}
           S       == {m \in Nat : Cardinality(upto(m)) >= c}
<1>0. \A j \in L : j \in Nat /\ 1 <= j /\ j <= n
  OBVIOUS
<1>1. IsFiniteSet(L) /\ Cardinality(L) \in Nat
  <2>1. IsFiniteSet(1..n)
    BY FS_Interval
  <2> QED BY <2>1, FS_Subset, FS_CardinalityType
<1>2. \A m \in Nat : IsFiniteSet(upto(m)) /\ Cardinality(upto(m)) \in Nat
  <2>1. \A m \in Nat : upto(m) \in SUBSET L
    OBVIOUS
  <2> QED BY <1>1, <2>1, FS_Subset, FS_CardinalityType
<1>3. upto(n) = L /\ upto(0) = {}
  <2>1. \A j \in L : j <= n /\ ~(j <= 0)
    BY <1>0
  <2>2. upto(n) = L
    BY <2>1
  <2>3. upto(0) = {}
    BY <2>1
  <2> QED BY <2>2, <2>3
<1>4. n \in S
  BY <1>1, <1>3
<1>5. PICK m \in S : \A h \in S : m <= h
  <2>1. S \subseteq Nat /\ S # {}
    BY <1>4
  <2> HIDE DEF S
  <2> QED BY <2>1, LeastNatural
<1>6. m \in Nat /\ Cardinality(upto(m)) >= c /\ c \in Nat \ {0}
  BY <1>1
<1>7. m # 0
  BY <1>3, <1>6, FS_EmptySet
<1>8. m - 1 \in Nat /\ Cardinality(upto(m - 1)) < c
  <2>1. m - 1 \in Nat /\ ~(m <= m - 1)
    BY <1>6, <1>7
  <2>2. m - 1 \notin S
    BY <1>5, <1>6, <2>1
  <2>3. ~(Cardinality(upto(m - 1)) >= c)
    BY <2>1, <2>2
  <2>4. Cardinality(upto(m - 1)) \in Nat
    BY <1>2, <2>1
  <2> HIDE DEF upto
  <2> QED BY <1>6, <2>1, <2>3, <2>4
<1>9. m \in L
  <2>1. CASE m \notin L
    <3>1. \A j \in L : j <= m <=> j <= m - 1
      BY <1>0, <1>6, <2>1
    <3>2. upto(m) = upto(m - 1)
      BY <3>1
    <3>3. Cardinality(upto(m - 1)) \in Nat
      BY <1>2, <1>8
    <3> HIDE DEF upto
    <3> QED BY <1>6, <1>8, <3>2, <3>3
  <2> QED BY <2>1
<1>10. upto(m) = upto(m - 1) \cup {m} /\ m \notin upto(m - 1)
  <2>1. \A j \in L : j <= m <=> j <= m - 1 \/ j = m
    BY <1>0, <1>6
  <2>2. ~(m <= m - 1)
    BY <1>6
  <2> QED BY <1>9, <2>1, <2>2
<1>11. Cardinality(upto(m)) = Cardinality(upto(m - 1)) + 1
  <2> HIDE DEF upto
  <2> QED BY <1>2, <1>8, <1>10, FS_AddElement
<1>12. Cardinality(upto(m)) = c
  <2> HIDE DEF upto, S
  <2> QED BY <1>2, <1>6, <1>8, <1>11
<1> QED BY <1>9, <1>12

OfBytes(t) == \A k \in 1..Len(t) : t[k] \in 0..255

LEMMA EscapedByte == \A c, d \in HexDigits : 16 * HexValue(c) + HexValue(d) \in 0..255
<1>1. \A c \in HexDigits : HexValue(c) \in 0..15
  BY DEF HexDigits, Digits, Upper, HexValue
<1>2. \A a, b \in 0..15 : 16 * a + b \in 0..255
  OBVIOUS
<1> QED BY <1>1, <1>2

\* A decoded text is a text and no longer than what it was.
LEMMA DecodeLength ==
  ASSUME NEW t \in Seq(Int)
  PROVE  /\ llquery_url_decode(t) \in Seq(Int)
         /\ Len(llquery_url_decode(t)) <= Len(t)
         /\ OfBytes(t) => OfBytes(llquery_url_decode(t))
<1> DEFINE left     == {k \in 1..Len(t) : ~Escape(t, k - 1) /\ ~Escape(t, k - 2)}
           place(k) == Cardinality({j \in left : j <= k})
           byte(k)  == IF Escape(t, k) THEN 16 * HexValue(t[k + 1]) + HexValue(t[k + 2])
                       ELSE IF t[k] = Plus THEN Space ELSE t[k]
           nth(n)   == CHOOSE k \in left : place(k) = n
           size     == Cardinality(left)
<1>1. Len(t) \in Nat /\ left \in SUBSET (1..Len(t))
  OBVIOUS
<1>2. size \in Nat /\ size <= Len(t)
  <2> HIDE DEF left
  <2>1. IsFiniteSet(1..Len(t)) /\ Cardinality(1..Len(t)) = Len(t)
    <3> DEFINE l == Len(t)
    <3>1. l \in Nat
      BY <1>1
    <3> HIDE DEF l
    <3>2. IsFiniteSet(1..l) /\ Cardinality(1..l) = IF 1 > l THEN 0 ELSE l - 1 + 1
      BY <3>1, FS_Interval
    <3>3. IsFiniteSet(1..l) /\ Cardinality(1..l) = l
      BY <3>1, <3>2
    <3> QED BY <3>3 DEF l
  <2> QED BY <1>1, <2>1, FS_Subset, FS_CardinalityType
<1>3. \A n \in 1..size : nth(n) \in left
  <2> HIDE DEF left
  <2> QED BY <1>1, PlaceTaken
<1>4. \A k \in 1..Len(t) : byte(k) \in Int
  <2> SUFFICES ASSUME NEW k \in 1..Len(t) PROVE byte(k) \in Int
    OBVIOUS
  <2>1. CASE Escape(t, k)
    <3>1. t[k + 1] \in Int /\ t[k + 2] \in Int
      BY <2>1 DEF Escape
    <3>2. \A c \in Int : HexValue(c) \in Int
      BY DEF HexValue
    <3>3. HexValue(t[k + 1]) \in Int /\ HexValue(t[k + 2]) \in Int
      BY <3>1, <3>2
    <3> QED BY <2>1, <3>3
  <2>2. CASE ~Escape(t, k)
    BY <2>2 DEF Space
  <2> QED BY <2>1, <2>2
<1>5. \A n \in 1..size : byte(nth(n)) \in Int
  <2> HIDE DEF left, byte, nth, size
  <2> QED BY <1>1, <1>3, <1>4
<1>6. llquery_url_decode(t) = [n \in 1..size |-> byte(nth(n))]
  BY DEF llquery_url_decode
<1>7. OfBytes(t) => \A k \in 1..Len(t) : byte(k) \in 0..255
  <2> SUFFICES ASSUME OfBytes(t), NEW k \in 1..Len(t) PROVE byte(k) \in 0..255
    OBVIOUS
  <2>1. Escape(t, k) => t[k + 1] \in HexDigits /\ t[k + 2] \in HexDigits
    BY DEF Escape
  <2>2. t[k] \in 0..255 /\ Space \in 0..255
    BY DEF OfBytes, Space
  <2> QED BY <2>1, <2>2, EscapedByte
<1>8. OfBytes(t) => \A n \in 1..size : byte(nth(n)) \in 0..255
  <2> HIDE DEF left, byte, nth, size
  <2> QED BY <1>1, <1>3, <1>7
<1> HIDE DEF left, byte, nth, size
<1>9. Len(llquery_url_decode(t)) = size
  BY <1>2, <1>5, <1>6
<1> QED BY <1>2, <1>5, <1>6, <1>8, <1>9 DEF OfBytes

LEMMA DecodeInPlaceLength ==
  ASSUME NEW t \in Seq(Int)
  PROVE  /\ decode_in_place(t) \in Seq(Int) /\ Len(decode_in_place(t)) <= Len(t)
         /\ OfBytes(t) => OfBytes(decode_in_place(t))
<1>1. Len(t) \in Nat /\ Find(t, {NUL}, 0) \in 0..Len(t)
  BY FindRange
<1>2. /\ Cut(t, 0, Find(t, {NUL}, 0)) \in Seq(Int)
      /\ Len(Cut(t, 0, Find(t, {NUL}, 0))) = Find(t, {NUL}, 0)
  BY <1>1, CutLength
<1>3. OfBytes(t) => OfBytes(Cut(t, 0, Find(t, {NUL}, 0)))
  BY <1>1, <1>2 DEF OfBytes, Cut
<1> QED BY <1>1, <1>2, <1>3, DecodeLength DEF decode_in_place

\* So is one behind its '?'.
LEMMA UnquestionedLength ==
  ASSUME NEW t \in Seq(Int)
  PROVE  /\ Unquestioned(t) \in Seq(Int) /\ Len(Unquestioned(t)) <= Len(t)
         /\ OfBytes(t) => OfBytes(Unquestioned(t))
<1>1. Unquestioned(t) \in {t, Tail(t)} /\ (t = <<>> => Unquestioned(t) = t)
  BY DEF Unquestioned
<1>2. t # <<>> => /\ Tail(t) \in Seq(Int) /\ Len(Tail(t)) = Len(t) - 1
                  /\ \A k \in 1..(Len(t) - 1) : Tail(t)[k] = t[k + 1]
  OBVIOUS
<1>3. t # <<>> /\ OfBytes(t) => OfBytes(Tail(t))
  BY <1>2 DEF OfBytes
<1>4. CASE Unquestioned(t) = t
  BY <1>4
<1>5. CASE Unquestioned(t) # t
  <2>1. Unquestioned(t) = Tail(t) /\ t # <<>>
    BY <1>1, <1>5
  <2>2. Len(t) \in Nat /\ Len(Tail(t)) <= Len(t)
    BY <1>2, <2>1
  <2> QED BY <1>2, <1>3, <2>1, <2>2
<1> QED BY <1>4, <1>5

-----------------------------------------------------------------------------
(* Trimming and lowering. *)

LEMMA TrimIsText ==
  ASSUME NEW t \in Seq(Int)
  PROVE  trim_string(t) \in Seq(Int)
<1> DEFINE o     == Others(t, Spaces)
           first == CHOOSE j \in o : \A h \in o : j <= h
           last  == CHOOSE j \in o : \A h \in o : j >= h
<1>1. CASE o = {}
  BY <1>1 DEF trim_string
<1>2. CASE o # {}
  <2>1. Len(t) \in Nat /\ o \subseteq 0..(Len(t) - 1) /\ o \subseteq Nat
    BY DEF Others
  <2> HIDE DEF o
  <2>2. \E j \in o : \A h \in o : j <= h
    BY <1>2, <2>1, LeastNatural
  <2>3. \E j \in o : \A h \in o : j >= h
    <3>1. Len(t) - 1 \in Nat
      <4>1. PICK j \in o : j \in 0..(Len(t) - 1)
        BY <1>2, <2>1
      <4> QED BY <2>1, <4>1
    <3>2. \E j \in o : \A h \in o : h <= j
      BY <1>2, <2>1, <3>1, GreatestNatural
    <3> QED BY <2>1, <3>2
  <2>4. first \in o /\ last \in o /\ first <= last
    BY <2>2, <2>3
  <2> HIDE DEF first, last
  <2>5. /\ first \in Nat /\ 1 + last \in Nat
        /\ first <= 1 + last /\ 1 + last <= Len(t)
    BY <2>1, <2>4
  <2>6. trim_string(t) = Cut(t, first, 1 + last)
    BY <1>2 DEF trim_string, o, first, last
  <2> QED BY <2>5, <2>6, CutLength
<1> QED BY <1>1, <1>2

LEMMA LowercaseIsText ==
  ASSUME NEW t \in Seq(Int)
  PROVE  lowercase_string(t) \in Seq(Int) /\ Len(lowercase_string(t)) = Len(t)
<1>1. \A k \in 1..Len(t) : (IF t[k] \in Upper THEN t[k] + 32 ELSE t[k]) \in Int
  OBVIOUS
<1> QED BY <1>1 DEF lowercase_string
-----------------------------------------------------------------------------
(* KeyAfter is a linear order of keys. *)

\* a is less than b at k, where they first differ;  a is b or its beginning.
LessAt(a, b, k) == /\ k \in 1..Len(a) /\ k \in 1..Len(b) /\ a[k] < b[k]
                   /\ \A h \in 1..(k - 1) : a[h] = b[h]
Leads(a, b)     == Len(a) <= Len(b) /\ \A h \in 1..Len(a) : a[h] = b[h]

LEMMA NotAfter ==
  ASSUME NEW a \in Seq(Int), NEW b \in Seq(Int)
  PROVE  ~KeyAfter(a, b) <=> Leads(a, b) \/ \E k \in Nat : LessAt(a, b, k)
<1> DEFINE n    == IF Len(a) < Len(b) THEN Len(a) ELSE Len(b)
           diff == {k \in 1..n : a[k] # b[k]}
           k    == CHOOSE k \in diff : \A h \in diff : k <= h
<1>1. Len(a) \in Nat /\ Len(b) \in Nat /\ n \in Nat /\ n <= Len(a) /\ n <= Len(b)
  OBVIOUS
<1>2. CASE diff = {}
  <2>1. \A h \in 1..n : a[h] = b[h]
    BY <1>2
  <2>2. KeyAfter(a, b) <=> Len(a) > Len(b)
    BY <1>2 DEF KeyAfter
  <2>3. \A h \in Nat : ~LessAt(a, b, h)
    <3> SUFFICES ASSUME NEW h \in Nat, LessAt(a, b, h) PROVE FALSE
      OBVIOUS
    <3>1. h \in 1..n
      BY <1>1 DEF LessAt
    <3>2. a[h] \in Int /\ b[h] \in Int
      BY <1>1, <3>1
    <3> QED BY <2>1, <3>1, <3>2 DEF LessAt
  <2>4. Leads(a, b) <=> Len(a) <= Len(b)
    BY <1>1, <2>1 DEF Leads
  <2> QED BY <1>1, <2>2, <2>3, <2>4
<1>3. CASE diff # {}
  <2>1. k \in diff /\ \A h \in diff : k <= h
    <3>1. diff \subseteq Nat
      OBVIOUS
    <3> HIDE DEF diff
    <3>2. \E m \in diff : \A h \in diff : m <= h
      BY <1>3, <3>1, LeastNatural
    <3> QED BY <3>2
  <2>2. KeyAfter(a, b) <=> a[k] > b[k]
    BY <1>3 DEF KeyAfter
  <2> HIDE DEF k
  <2>3. /\ k \in 1..Len(a) /\ k \in 1..Len(b) /\ a[k] # b[k]
        /\ a[k] \in Int /\ b[k] \in Int
    BY <1>1, <2>1
  <2>4. \A h \in 1..(k - 1) : a[h] = b[h]
    <3> SUFFICES ASSUME NEW h \in 1..(k - 1) PROVE a[h] = b[h]
      OBVIOUS
    <3>1. h \in 1..n /\ ~(k <= h)
      BY <1>1, <2>1
    <3> QED BY <2>1, <3>1
  <2>5. ~Leads(a, b)
    BY <2>3 DEF Leads
  <2>6. LessAt(a, b, k) <=> a[k] < b[k]
    BY <2>3, <2>4 DEF LessAt
  <2>7. ASSUME NEW h \in Nat, LessAt(a, b, h) PROVE h = k
    <3>1. a[h] \in Int /\ b[h] \in Int /\ h \in Nat /\ k \in Nat /\ 1 <= h /\ 1 <= k
      BY <2>3, <2>7 DEF LessAt
    <3>2. CASE h < k
      BY <2>4, <2>7, <3>1, <3>2 DEF LessAt
    <3>3. CASE k < h
      <4>1. k \in 1..(h - 1)
        BY <3>1, <3>3
      <4> QED BY <2>3, <2>7, <4>1 DEF LessAt
    <3> QED BY <3>1, <3>2, <3>3
  <2> QED BY <2>2, <2>3, <2>5, <2>6, <2>7
<1> QED BY <1>2, <1>3

LEMMA AfterIsBoolean ==
  ASSUME NEW a, NEW b
  PROVE  KeyAfter(a, b) \in BOOLEAN
<1> DEFINE n    == IF Len(a) < Len(b) THEN Len(a) ELSE Len(b)
           diff == {k \in 1..n : a[k] # b[k]}
           k    == CHOOSE k \in diff : \A h \in diff : k <= h
<1>1. KeyAfter(a, b) = IF diff = {} THEN Len(a) > Len(b) ELSE a[k] > b[k]
  BY DEF KeyAfter
<1> HIDE DEF n, diff, k
<1>2. (Len(a) > Len(b)) \in BOOLEAN /\ (a[k] > b[k]) \in BOOLEAN
  OBVIOUS
<1> QED BY <1>1, <1>2

LEMMA AfterIsAsymmetric ==
  ASSUME NEW a \in Seq(Int), NEW b \in Seq(Int), KeyAfter(a, b)
  PROVE  ~KeyAfter(b, a)
<1> SUFFICES ASSUME KeyAfter(b, a) PROVE FALSE
  OBVIOUS
<1> DEFINE n == IF Len(a) < Len(b) THEN Len(a) ELSE Len(b)
           diff == {k \in 1..n : a[k] # b[k]}
<1>1. /\ n = IF Len(b) < Len(a) THEN Len(b) ELSE Len(a)
      /\ Len(a) \in Nat /\ Len(b) \in Nat
  OBVIOUS
<1>2. diff = {k \in 1..n : b[k] # a[k]}
  OBVIOUS
<1>3. CASE diff = {}
  <2>1. Len(a) > Len(b)
    BY <1>3 DEF KeyAfter
  <2>2. Len(b) > Len(a)
    <3> HIDE DEF n, diff
    <3> QED BY <1>1, <1>2, <1>3 DEF KeyAfter
  <2> QED BY <1>1, <2>1, <2>2
<1>4. CASE diff # {}
  <2> DEFINE k == CHOOSE k \in diff : \A h \in diff : k <= h
  <2>1. a[k] > b[k]
    BY <1>4 DEF KeyAfter
  <2>2. b[k] > a[k]
    <3> HIDE DEF n, diff
    <3> QED BY <1>1, <1>2, <1>4 DEF KeyAfter
  <2>3. k \in diff
    <3>1. diff \subseteq Nat
      OBVIOUS
    <3> HIDE DEF diff
    <3>2. \E m \in diff : \A h \in diff : m <= h
      BY <1>4, <3>1, LeastNatural
    <3> QED BY <3>2
  <2> HIDE DEF k
  <2>4. a[k] \in Int /\ b[k] \in Int
    BY <1>1, <2>3
  <2> QED BY <2>1, <2>2, <2>4
<1> QED BY <1>3, <1>4

LEMMA NotAfterIsTransitive ==
  ASSUME NEW a \in Seq(Int), NEW b \in Seq(Int), NEW c \in Seq(Int),
         ~KeyAfter(a, b), ~KeyAfter(b, c)
  PROVE  ~KeyAfter(a, c)
<1> USE DEF LessAt, Leads
<1>0. Len(a) \in Nat /\ Len(b) \in Nat /\ Len(c) \in Nat
  OBVIOUS
<1> SUFFICES Leads(a, c) \/ \E k \in Nat : LessAt(a, c, k)
  BY NotAfter
<1>1. Leads(a, b) \/ \E k \in Nat : LessAt(a, b, k)
  BY NotAfter
<1>2. Leads(b, c) \/ \E k \in Nat : LessAt(b, c, k)
  BY NotAfter
<1>3. CASE Leads(a, b) /\ Leads(b, c)
  BY <1>0, <1>3
<1>4. ASSUME Leads(a, b), NEW k \in Nat, LessAt(b, c, k)
      PROVE  Leads(a, c) \/ LessAt(a, c, k)
  <2>1. CASE k <= Len(a)
    BY <1>0, <1>4, <2>1
  <2>2. CASE Len(a) < k
    <3>1. \A h \in 1..Len(a) : h \in 1..(k - 1)
      BY <1>0, <2>2
    <3> QED BY <1>0, <1>4, <2>2, <3>1
  <2> QED BY <1>0, <2>1, <2>2
<1>5. ASSUME NEW k \in Nat, LessAt(a, b, k), Leads(b, c)
      PROVE  LessAt(a, c, k)
  <2>1. /\ k \in 1..Len(a) /\ k \in 1..Len(b) /\ k \in 1..Len(c)
        /\ \A h \in 1..(k - 1) : h \in 1..Len(b)
    BY <1>0, <1>5
  <2>2. \A h \in 1..k : b[h] = c[h]
    BY <1>0, <1>5, <2>1
  <2>3. \A h \in 1..(k - 1) : h \in 1..k
    BY <2>1
  <2> QED BY <1>5, <2>1, <2>2, <2>3
<1>6. ASSUME NEW k \in Nat, LessAt(a, b, k), NEW m \in Nat, LessAt(b, c, m)
      PROVE  LessAt(a, c, k) \/ LessAt(a, c, m)
  <2>1. /\ a[k] \in Int /\ b[k] \in Int /\ b[m] \in Int /\ c[m] \in Int
        /\ k <= Len(a) /\ k <= Len(b) /\ m <= Len(b) /\ m <= Len(c) /\ 1 <= k /\ 1 <= m
    <3>1. k \in 1..Len(a) /\ k \in 1..Len(b) /\ m \in 1..Len(b) /\ m \in 1..Len(c)
      BY <1>6
    <3>2. a[k] \in Int /\ b[k] \in Int /\ b[m] \in Int /\ c[m] \in Int
      BY <3>1
    <3> QED BY <1>0, <3>1, <3>2
  <2>2. CASE k < m
    <3>1. k \in 1..(m - 1) /\ \A h \in 1..(k - 1) : h \in 1..(m - 1)
      BY <2>1, <2>2
    <3>2. k \in 1..Len(c) /\ a[k] < c[k]
      BY <1>0, <1>6, <2>1, <2>2, <3>1
    <3>3. \A h \in 1..(k - 1) : a[h] = c[h]
      BY <1>6, <3>1
    <3> QED BY <1>6, <3>2, <3>3
  <2>3. CASE m < k
    <3>1. m \in 1..(k - 1) /\ \A h \in 1..(m - 1) : h \in 1..(k - 1)
      BY <2>1, <2>3
    <3>2. m \in 1..Len(a) /\ a[m] < c[m]
      BY <1>0, <1>6, <2>1, <2>3, <3>1
    <3>3. \A h \in 1..(m - 1) : a[h] = c[h]
      BY <1>6, <3>1
    <3> QED BY <1>6, <3>2, <3>3
  <2>4. CASE m = k
    <3>1. k \in 1..Len(a) /\ k \in 1..Len(c) /\ a[k] < c[k]
      BY <1>6, <2>1, <2>4
    <3>2. \A h \in 1..(k - 1) : a[h] = c[h]
      BY <1>6, <2>4
    <3> QED BY <3>1, <3>2
  <2> QED BY <2>2, <2>3, <2>4
<1> QED BY <1>1, <1>2, <1>3, <1>4, <1>5, <1>6
=============================================================================
