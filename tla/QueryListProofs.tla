--------------------------- MODULE QueryListProofs ---------------------------
(***************************************************************************)
(* The objects of LlQuery are lists of pairs: LlQuery implements QueryList.*)
(***************************************************************************)
EXTENDS LuaQueryProofs

-----------------------------------------------------------------------------
(* The instance's operators on texts are those of QueryText. *)

LEMMA SameScans ==
  ASSUME NEW t, NEW S, NEW k, NEW n
  PROVE  /\ List!At(t, k) = At(t, k) /\ List!Find(t, S, k) = Find(t, S, k)
         /\ List!Cut(t, k, n) = Cut(t, k, n)
         /\ List!Amp = Amp /\ List!Equal = Equal
BY DEF List!At, At, List!Find, Find, List!Cut, Cut, List!Amp, Amp, List!Equal, Equal

LEMMA SameShapes ==
  ASSUME NEW t, NEW u
  PROVE  /\ List!lowercase_string(t) = lowercase_string(t) /\ List!trim_string(t) = trim_string(t)
         /\ List!KeyAfter(t, u) = KeyAfter(t, u)
<1>1. List!lowercase_string(t) = lowercase_string(t)
  BY DEF List!lowercase_string, lowercase_string, List!Upper, Upper
<1>2. List!trim_string(t) = trim_string(t)
  BY DEF List!trim_string, trim_string, List!Others, Others, List!Spaces, Spaces, List!Space, Space,
     List!Cut, Cut, List!At, At
<1>3. List!KeyAfter(t, u) = KeyAfter(t, u)
  BY DEF List!KeyAfter, KeyAfter
<1> QED BY <1>1, <1>2, <1>3

-----------------------------------------------------------------------------
(* Scanning and cutting. *)

\* A scan stops at the first byte of the set, or at the end.
LEMMA FindIs ==
  ASSUME NEW t \in Seq(Int), NEW S, NEW k \in 0..Len(t), NEW j \in k..Len(t),
         \A h \in k..(j - 1) : At(t, h) \notin S, j = Len(t) \/ At(t, j) \in S
  PROVE  Find(t, S, k) = j
<1> DEFINE hits == {i \in k..(Len(t) - 1) : At(t, i) \in S}
<1>0. Len(t) \in Nat
  OBVIOUS
<1>1. \A i \in hits : i \in Nat /\ j <= i
  <2>1. ASSUME NEW i \in hits, i < j PROVE FALSE
    <3>1. i \in k..(j - 1) /\ At(t, i) \in S
      BY <1>0, <2>1
    <3> QED BY <3>1
  <2>2. \A i \in hits : i \in Nat
    BY <1>0
  <2> QED BY <1>0, <2>1, <2>2
<1>2. CASE j = Len(t)
  <2>1. hits = {}
    BY <1>0, <1>1, <1>2
  <2> QED BY <1>2, <2>1 DEF Find
<1>3. CASE j # Len(t)
  <2>1. j \in hits
    BY <1>0, <1>3
  <2>2. (CHOOSE i \in hits : \A h \in hits : i <= h) = j
    <3>1. PICK c : c = CHOOSE i \in hits : \A h \in hits : i <= h
      OBVIOUS
    <3> HIDE DEF hits
    <3>2. c \in hits /\ \A h \in hits : c <= h
      BY <1>1, <2>1, <3>1
    <3> QED BY <1>0, <1>1, <2>1, <3>1, <3>2
  <2> QED BY <2>1, <2>2 DEF Find
<1> QED BY <1>2, <1>3

\* It passes over no byte of the set.
LEMMA FindPasses ==
  ASSUME NEW t \in Seq(Int), NEW S, NEW k \in 0..Len(t), NEW h \in k..(Find(t, S, k) - 1)
  PROVE  At(t, h) \notin S
<1> DEFINE hits == {i \in k..(Len(t) - 1) : At(t, i) \in S}
<1>0. Len(t) \in Nat /\ Find(t, S, k) \in k..Len(t)
  BY FindRange
<1> SUFFICES ASSUME At(t, h) \in S PROVE FALSE
  OBVIOUS
<1>1. h \in hits
  BY <1>0
<1>2. hits \subseteq Nat
  BY <1>0
<1> HIDE DEF hits
<1>3. \E i \in hits : \A g \in hits : i <= g
  BY <1>1, <1>2, LeastNatural
<1>4. Find(t, S, k) = CHOOSE i \in hits : \A g \in hits : i <= g
  BY <1>1 DEF Find, hits
<1>5. Find(t, S, k) <= h
  BY <1>1, <1>3, <1>4
<1> QED BY <1>0, <1>5

LEMMA CutBytes ==
  ASSUME NEW t \in Seq(Int), NEW k \in Nat, NEW n \in Nat, k <= n, n <= Len(t)
  PROVE  /\ Cut(t, k, n) \in Seq(Int) /\ Len(Cut(t, k, n)) = n - k
         /\ \A i \in 0..(n - k - 1) : At(Cut(t, k, n), i) = At(t, k + i)
<1>1. Cut(t, k, n) \in Seq(Int) /\ Len(Cut(t, k, n)) = n - k
  BY CutLength
<1>2. \A i \in 0..(n - k - 1) : At(Cut(t, k, n), i) = At(t, k + i)
  BY DEF Cut, At
<1> QED BY <1>1, <1>2

\* A text is its bytes.
LEMMA SameText ==
  ASSUME NEW t \in Seq(Int), NEW u \in Seq(Int), Len(t) = Len(u),
         \A i \in 0..(Len(t) - 1) : At(t, i) = At(u, i)
  PROVE  t = u
<1>1. ASSUME NEW i \in 1..Len(t) PROVE t[i] = u[i]
  <2>1. i - 1 \in 0..(Len(t) - 1) /\ (i - 1) + 1 = i
    OBVIOUS
  <2>2. At(t, i - 1) = t[i] /\ At(u, i - 1) = u[i]
    BY <2>1 DEF At
  <2> QED BY <2>1, <2>2
<1> QED BY <1>1, SeqEqual

LEMMA CutOfCut ==
  ASSUME NEW t \in Seq(Int), NEW k \in Nat, NEW n \in Nat, k <= n, n <= Len(t),
         NEW a \in Nat, NEW b \in Nat, a <= b, b <= n - k
  PROVE  Cut(Cut(t, k, n), a, b) = Cut(t, k + a, k + b)
<1> DEFINE p == Cut(t, k, n)
           x == Cut(p, a, b)
           y == Cut(t, k + a, k + b)
<1>0. Len(t) \in Nat /\ k + a \in Nat /\ k + b \in Nat /\ k + a <= k + b /\ k + b <= Len(t)
  OBVIOUS
<1>1. p \in Seq(Int) /\ Len(p) = n - k /\ \A i \in 0..(n - k - 1) : At(p, i) = At(t, k + i)
  BY CutBytes
<1> HIDE DEF p
<1>2. x \in Seq(Int) /\ Len(x) = b - a /\ \A i \in 0..(b - a - 1) : At(x, i) = At(p, a + i)
  BY <1>1, CutBytes
<1>3. /\ y \in Seq(Int) /\ Len(y) = (k + b) - (k + a)
      /\ \A i \in 0..((k + b) - (k + a) - 1) : At(y, i) = At(t, (k + a) + i)
  BY <1>0, CutBytes
<1> HIDE DEF x, y
<1>4. ASSUME NEW i \in 0..(b - a - 1) PROVE At(x, i) = At(y, i)
  <2>1. a + i \in 0..(n - k - 1) /\ k + (a + i) = (k + a) + i
        /\ i \in 0..((k + b) - (k + a) - 1)
    OBVIOUS
  <2> QED BY <1>1, <1>2, <1>3, <2>1
<1>5. Len(x) = Len(y) /\ Len(x) = b - a
  BY <1>0, <1>2, <1>3
<1> QED BY <1>2, <1>3, <1>4, <1>5, SameText DEF x, y, p

-----------------------------------------------------------------------------
(* Pieces of a text, and the pair of each. *)

\* A piece begins at s.
Begin(t, s) == s = 0 \/ At(t, s - 1) = Amp
\* No '&' lies between s and n.
Whole(t, s, n) == \A k \in s..(n - 1) : At(t, k) # Amp

\* A piece has one beginning.
LEMMA PieceIs ==
  ASSUME NEW t \in Seq(Int), NEW n \in 0..Len(t), NEW s \in 0..n, Begin(t, s), Whole(t, s, n)
  PROVE  List!Piece(t, n) = Cut(t, s, n)
<1> DEFINE B(j) == Begin(t, j) /\ Whole(t, j, n)
<1>1. ASSUME NEW j \in 0..n, NEW i \in 0..n, B(j), B(i) PROVE ~(j < i)
  <2> SUFFICES ASSUME j < i PROVE FALSE
    OBVIOUS
  <2>1. i - 1 \in j..(n - 1) /\ i # 0
    OBVIOUS
  <2>2. At(t, i - 1) = Amp
    BY <1>1, <2>1 DEF Begin
  <2> QED BY <1>1, <2>1, <2>2 DEF Whole
<1>2. \A j \in 0..n : B(j) => j = s
  <2>1. B(s)
    OBVIOUS
  <2> HIDE DEF B
  <2> QED BY <1>1, <2>1
<1>3. (CHOOSE j \in 0..n : B(j)) = s
  <2>1. B(s)
    OBVIOUS
  <2> HIDE DEF B
  <2> QED BY <1>2, <2>1
<1>4. List!Piece(t, n) = Cut(t, CHOOSE j \in 0..n : B(j), n)
  BY DEF List!Piece, List!Cut, Cut, List!At, At, List!Amp, Amp, Begin, Whole
<1> QED BY <1>3, <1>4

\* Every position has the beginning of its piece before it.
LEMMA PieceBegins ==
  ASSUME NEW t \in Seq(Int), NEW n \in 0..Len(t)
  PROVE  \E s \in 0..n : Begin(t, s) /\ Whole(t, s, n)
<1> DEFINE S == {s \in 0..n : Whole(t, s, n)}
<1>1. n \in S
  BY DEF Whole
<1>2. S \subseteq Nat
  OBVIOUS
<1>3. PICK s \in S : \A i \in S : s <= i
  <2> HIDE DEF S
  <2> QED BY <1>1, <1>2, LeastNatural
<1>4. CASE s = 0
  BY <1>4 DEF Begin
<1>5. CASE s # 0 /\ At(t, s - 1) # Amp
  <2>1. s - 1 \in 0..n
    BY <1>5
  <2>2. Whole(t, s - 1, n)
    <3>1. ASSUME NEW k \in (s - 1)..(n - 1) PROVE At(t, k) # Amp
      <4>1. k = s - 1 \/ k \in s..(n - 1)
        OBVIOUS
      <4> QED BY <1>5, <4>1 DEF Whole
    <3> QED BY <3>1 DEF Whole
  <2>3. s - 1 \in S
    BY <2>1, <2>2
  <2> QED BY <1>3, <2>3
<1> QED BY <1>4, <1>5 DEF Begin

\* The key and value of a piece are those of the pair that begins where it does.
LEMMA PairOfPiece ==
  ASSUME NEW t \in Seq(Int), NEW s \in 0..Len(t), NEW e \in s..Len(t), Whole(t, s, e),
         e = Len(t) \/ At(t, e) = Amp
  PROVE  /\ ValueEnd(t, s) = e
         /\ List!PairOf(Cut(t, s, e)) = [k |-> Key(t, s), v |-> Value(t, s)]
<1> DEFINE p  == Cut(t, s, e)
           ke == KeyEnd(t, s)
           f  == ke - s
<1>0. Len(t) \in Nat /\ Equal # Amp
  BY DEF Equal, Amp
<1>1. p \in Seq(Int) /\ Len(p) = e - s /\ \A i \in 0..(e - s - 1) : At(p, i) = At(t, s + i)
  BY <1>0, CutBytes
<1>2. ke \in s..e /\ \A h \in s..(ke - 1) : At(t, h) \notin {Equal, Amp}
  <2>1. ke \in s..Len(t) /\ \A h \in s..(ke - 1) : At(t, h) \notin {Equal, Amp}
    BY <1>0, FindRange, FindPasses DEF KeyEnd
  <2>2. ~(e < ke)
    <3> SUFFICES ASSUME e < ke PROVE FALSE
      OBVIOUS
    <3>1. e \in s..(ke - 1) /\ e # Len(t)
      BY <1>0, <2>1
    <3> QED BY <2>1, <3>1
  <2> QED BY <1>0, <2>1, <2>2
<1>3. ke < e => At(t, ke) = Equal
  <2> SUFFICES ASSUME ke < e PROVE At(t, ke) = Equal
    OBVIOUS
  <2>1. ke < Len(t) /\ ke \in s..(e - 1)
    BY <1>0, <1>2
  <2>2. At(t, ke) \in {Equal, Amp}
    BY <1>0, <2>1, FindRange DEF KeyEnd
  <2> QED BY <2>1, <2>2 DEF Whole
<1> HIDE DEF p, ke
<1>4. Find(p, {Equal}, 0) = f
  <2>1. f \in 0..Len(p)
    BY <1>0, <1>1, <1>2
  <2>2. ASSUME NEW h \in 0..(f - 1) PROVE At(p, h) \notin {Equal}
    <3>1. h \in 0..(e - s - 1) /\ s + h \in s..(ke - 1)
      BY <1>0, <1>2
    <3> QED BY <1>1, <1>2, <3>1
  <2>3. f = Len(p) \/ At(p, f) \in {Equal}
    <3>1. CASE ke < e
      <4>1. f \in 0..(e - s - 1) /\ s + f = ke
        BY <1>0, <1>2, <3>1
      <4> QED BY <1>1, <1>3, <3>1, <4>1
    <3>2. CASE ~(ke < e)
      BY <1>0, <1>1, <1>2, <3>2
    <3> QED BY <3>1, <3>2
  <2>4. Len(p) \in Nat /\ 0 \in 0..Len(p)
    BY <1>0, <1>1
  <2> QED BY <1>1, <2>1, <2>2, <2>3, <2>4, FindIs
<1>5. Cut(p, 0, f) = Key(t, s)
  <2>1. f \in Nat /\ f <= e - s /\ s + 0 = s /\ s + f = ke /\ s \in Nat /\ e \in Nat
    BY <1>0, <1>2
  <2>2. Cut(p, 0, f) = Cut(t, s + 0, s + f)
    BY <1>0, <2>1, CutOfCut DEF p
  <2> QED BY <2>1, <2>2 DEF Key, ke
<1>6. ValueEnd(t, s) = e /\ Cut(p, f + 1, Len(p)) = Value(t, s)
  <2>1. CASE ke < e
    <3>1. HasEqual(t, s)
      BY <1>0, <1>2, <1>3, <2>1 DEF HasEqual, ke
    <3>2. ValueStart(t, s) = ke + 1
      BY <3>1 DEF ValueStart, ke
    <3>3. Find(t, {Amp}, ke + 1) = e
      <4>1. ke + 1 \in 0..Len(t) /\ e \in (ke + 1)..Len(t)
        BY <1>0, <1>2, <2>1
      <4>2. \A h \in (ke + 1)..(e - 1) : At(t, h) \notin {Amp}
        BY <1>0, <1>2 DEF Whole
      <4> QED BY <4>1, <4>2, FindIs
    <3>4. ValueEnd(t, s) = e
      BY <3>1, <3>2, <3>3 DEF ValueEnd
    <3>5. Cut(p, f + 1, Len(p)) = Cut(t, s + (f + 1), s + Len(p))
      <4>1. /\ f + 1 \in Nat /\ Len(p) \in Nat /\ f + 1 <= Len(p) /\ Len(p) <= e - s
            /\ s \in Nat /\ e \in Nat /\ s <= e /\ e <= Len(t)
        BY <1>0, <1>1, <1>2, <2>1
      <4> QED BY <4>1, CutOfCut DEF p
    <3>6. s + (f + 1) = ke + 1 /\ s + Len(p) = e
      BY <1>0, <1>1, <1>2
    <3> QED BY <3>2, <3>4, <3>5, <3>6 DEF Value
  <2>2. CASE ~(ke < e)
    <3>1. ke = e /\ f = Len(p) /\ Len(p) \in Nat
      BY <1>0, <1>1, <1>2, <2>2
    <3>2. ~HasEqual(t, s)
      BY <1>0, <3>1 DEF HasEqual, ke
    <3>3. ValueEnd(t, s) = e /\ ValueStart(t, s) = e
      BY <3>1, <3>2 DEF ValueEnd, ValueStart, ke
    <3>4. Value(t, s) = <<>>
      <4>1. Value(t, s) \in Seq(Int) /\ Len(Value(t, s)) = e - e
        BY <3>3, PairParts
      <4> QED BY <1>0, <4>1
    <3>5. Cut(p, f + 1, Len(p)) = <<>>
      BY <1>1, <3>1 DEF Cut
    <3> QED BY <3>3, <3>4, <3>5
  <2> QED BY <2>1, <2>2
<1>7. List!PairOf(p) = [k |-> Cut(p, 0, Find(p, {Equal}, 0)), v |-> Cut(p, Find(p, {Equal}, 0) + 1, Len(p))]
  BY SameScans DEF List!PairOf
<1> QED BY <1>4, <1>5, <1>6, <1>7 DEF p

\* The pair as the flags want it, and whether it is one.
ShapeOf(k, v, flags) ==
  [k |-> IF "LOWERCASE_KEYS" \in flags THEN lowercase_string(k) ELSE k,
   v |-> IF "TRIM_VALUES" \in flags THEN trim_string(v) ELSE v]
Wanted(p, flags) == p.k # <<>> /\ ("KEEP_EMPTY" \in flags \/ p.v # <<>>)
ItemOf(p, flags) == IF Wanted(p, flags) THEN <<p>> ELSE <<>>

LEMMA ShapeOfPair ==
  ASSUME NEW k \in Seq(Int), NEW v \in Seq(Int), NEW flags
  PROVE  /\ ShapeOf(k, v, flags) \in KeyValue
         /\ ShapeOf(k, v, flags).k = <<>> <=> k = <<>>
         /\ ItemOf(ShapeOf(k, v, flags), flags) \in Seq(KeyValue)
<1> DEFINE a == IF "LOWERCASE_KEYS" \in flags THEN lowercase_string(k) ELSE k
           b == IF "TRIM_VALUES" \in flags THEN trim_string(v) ELSE v
           p == ShapeOf(k, v, flags)
<1>1. a \in Seq(Int) /\ b \in Seq(Int) /\ Len(a) = Len(k)
  BY LowercaseIsText, TrimIsText
<1>2. p = [k |-> a, v |-> b]
  BY DEF ShapeOf
<1> HIDE DEF a, b, p
<1>3. p \in KeyValue /\ p.k = a
  BY <1>1, <1>2 DEF KeyValue
<1>4. a = <<>> <=> k = <<>>
  BY <1>1
<1>5. ItemOf(p, flags) \in Seq(KeyValue)
  BY <1>3 DEF ItemOf
<1> QED BY <1>3, <1>4, <1>5 DEF p

LEMMA SameShape ==
  ASSUME NEW k, NEW v, NEW flags
  PROVE  List!Shape([k |-> k, v |-> v], flags) = ShapeOf(k, v, flags)
<1> DEFINE p == [k |-> k, v |-> v]
<1>1. p.k = k /\ p.v = v
  OBVIOUS
<1> HIDE DEF p
<1>2. List!Shape(p, flags) = ShapeOf(k, v, flags)
  BY <1>1, SameShapes DEF List!Shape, ShapeOf
<1> QED BY <1>2 DEF p

LEMMA PairAtIs ==
  ASSUME NEW t \in Seq(Int), NEW n \in 0..Len(t), NEW s \in 0..n, Begin(t, s), Whole(t, s, n),
         NEW flags
  PROVE  List!PairAt(t, n, flags) =
           IF n = Len(t) \/ At(t, n) = Amp
           THEN ItemOf(ShapeOf(Key(t, s), Value(t, s), flags), flags) ELSE <<>>
<1> DEFINE p == List!Shape(List!PairOf(List!Piece(t, n)), flags)
<1>1. List!PairAt(t, n, flags) =
        IF (n = Len(t) \/ At(t, n) = Amp) /\ p.k # <<>> /\ ("KEEP_EMPTY" \in flags \/ p.v # <<>>)
        THEN <<p>> ELSE <<>>
  BY SameScans DEF List!PairAt, List!PieceEnds
<1>2. CASE n = Len(t) \/ At(t, n) = Amp
  <2>1. List!PairOf(List!Piece(t, n)) = [k |-> Key(t, s), v |-> Value(t, s)]
    <3>1. List!Piece(t, n) = Cut(t, s, n)
      BY PieceIs
    <3>2. s \in 0..Len(t) /\ n \in s..Len(t)
      OBVIOUS
    <3> QED BY <1>2, <3>1, <3>2, PairOfPiece
  <2>2. p = ShapeOf(Key(t, s), Value(t, s), flags)
    BY <2>1, SameShape
  <2> HIDE DEF p
  <2> QED BY <1>1, <1>2, <2>2 DEF ItemOf, Wanted
<1>3. CASE ~(n = Len(t) \/ At(t, n) = Amp)
  BY <1>1, <1>3
<1> QED BY <1>2, <1>3

\* A pair is one or none.
LEMMA PairAtType ==
  ASSUME NEW t \in Seq(Int), NEW n \in 0..Len(t), NEW flags
  PROVE  List!PairAt(t, n, flags) \in Seq(KeyValue)
<1>1. PICK s \in 0..n : Begin(t, s) /\ Whole(t, s, n)
  BY PieceBegins
<1>2. s \in 0..Len(t)
  OBVIOUS
<1>3. Key(t, s) \in Seq(Int) /\ Value(t, s) \in Seq(Int)
  BY <1>2, PairParts
<1>4. ItemOf(ShapeOf(Key(t, s), Value(t, s), flags), flags) \in Seq(KeyValue)
  BY <1>3, ShapeOfPair
<1>5. <<>> \in Seq(KeyValue)
  OBVIOUS
<1> QED BY <1>1, <1>4, <1>5, PairAtIs

\* The pairs of the pieces that end before each position.
Adding(t, flags, u) ==
  /\ u \in [0..(Len(t) + 1) -> Seq(KeyValue)] /\ u[0] = <<>>
  /\ \A n \in 0..Len(t) : u[n + 1] = u[n] \o List!PairAt(t, n, flags)

LEMMA MeaningSteps ==
  ASSUME NEW t \in Seq(Int), NEW flags
  PROVE  \E u : Adding(t, flags, u) /\ List!Meaning(t, flags) = u[Len(t) + 1]
<1> DEFINE n    == Len(t)
           S    == Seq(KeyValue)
           item(m) == List!PairAt(t, m, flags)
           step == [m \in 1..(n + 1) |-> [s \in S |-> s \o item(m - 1)]]
<1>1. n \in Nat /\ n + 1 \in Nat /\ \A m \in 0..n : item(m) \in S
  BY PairAtType
<1> HIDE DEF item
<1>2. step \in [1..(n + 1) -> [S -> S]]
  <2>1. ASSUME NEW m \in 1..(n + 1), NEW s \in S PROVE s \o item(m - 1) \in S
    <3>1. m - 1 \in 0..n
      BY <1>1
    <3>2. item(m - 1) \in S
      BY <1>1, <3>1
    <3> QED BY <3>2
  <2> HIDE DEF S, n
  <2> QED BY <2>1
<1>3. PICK u \in [0..(n + 1) -> S] : Chain(n + 1, <<>>, step, u)
  <2>1. <<>> \in S
    OBVIOUS
  <2> HIDE DEF step, n, S
  <2> QED BY <1>1, <1>2, <2>1, Recursion
<1>4. u[0] = <<>>
  BY <1>3 DEF Chain
<1>5. ASSUME NEW m \in 0..n PROVE u[m + 1] = u[m] \o item(m)
  <2>1. m + 1 \in 1..(n + 1) /\ (m + 1) - 1 = m /\ m \in 0..(n + 1)
    BY <1>1
  <2>2. u[m] \in S
    BY <2>1
  <2>3. u[m + 1] = step[m + 1][u[m]]
    BY <1>3, <2>1 DEF Chain
  <2>4. step[m + 1] = [s \in S |-> s \o item(m)]
    <3> HIDE DEF S, n
    <3> QED BY <2>1
  <2> HIDE DEF step, S
  <2> QED BY <2>2, <2>3, <2>4
<1> DEFINE Is(g) == g = [m \in 0..n |-> IF m = 0 THEN item(0) ELSE g[m - 1] \o item(m)]
<1>6. List!Meaning(t, flags) = (CHOOSE g : Is(g))[n]
  BY DEF List!Meaning, item
<1> HIDE DEF S, step
<1> DEFINE v == [m \in 0..n |-> u[m + 1]]
<1>7. Is(v)
  <2>1. ASSUME NEW m \in 0..n PROVE v[m] = IF m = 0 THEN item(0) ELSE v[m - 1] \o item(m)
    <3>1. CASE m = 0
      <4>1. u[1] = u[0] \o item(0) /\ item(0) \in S
        BY <1>1, <1>5
      <4>2. <<>> \o item(0) = item(0)
        BY <4>1 DEF S
      <4> QED BY <1>1, <1>4, <3>1, <4>1, <4>2
    <3>2. CASE m # 0
      <4>1. m - 1 \in 0..n /\ (m - 1) + 1 = m
        BY <1>1, <3>2
      <4>2. v[m - 1] = u[m] /\ v[m] = u[m + 1]
        BY <4>1
      <4> QED BY <1>5, <3>2, <4>2
    <3> QED BY <3>1, <3>2
  <2> HIDE DEF n
  <2>2. v = [m \in 0..n |-> v[m]]
    OBVIOUS
  <2> HIDE DEF v
  <2>3. [m \in 0..n |-> v[m]] = [m \in 0..n |-> IF m = 0 THEN item(0) ELSE v[m - 1] \o item(m)]
    BY <2>1
  <2> QED BY <2>2, <2>3
<1>8. ASSUME NEW g, Is(g) PROVE g[n] = v[n]
  <2>0. ASSUME NEW m \in 0..n PROVE g[m] = IF m = 0 THEN item(0) ELSE g[m - 1] \o item(m)
    BY <1>8
  <2>1. ASSUME NEW m \in 0..n PROVE v[m] = IF m = 0 THEN item(0) ELSE v[m - 1] \o item(m)
    <3> HIDE DEF v
    <3> QED BY <1>7
  <2> HIDE DEF Is, v, n
  <2> DEFINE P == {m \in 0..n : g[m] = v[m]}
  <2>2. 0 \in P
    BY <1>1, <2>0, <2>1
  <2>3. ASSUME NEW m \in 1..n, m - 1 \in P PROVE m \in P
    <3>1. m \in 0..n /\ m # 0 /\ g[m - 1] = v[m - 1]
      BY <1>1, <2>3
    <3> QED BY <2>0, <2>1, <3>1
  <2>4. \A m \in 0..n : m \in P
    <3> HIDE DEF P
    <3> QED BY <1>1, <2>2, <2>3, UpTo
  <2> QED BY <1>1, <2>4
<1>9. List!Meaning(t, flags) = v[n]
  <2> HIDE DEF Is, v
  <2> QED BY <1>6, <1>7, <1>8
<1>10. v[n] = u[n + 1]
  BY <1>1
<1>11. Adding(t, flags, u)
  BY <1>3, <1>4, <1>5 DEF Adding, S, item
<1> QED BY <1>9, <1>10, <1>11

-----------------------------------------------------------------------------
(* A parse among the pieces of its text. *)

\* The pairs of the pieces before c; at the end, of all.
Reached(u, t, c) == u[IF c < Len(t) THEN c ELSE Len(t) + 1]

LEMMA AddingTypes ==
  ASSUME NEW t \in Seq(Int), NEW flags, NEW u, Adding(t, flags, u)
  PROVE  /\ Len(t) \in Nat
         /\ \A n \in 0..(Len(t) + 1) : u[n] \in Seq(KeyValue) /\ Len(u[n]) \in Nat
         /\ \A n \in 0..Len(t) : List!PairAt(t, n, flags) \in Seq(KeyValue)
<1>1. \A n \in 0..(Len(t) + 1) : u[n] \in Seq(KeyValue)
  BY DEF Adding
<1>2. \A n \in 0..(Len(t) + 1) : Len(u[n]) \in Nat
  BY <1>1
<1>3. \A n \in 0..Len(t) : List!PairAt(t, n, flags) \in Seq(KeyValue)
  BY PairAtType
<1> QED BY <1>1, <1>2, <1>3

\* Positions at which no pair ends.
LEMMA Passing ==
  ASSUME NEW t \in Seq(Int), NEW flags, NEW u, Adding(t, flags, u),
         NEW a \in 0..(Len(t) + 1), NEW b \in a..(Len(t) + 1),
         \A n \in a..(b - 1) : List!PairAt(t, n, flags) = <<>>
  PROVE  u[b] = u[a]
<1> DEFINE P == {m \in 0..(b - a) : u[a + m] = u[a]}
<1>0. Len(t) \in Nat
  OBVIOUS
<1>1. 0 \in P
  BY <1>0
<1>2. ASSUME NEW m \in 1..(b - a), m - 1 \in P PROVE m \in P
  <2> DEFINE n == a + (m - 1)
  <2>1. n \in a..(b - 1) /\ n \in 0..Len(t) /\ n \in 0..(Len(t) + 1) /\ n + 1 = a + m /\ m \in 0..(b - a)
    BY <1>0
  <2>2. u[n] = u[a]
    BY <1>2
  <2> HIDE DEF n
  <2>3. u[n + 1] = u[n] \o <<>>
    BY <2>1 DEF Adding
  <2>4. u[n] \in Seq(KeyValue)
    BY <2>1, AddingTypes
  <2>5. u[n] \o <<>> = u[n]
    BY <2>4
  <2> QED BY <2>1, <2>2, <2>3, <2>5
<1> HIDE DEF P
<1>3. b - a \in Nat /\ a + (b - a) = b /\ b - a \in 0..(b - a)
  BY <1>0
<1>4. \A m \in 0..(b - a) : m \in P
  BY <1>1, <1>2, <1>3, UpTo
<1>5. b - a \in P
  BY <1>3, <1>4
<1> QED BY <1>3, <1>5 DEF P

\* A piece of no bytes has no pair; nor is there one inside a piece.
LEMMA EmptyPiece ==
  ASSUME NEW t \in Seq(Int), NEW n \in 0..Len(t), Begin(t, n), n = Len(t) \/ At(t, n) = Amp,
         NEW flags
  PROVE  List!PairAt(t, n, flags) = <<>>
<1>1. KeyEnd(t, n) = n
  BY FindIs DEF KeyEnd
<1>2. Key(t, n) = <<>> /\ Key(t, n) \in Seq(Int) /\ Value(t, n) \in Seq(Int)
  <2>1. Key(t, n) \in Seq(Int) /\ Value(t, n) \in Seq(Int) /\ Len(Key(t, n)) = KeyEnd(t, n) - n
    BY PairParts
  <2>2. Len(Key(t, n)) = 0
    BY <1>1, <2>1
  <2> QED BY <2>1, <2>2
<1>3. ~Wanted(ShapeOf(Key(t, n), Value(t, n), flags), flags)
  BY <1>2, ShapeOfPair DEF Wanted
<1>4. n \in 0..n /\ Whole(t, n, n)
  BY DEF Whole
<1> QED BY <1>3, <1>4, PairAtIs DEF ItemOf

LEMMA InsidePiece ==
  ASSUME NEW t \in Seq(Int), NEW n \in 0..Len(t), n # Len(t), At(t, n) # Amp, NEW flags
  PROVE  List!PairAt(t, n, flags) = <<>>
<1>1. PICK s \in 0..n : Begin(t, s) /\ Whole(t, s, n)
  BY PieceBegins
<1> QED BY <1>1, PairAtIs

\* What a parse passes over on its way to the next pair.
LEMMA Skips ==
  ASSUME NEW t \in Seq(Int), OfBytes(t), NEW flags, NEW u, Adding(t, flags, u),
         NEW c \in 0..Len(t), c < Len(t), Begin(t, c)
  PROVE  LET s == PairStart(t, c) IN
         /\ s \in c..Len(t) /\ Reached(u, t, s) = Reached(u, t, c)
         /\ s < Len(t) => Begin(t, s) /\ At(t, s) # Amp
<1> DEFINE s == PairStart(t, c)
           n == Len(t)
<1>0. n \in Nat /\ \A k \in 0..(n - 1) : At(t, k) \in 0..255
  BY DEF At, OfBytes
<1>1. s \in c..n
  BY <1>0, StartRange
<1>2. \A k \in c..(s - 1) : At(t, k) = Amp
  <2> SUFFICES ASSUME NEW k \in c..(s - 1) PROVE At(t, k) = Amp
    OBVIOUS
  <2>1. At(t, k) \notin (0..255) \ {Amp}
    BY <1>0, FindPasses DEF PairStart
  <2>2. k \in 0..(n - 1)
    <3> HIDE DEF n, s
    <3> QED BY <1>0, <1>1
  <2>3. At(t, k) \in 0..255
    BY <1>0, <2>2
  <2> QED BY <2>1, <2>3
<1>3. s < n => At(t, s) # Amp
  BY <1>0, FindRange DEF PairStart
<1> HIDE DEF s
<1>4. \A k \in c..s : Begin(t, k)
  <2> SUFFICES ASSUME NEW k \in c..s, k # c PROVE At(t, k - 1) = Amp
    BY DEF Begin
  <2>1. k - 1 \in c..(s - 1)
    BY <1>0, <1>1
  <2> QED BY <1>2, <2>1
<1>5. \A k \in c..(s - 1) : List!PairAt(t, k, flags) = <<>>
  <2> SUFFICES ASSUME NEW k \in c..(s - 1) PROVE List!PairAt(t, k, flags) = <<>>
    OBVIOUS
  <2>1. k \in 0..n /\ k \in c..s
    BY <1>0, <1>1
  <2> QED BY <1>0, <1>2, <1>4, <2>1, EmptyPiece
<1>6. CASE s < n
  <2>1. c \in 0..(n + 1) /\ s \in c..(n + 1)
    BY <1>0, <1>1
  <2>2. u[s] = u[c]
    BY <1>0, <1>5, <2>1, Passing
  <2> QED BY <1>1, <1>3, <1>4, <1>6, <2>2 DEF Reached, s
<1>7. CASE ~(s < n)
  <2>1. s = n /\ c \in 0..(n + 1) /\ n + 1 \in c..(n + 1) /\ (n + 1) - 1 = n
    BY <1>0, <1>1, <1>7
  <2>2. List!PairAt(t, n, flags) = <<>>
    <3>1. Begin(t, n) /\ n \in 0..Len(t)
      BY <1>0, <1>1, <1>4, <2>1
    <3> QED BY <1>0, <3>1, EmptyPiece
  <2>3. \A k \in c..((n + 1) - 1) : List!PairAt(t, k, flags) = <<>>
    <3> SUFFICES ASSUME NEW k \in c..((n + 1) - 1) PROVE List!PairAt(t, k, flags) = <<>>
      OBVIOUS
    <3>1. k = n \/ k \in c..(s - 1)
      BY <1>0, <2>1
    <3> QED BY <1>5, <2>2, <3>1
  <2>4. u[n + 1] = u[c]
    BY <1>0, <2>1, <2>3, Passing
  <2> QED BY <1>1, <1>7, <2>1, <2>4 DEF Reached, s
<1> QED BY <1>6, <1>7

\* The piece it has come to.
LEMMA TakesPair ==
  ASSUME NEW t \in Seq(Int), OfBytes(t), NEW flags, NEW u, Adding(t, flags, u),
         NEW s \in 0..Len(t), s < Len(t), Begin(t, s)
  PROVE  /\ Reached(u, t, PairEnd(t, s)) =
              Reached(u, t, s) \o ItemOf(ShapeOf(Key(t, s), Value(t, s), flags), flags)
         /\ PairEnd(t, s) \in 0..Len(t)
         /\ PairEnd(t, s) < Len(t) => Begin(t, PairEnd(t, s))
<1> DEFINE n == Len(t)
           e == Find(t, {Amp}, s)
           item == ItemOf(ShapeOf(Key(t, s), Value(t, s), flags), flags)
<1>0. n \in Nat
  OBVIOUS
<1>1. e \in s..n /\ Whole(t, s, e) /\ (e = n \/ At(t, e) = Amp)
  <2>1. e \in s..n /\ (e < n => At(t, e) \in {Amp})
    BY <1>0, FindRange
  <2>2. \A h \in s..(e - 1) : At(t, h) \notin {Amp}
    BY <1>0, FindPasses
  <2> HIDE DEF e
  <2> QED BY <1>0, <2>1, <2>2 DEF Whole
<1> HIDE DEF e
<1>2. ValueEnd(t, s) = e
  BY <1>0, <1>1, PairOfPiece
<1>3. PairEnd(t, s) = IF e < n THEN e + 1 ELSE n
  BY <1>0, <1>1, <1>2, PairParts
<1>4. e \in 0..n /\ e \in 0..(n + 1) /\ s \in 0..e /\ s \in 0..(n + 1) /\ e \in s..(n + 1)
  BY <1>0, <1>1
<1>5. u[e] = u[s]
  <2>1. \A k \in s..(e - 1) : List!PairAt(t, k, flags) = <<>>
    <3> SUFFICES ASSUME NEW k \in s..(e - 1) PROVE List!PairAt(t, k, flags) = <<>>
      OBVIOUS
    <3>1. k \in 0..n /\ k # n /\ At(t, k) # Amp
      BY <1>0, <1>1 DEF Whole
    <3> QED BY <1>0, <3>1, InsidePiece
  <2> QED BY <1>0, <1>4, <2>1, Passing
<1>6. u[e + 1] = u[s] \o item
  <2>1. List!PairAt(t, e, flags) = item
    BY <1>0, <1>1, <1>4, PairAtIs
  <2>2. u[e + 1] = u[e] \o List!PairAt(t, e, flags)
    BY <1>4 DEF Adding
  <2> QED BY <1>5, <2>1, <2>2
<1> HIDE DEF item
<1>7. Reached(u, t, s) = u[s]
  BY DEF Reached
<1>8. CASE e = n
  BY <1>0, <1>3, <1>6, <1>7, <1>8 DEF Reached, item
<1>9. CASE e # n
  <2>1. e < n /\ PairEnd(t, s) = e + 1 /\ e + 1 \in 0..n
    BY <1>0, <1>1, <1>3, <1>9
  <2>2. Begin(t, e + 1)
    <3>1. At(t, e) = Amp /\ (e + 1) - 1 = e
      BY <1>1, <1>9, <2>1
    <3> QED BY <3>1 DEF Begin
  <2>3. Reached(u, t, e + 1) = u[e + 1]
    <3>1. CASE e + 1 < n
      BY <3>1 DEF Reached
    <3>2. CASE ~(e + 1 < n)
      <4>1. e + 1 = n /\ n \in 0..(n + 1) /\ n + 1 \in n..(n + 1)
            /\ \A k \in n..((n + 1) - 1) : k = n
        BY <1>0, <2>1, <3>2
      <4>2. List!PairAt(t, n, flags) = <<>>
        <5>1. Begin(t, n) /\ n \in 0..Len(t)
          BY <1>0, <2>2, <4>1
        <5> QED BY <1>0, <5>1, EmptyPiece
      <4>3. u[n + 1] = u[n]
        BY <1>0, <4>1, <4>2, Passing
      <4> QED BY <1>0, <3>2, <4>1, <4>3 DEF Reached
    <3> QED BY <3>1, <3>2
  <2> QED BY <1>6, <1>7, <2>1, <2>2, <2>3 DEF item
<1> QED BY <1>8, <1>9

\* What is found stays.
LEMMA PrefixStays ==
  ASSUME NEW t \in Seq(Int), NEW flags, NEW u, Adding(t, flags, u), NEW a \in 0..(Len(t) + 1)
  PROVE  /\ Len(u[a]) \in 0..Len(u[Len(t) + 1])
         /\ SubSeq(u[Len(t) + 1], 1, Len(u[a])) = u[a]
<1> DEFINE n == Len(t) + 1
           Leading(m) == /\ Len(u[a]) <= Len(u[a + m])
                         /\ \A i \in 1..Len(u[a]) : u[a + m][i] = u[a][i]
           P == {m \in 0..(n - a) : Leading(m)}
<1>0. n \in Nat /\ n - a \in Nat /\ a + (n - a) = n
      /\ \A k \in 0..n : u[k] \in Seq(KeyValue) /\ Len(u[k]) \in Nat
  BY AddingTypes
<1>1. 0 \in P
  BY <1>0
<1>2. ASSUME NEW m \in 1..(n - a), m - 1 \in P PROVE m \in P
  <2> DEFINE k == a + (m - 1)
             item == List!PairAt(t, k, flags)
  <2>1. k \in 0..Len(t) /\ k \in 0..n /\ k + 1 = a + m /\ m \in 0..(n - a)
    BY <1>0
  <2>2. Leading(m - 1)
    BY <1>2
  <2>3. Len(u[a]) <= Len(u[k]) /\ \A i \in 1..Len(u[a]) : u[k][i] = u[a][i]
    BY <2>2
  <2> HIDE DEF k
  <2>4. u[k + 1] = u[k] \o item /\ item \in Seq(KeyValue) /\ u[k] \in Seq(KeyValue)
    BY <2>1, AddingTypes DEF Adding
  <2> HIDE DEF item, n
  <2>5. /\ Len(u[k]) <= Len(u[k + 1]) /\ Len(u[k]) \in Nat /\ Len(u[k + 1]) \in Nat
        /\ \A i \in 1..Len(u[k]) : u[k + 1][i] = u[k][i]
    BY <2>4
  <2>6. Len(u[a]) \in Nat
    BY <1>0 DEF n
  <2>7. Leading(m)
    <3>1. Len(u[a]) <= Len(u[k + 1])
      BY <2>3, <2>5, <2>6
    <3>2. ASSUME NEW i \in 1..Len(u[a]) PROVE u[k + 1][i] = u[a][i]
      <4>1. i \in 1..Len(u[k])
        BY <2>3, <2>5, <2>6
      <4> QED BY <2>3, <2>5, <4>1
    <3> QED BY <2>1, <3>1, <3>2
  <2> HIDE DEF Leading
  <2> QED BY <2>1, <2>7
<1> HIDE DEF P
<1>3. \A m \in 0..(n - a) : m \in P
  <2> HIDE DEF n
  <2> QED BY <1>0, <1>1, <1>2, UpTo
<1>4. n - a \in P
  BY <1>0, <1>3
<1>5. Leading(n - a)
  BY <1>4 DEF P
<1>6. u[n] \in Seq(KeyValue) /\ u[a] \in Seq(KeyValue) /\ Len(u[n]) \in Nat /\ Len(u[a]) \in Nat
  BY <1>0
<1>7. Len(u[a]) <= Len(u[n]) /\ \A i \in 1..Len(u[a]) : u[n][i] = u[a][i]
  BY <1>0, <1>5
<1> HIDE DEF n
<1>8. SubSeq(u[n], 1, Len(u[a])) = u[a]
  <2> DEFINE w == u[n]
             x == u[a]
  <2>1. w \in Seq(KeyValue) /\ x \in Seq(KeyValue) /\ Len(x) <= Len(w) /\ \A i \in 1..Len(x) : w[i] = x[i]
    BY <1>6, <1>7
  <2> HIDE DEF w, x
  <2>2. SubSeq(w, 1, Len(x)) = x
    BY <2>1
  <2> QED BY <2>2 DEF w, x
<1> QED BY <1>6, <1>7, <1>8 DEF n

\* What a parse has found when it has come to c.
Sofar(t, flags, c) ==
  Reached(CHOOSE u : Adding(t, flags, u) /\ List!Meaning(t, flags) = u[Len(t) + 1], t, c)

LEMMA SofarIs ==
  ASSUME NEW t \in Seq(Int), NEW flags
  PROVE  \E u : /\ Adding(t, flags, u) /\ List!Meaning(t, flags) = u[Len(t) + 1]
                /\ \A c : Sofar(t, flags, c) = Reached(u, t, c)
<1> DEFINE Is(u) == Adding(t, flags, u) /\ List!Meaning(t, flags) = u[Len(t) + 1]
<1>1. \E u : Is(u)
  BY MeaningSteps
<1>2. \A c : Sofar(t, flags, c) = Reached(CHOOSE u : Is(u), t, c)
  BY DEF Sofar
<1> HIDE DEF Is
<1>3. Is(CHOOSE u : Is(u))
  BY <1>1
<1> QED BY <1>2, <1>3 DEF Is

\* At first nothing; at the end the meaning of the text, of which it is always a beginning.
LEMMA SofarEnds ==
  ASSUME NEW t \in Seq(Int), NEW flags
  PROVE  /\ Sofar(t, flags, 0) = <<>>
         /\ Sofar(t, flags, Len(t)) = List!Meaning(t, flags)
         /\ List!Meaning(t, flags) \in Seq(KeyValue)
<1>1. PICK u : /\ Adding(t, flags, u) /\ List!Meaning(t, flags) = u[Len(t) + 1]
               /\ \A c : Sofar(t, flags, c) = Reached(u, t, c)
  BY SofarIs
<1>2. Len(t) \in Nat /\ u[0] = <<>> /\ u[Len(t) + 1] \in Seq(KeyValue)
  BY <1>1 DEF Adding
<1>3. Sofar(t, flags, Len(t)) = u[Len(t) + 1]
  BY <1>1, <1>2 DEF Reached
<1>4. CASE Len(t) = 0
  <2>1. List!PairAt(t, 0, flags) = <<>>
    <3>1. Begin(t, 0) /\ 0 \in 0..Len(t) /\ 0 = Len(t)
      BY <1>4 DEF Begin
    <3> QED BY <3>1, EmptyPiece
  <2>2. u[0 + 1] = u[0] \o <<>>
    BY <1>2, <2>1, <1>1 DEF Adding
  <2>3. u[1] = <<>>
    BY <1>2, <2>2
  <2> QED BY <1>1, <1>2, <1>3, <1>4, <2>3
<1>5. CASE Len(t) # 0
  BY <1>1, <1>2, <1>3, <1>5 DEF Reached
<1> QED BY <1>4, <1>5

LEMMA SofarLeads ==
  ASSUME NEW t \in Seq(Int), NEW flags, NEW c \in 0..Len(t)
  PROVE  /\ Sofar(t, flags, c) \in Seq(KeyValue)
         /\ Len(Sofar(t, flags, c)) \in 0..Len(List!Meaning(t, flags))
         /\ SubSeq(List!Meaning(t, flags), 1, Len(Sofar(t, flags, c))) = Sofar(t, flags, c)
<1>1. PICK u : /\ Adding(t, flags, u) /\ List!Meaning(t, flags) = u[Len(t) + 1]
               /\ Sofar(t, flags, c) = Reached(u, t, c)
  BY SofarIs
<1>2. PICK a \in 0..(Len(t) + 1) : Reached(u, t, c) = u[a]
  <2>1. Len(t) \in Nat
    OBVIOUS
  <2>2. (IF c < Len(t) THEN c ELSE Len(t) + 1) \in 0..(Len(t) + 1)
    BY <2>1
  <2> QED BY <2>2 DEF Reached
<1>3. u[a] \in Seq(KeyValue)
  BY <1>1, AddingTypes
<1> QED BY <1>1, <1>2, <1>3, PrefixStays

LEMMA SofarSkips ==
  ASSUME NEW t \in Seq(Int), OfBytes(t), NEW flags, NEW c \in 0..Len(t), c < Len(t), Begin(t, c)
  PROVE  LET s == PairStart(t, c) IN
         /\ s \in c..Len(t) /\ Sofar(t, flags, s) = Sofar(t, flags, c)
         /\ s < Len(t) => Begin(t, s)
<1>1. PICK u : /\ Adding(t, flags, u) /\ List!Meaning(t, flags) = u[Len(t) + 1]
               /\ \A d : Sofar(t, flags, d) = Reached(u, t, d)
  BY SofarIs
<1> QED BY <1>1, Skips

LEMMA SofarTakes ==
  ASSUME NEW t \in Seq(Int), OfBytes(t), NEW flags, NEW s \in 0..Len(t), s < Len(t), Begin(t, s)
  PROVE  /\ Sofar(t, flags, PairEnd(t, s)) =
              Sofar(t, flags, s) \o ItemOf(ShapeOf(Key(t, s), Value(t, s), flags), flags)
         /\ PairEnd(t, s) \in 0..Len(t)
         /\ PairEnd(t, s) < Len(t) => Begin(t, PairEnd(t, s))
<1>1. PICK u : /\ Adding(t, flags, u) /\ List!Meaning(t, flags) = u[Len(t) + 1]
               /\ \A d : Sofar(t, flags, d) = Reached(u, t, d)
  BY SofarIs
<1>2. /\ Reached(u, t, PairEnd(t, s)) =
              Reached(u, t, s) \o ItemOf(ShapeOf(Key(t, s), Value(t, s), flags), flags)
      /\ PairEnd(t, s) \in 0..Len(t)
      /\ PairEnd(t, s) < Len(t) => Begin(t, PairEnd(t, s))
  BY <1>1, TakesPair
<1> QED BY <1>1, <1>2

-----------------------------------------------------------------------------
(* The parsing loop: the slots before index hold what the text means so far. *)

Slot(p)    == [k |-> p.k, v |-> p.v]
Lead(y, n) == [i \in 1..n |-> Slot(y.pairs[i])]

LoopInv ==
  /\ OfBytes(text)
  /\ pc \in {"pair", "value"} =>
       /\ q[me].count = 0
       /\ Lead(q[me], index) = Sofar(text, q[me].flags, cur)
       /\ cur < Len(text) => Begin(text, cur)
  /\ pc = "value" => q[me].pairs[index + 1].k = Key(text, cur)

LEMMA LeadIs ==
  ASSUME NEW y \in Object, NEW n \in 0..Len(y.pairs)
  PROVE  /\ Lead(y, n) \in Seq(KeyValue) /\ Len(Lead(y, n)) = n
         /\ \A i \in 1..n : Lead(y, n)[i] = Slot(y.pairs[i])
<1>1. n \in Nat /\ \A i \in 1..n : y.pairs[i] \in Pair
  BY DEF Object
<1>2. \A i \in 1..n : Slot(y.pairs[i]) \in KeyValue
  BY <1>1 DEF Pair, Slot, KeyValue
<1> QED BY <1>1, <1>2 DEF Lead

LEMMA LeadStays ==
  ASSUME NEW y, NEW v, NEW n, \A i \in 1..n : v.pairs[i] = y.pairs[i]
  PROVE  Lead(v, n) = Lead(y, n)
BY DEF Lead

LEMMA LeadGrows ==
  ASSUME NEW y \in Object, NEW n \in Nat, n + 1 <= Len(y.pairs)
  PROVE  Lead(y, n + 1) = Lead(y, n) \o <<Slot(y.pairs[n + 1])>>
<1>1. n \in 0..Len(y.pairs) /\ n + 1 \in 0..Len(y.pairs)
  BY DEF Object
<1>2. /\ Lead(y, n) \in Seq(KeyValue) /\ Len(Lead(y, n)) = n
      /\ \A i \in 1..n : Lead(y, n)[i] = Slot(y.pairs[i])
      /\ Lead(y, n + 1) \in Seq(KeyValue) /\ Len(Lead(y, n + 1)) = n + 1
      /\ \A i \in 1..(n + 1) : Lead(y, n + 1)[i] = Slot(y.pairs[i])
  BY <1>1, LeadIs
<1>3. Slot(y.pairs[n + 1]) \in KeyValue
  <2>1. n + 1 \in 1..(n + 1) /\ Slot(y.pairs[n + 1]) = Lead(y, n + 1)[n + 1]
    BY <1>2
  <2> QED BY <1>2, <2>1
<1> DEFINE a == Lead(y, n)
           b == Lead(y, n + 1)
           s == Slot(y.pairs[n + 1])
<1>4. /\ a \in Seq(KeyValue) /\ Len(a) = n /\ b \in Seq(KeyValue) /\ Len(b) = n + 1
      /\ s \in KeyValue /\ b[n + 1] = s /\ \A i \in 1..n : b[i] = a[i]
  BY <1>2, <1>3
<1> HIDE DEF a, b, s
<1>5. b = a \o <<s>>
  BY <1>4
<1> QED BY <1>5 DEF a, b, s

LEMMA TextBytes ==
  ASSUME NEW t \in Texts
  PROVE  /\ t \in Seq(Int) /\ Unquestioned(t) \in Seq(Int) /\ OfBytes(Unquestioned(t))
         /\ OfBytes(decode_in_place(Unquestioned(t)))
<1>1. t \in Seq(0..255) /\ 0..255 \subseteq Int
  BY QueryAssumptions
<1>2. t \in Seq(Int)
  BY <1>1, SeqMonotonic
<1>3. OfBytes(t)
  <2> DEFINE B == 0..255
  <2>1. t \in Seq(B)
    BY <1>1
  <2> HIDE DEF B
  <2>2. \A k \in 1..Len(t) : t[k] \in B
    BY <2>1
  <2> QED BY <2>2 DEF B, OfBytes
<1> QED BY <1>2, <1>3, UnquestionedLength, DecodeInPlaceLength

LEMMA NoText == OfBytes(<<>>)
BY DEF OfBytes

LEMMA ParseLoop ==
  ASSUME TypeInv, NEW x \in Queries, NEW t \in Texts, NEW size \in BufferSizes,
         llquery_parse_ex(x, t, size)
  PROVE  LoopInv'
<1>1. pc' \in {"idle", "decode", "pool"}
      /\ text' \in {<<>>, Unquestioned(t), decode_in_place(Unquestioned(t))}
  BY DEF llquery_parse_ex, Goes, Ends
<1> QED BY <1>1, TextBytes, NoText DEF LoopInv

LEMMA DecodeLoop == ASSUME TypeInv, LoopInv, DecodeBuffer PROVE LoopInv'
<1>1. pc' \in {"idle", "pool"} /\ text' \in {<<>>, decode_in_place(text)} /\ text \in Seq(Int)
  BY DEF DecodeBuffer, Goes, Ends, TypeInv, Types
<1> QED BY <1>1, DecodeInPlaceLength, NoText DEF LoopInv

LEMMA StringPoolLoop == ASSUME TypeInv, TypeInv', LoopInv, StringPool PROVE LoopInv'
<1>1. /\ pc = "pool" /\ me \in Queries /\ q[me] \in Object /\ cur = 0 /\ index = 0
      /\ q[me].count = 0 /\ text \in Seq(Int)
  BY DEF StringPool, TypeInv, Types, Control, Parses
<1>2. pc' = "pair" /\ UNCHANGED <<me, other, text, len, cur, index, write>>
  BY DEF StringPool, Goes, locals
<1>3. q'[me].count = 0
  <2>1. q[me].count = 0 /\ q \in [Queries -> Object]
    BY <1>1 DEF TypeInv, Types
  <2>2. ASSUME NEW b, Update(me, [q[me] EXCEPT !.pool = b, !.pool_used = 0,
                                              !.pool_size = estimate_string_size(len)])
        PROVE  q'[me].count = 0
    <3>1. q'[me] = [q[me] EXCEPT !.pool = b, !.pool_used = 0,
                                 !.pool_size = estimate_string_size(len)]
      BY <1>1, <2>1, <2>2 DEF Update
    <3> QED BY <1>1, <3>1 DEF Object
  <2> QED BY <2>1, <2>2 DEF StringPool
<1>4. \A y : Lead(y, 0) = <<>>
  BY DEF Lead
<1>5. Sofar(text, q'[me].flags, 0) = <<>>
  BY <1>1, SofarEnds
<1> QED BY <1>1, <1>2, <1>3, <1>4, <1>5 DEF LoopInv, Begin

\* What is known at a turn of the loop.
LEMMA LoopTurn ==
  ASSUME TypeInv, LoopInv, pc \in {"pair", "value"}
  PROVE  /\ me \in Queries /\ q[me] \in Object /\ Fits(q[me]) /\ q[me].up
         /\ q[me].count = 0 /\ Len(q[me].pairs) = q[me].max /\ q[me].max \in Nat
         /\ text \in Seq(Int) /\ OfBytes(text) /\ Len(text) \in Nat /\ cur \in 0..Len(text)
         /\ index \in 0..q[me].max /\ q[me].pairs \in Seq(Pair)
         /\ Lead(q[me], index) = Sofar(text, q[me].flags, cur)
         /\ cur < Len(text) => Begin(text, cur)
BY AtTurn DEF LoopInv, Object

LEMMA SkipLoop == ASSUME TypeInv, LoopInv, SkipPair PROVE LoopInv'
<1>1. /\ pc = "pair" /\ cur < Len(text) /\ ~(Start < Len(text) /\ Key(text, Start) # <<>>)
      /\ cur' = (IF Start < Len(text) THEN PairEnd(text, Start) ELSE Len(text))
      /\ pc' = "pair" /\ UNCHANGED <<q, heaps, me, other, text, len, index, write>>
  BY DEF SkipPair, MorePairs, AtPair, Goes
<1> DEFINE flags == q[me].flags
<1>2. /\ Start \in cur..Len(text) /\ Sofar(text, flags, Start) = Sofar(text, flags, cur)
      /\ Start < Len(text) => Begin(text, Start)
  BY <1>1, LoopTurn, SofarSkips DEF Start
<1>3. /\ Sofar(text, flags, cur') = Sofar(text, flags, cur)
      /\ cur' < Len(text) => Begin(text, cur')
  <2>1. CASE Start < Len(text)
    <3>1. /\ Sofar(text, flags, PairEnd(text, Start)) =
               Sofar(text, flags, Start)
                 \o ItemOf(ShapeOf(Key(text, Start), Value(text, Start), flags), flags)
          /\ PairEnd(text, Start) < Len(text) => Begin(text, PairEnd(text, Start))
      <4>1. Start \in 0..Len(text) /\ Begin(text, Start) /\ text \in Seq(Int) /\ OfBytes(text)
        BY <1>1, <1>2, <2>1, LoopTurn
      <4> QED BY <2>1, <4>1, SofarTakes
    <3>2. ItemOf(ShapeOf(Key(text, Start), Value(text, Start), flags), flags) = <<>>
      <4>1. Start \in 0..Len(text) /\ Key(text, Start) = <<>>
        BY <1>1, <1>2, <2>1, LoopTurn
      <4>2. Key(text, Start) \in Seq(Int) /\ Value(text, Start) \in Seq(Int)
        BY <1>1, <4>1, LoopTurn, PairParts
      <4>3. ShapeOf(Key(text, Start), Value(text, Start), flags).k = <<>>
        BY <4>1, <4>2, ShapeOfPair
      <4> QED BY <4>3 DEF ItemOf, Wanted
    <3>3. Sofar(text, flags, Start) \in Seq(KeyValue)
      <4>1. Start \in 0..Len(text)
        BY <1>1, <1>2, LoopTurn
      <4> QED BY <1>1, <4>1, LoopTurn, SofarLeads
    <3>4. Sofar(text, flags, PairEnd(text, Start)) = Sofar(text, flags, Start)
      <4> DEFINE w == Sofar(text, flags, Start)
      <4>1. w \in Seq(KeyValue) /\ Sofar(text, flags, PairEnd(text, Start)) = w \o <<>>
        BY <3>1, <3>2, <3>3
      <4> HIDE DEF w
      <4>2. w \o <<>> = w
        BY <4>1
      <4> QED BY <4>1, <4>2 DEF w
    <3> QED BY <1>1, <1>2, <2>1, <3>1, <3>4
  <2>2. CASE ~(Start < Len(text))
    <3>1. Start = Len(text) /\ cur' = Len(text) /\ Len(text) \in Nat
      BY <1>1, <1>2, <2>2, LoopTurn
    <3> QED BY <1>2, <3>1
  <2> QED BY <2>1, <2>2
<1>4. q[me].count = 0 /\ Lead(q[me], index) = Sofar(text, flags, cur) /\ OfBytes(text)
  BY <1>1, LoopTurn
<1>5. /\ q' = q /\ me' = me /\ text' = text /\ index' = index /\ pc' = "pair"
  BY <1>1
<1> QED BY <1>3, <1>4, <1>5 DEF LoopInv

LEMMA KeyLoop == ASSUME TypeInv, LoopInv, ParseKey PROVE LoopInv'
<1>1. /\ pc = "pair" /\ cur < Len(text) /\ index < q[me].max /\ Start < Len(text)
  BY DEF ParseKey, AtPair, MorePairs
<1>2. ASSUME NEW v, NEW s, KeyTaken(v, s) PROVE LoopInv'
  <2>1. /\ v \in Object /\ v.count = q[me].count /\ v.flags = q[me].flags
        /\ s.k = Key(text, Start) /\ s \in Pair
        /\ v.pairs = [q[me].pairs EXCEPT ![index + 1] = s] /\ Update(me, v)
        /\ cur' = Start /\ pc' = "value" /\ UNCHANGED <<me, other, text, len, index, write>>
    BY <1>2 DEF KeyTaken, Kin
  <2>2. q'[me] = v
    BY <1>1, <2>1, LoopTurn, Updated DEF TypeInv, Types
  <2>3. index \in 0..q[me].max /\ index \in Nat /\ Len(q[me].pairs) = q[me].max
        /\ q[me].pairs \in Seq(Pair)
    BY <1>1, LoopTurn
  <2>4. /\ index + 1 \in 1..Len(q[me].pairs)
        /\ v.pairs[index + 1] = s /\ \A i \in 1..index : v.pairs[i] = q[me].pairs[i]
    BY <1>1, <2>1, <2>3
  <2>5. Lead(v, index) = Lead(q[me], index)
    BY <2>4, LeadStays
  <2>6. /\ Sofar(text, q[me].flags, Start) = Sofar(text, q[me].flags, cur)
        /\ Begin(text, Start)
    BY <1>1, LoopTurn, SofarSkips DEF Start
  <2>7. Lead(q[me], index) = Sofar(text, q[me].flags, cur) /\ q[me].count = 0 /\ OfBytes(text)
    BY <1>1, LoopTurn
  <2> QED BY <2>1, <2>2, <2>4, <2>5, <2>6, <2>7 DEF LoopInv
<1>3. CASE pc' = "idle" /\ text' = <<>>
  BY <1>3, NoText DEF LoopInv
<1> QED BY <1>2, <1>3, KeyEffect DEF StopParsing, Ends

LEMMA ValueLoop == ASSUME TypeInv, PoolInv, LoopInv, ParseValue PROVE LoopInv'
<1>1. /\ pc = "value" /\ cur < Len(text) /\ index < q[me].max
  <2>1. pc = "value"
    BY DEF ParseValue
  <2> QED BY <2>1, AtTurn
<1> DEFINE flags == q[me].flags
           k == Key(text, cur)
           w == Value(text, cur)
           p == ShapeOf(k, w, flags)
<1>2. ASSUME NEW v, NEW s, NEW keep \in BOOLEAN, ValueTaken(v, s, keep) PROVE LoopInv'
  <2>1. /\ v \in Object /\ v.count = q[me].count /\ v.flags = flags /\ s \in Pair
        /\ v.pairs = [q[me].pairs EXCEPT ![index + 1] = s] /\ Update(me, v)
        /\ cur' = PairEnd(text, cur) /\ pc' = "pair"
        /\ index' = (IF keep THEN index + 1 ELSE index)
        /\ UNCHANGED <<me, other, text, len, write>>
    BY <1>2 DEF ValueTaken, Kin
  <2>2. q'[me] = v
    BY <1>1, <2>1, LoopTurn, Updated DEF TypeInv, Types
  <2>3. index \in 0..q[me].max /\ index \in Nat /\ Len(q[me].pairs) = q[me].max
        /\ q[me].pairs \in Seq(Pair)
    BY <1>1, LoopTurn
  <2>4. /\ index + 1 \in 1..Len(q[me].pairs) /\ index + 1 <= Len(v.pairs)
        /\ v.pairs[index + 1] = s /\ \A i \in 1..index : v.pairs[i] = q[me].pairs[i]
    BY <1>1, <2>1, <2>3
  <2>5. Lead(v, index) = Lead(q[me], index)
    BY <2>4, LeadStays
  <2>6. q[me].pairs[index + 1].k = k /\ q[me].pairs[index + 1].v = w /\ k # <<>>
    BY <1>1 DEF LoopInv, PoolInv
  <2>7. Slot(s) = p /\ (keep <=> "KEEP_EMPTY" \in flags \/ p.v # <<>>)
    <3>1. /\ s.k = (IF "LOWERCASE_KEYS" \in flags THEN lowercase_string(k) ELSE k)
          /\ s.v = (IF "TRIM_VALUES" \in flags THEN trim_string(w) ELSE w)
          /\ keep <=> "KEEP_EMPTY" \in flags \/ s.v # <<>>
      BY <1>2, <2>6 DEF ValueTaken
    <3>2. Slot(s) = p
      BY <3>1 DEF Slot, ShapeOf
    <3>3. p.v = s.v
      BY <3>2 DEF Slot
    <3> QED BY <3>1, <3>2, <3>3
  <2>8. k \in Seq(Int) /\ w \in Seq(Int) /\ p.k # <<>>
    <3>1. k \in Seq(Int) /\ w \in Seq(Int)
      BY <1>1, LoopTurn, PairParts
    <3> QED BY <2>6, <3>1, ShapeOfPair
  <2> HIDE DEF p
  <2>9. ItemOf(p, flags) = IF keep THEN <<p>> ELSE <<>>
    BY <2>7, <2>8 DEF ItemOf, Wanted
  <2>10. /\ Sofar(text, flags, PairEnd(text, cur)) = Sofar(text, flags, cur) \o ItemOf(p, flags)
         /\ PairEnd(text, cur) < Len(text) => Begin(text, PairEnd(text, cur))
    BY <1>1, LoopTurn, SofarTakes DEF p
  <2>11. Sofar(text, flags, cur) = Lead(q[me], index) /\ q[me].count = 0 /\ OfBytes(text)
    BY <1>1, LoopTurn
  <2>12. Lead(v, index') = Lead(v, index) \o ItemOf(p, flags)
    <3>1. CASE keep
      <4>1. Lead(v, index + 1) = Lead(v, index) \o <<Slot(v.pairs[index + 1])>>
        BY <2>1, <2>3, <2>4, LeadGrows
      <4>2. index' = index + 1 /\ ItemOf(p, flags) = <<p>> /\ Slot(v.pairs[index + 1]) = p
        BY <2>1, <2>4, <2>7, <2>9, <3>1
      <4> QED BY <4>1, <4>2
    <3>2. CASE ~keep
      <4> DEFINE a == Lead(v, index)
      <4>1. a \in Seq(KeyValue)
        BY <2>1, <2>3, <2>4, LeadIs
      <4> HIDE DEF a
      <4>2. a \o <<>> = a
        BY <4>1
      <4> QED BY <2>1, <2>9, <3>2, <4>2 DEF a
    <3> QED BY <3>1, <3>2
  <2>13. Lead(v, index') = Sofar(text, flags, cur')
    BY <2>1, <2>5, <2>10, <2>11, <2>12
  <2> QED BY <2>1, <2>2, <2>10, <2>11, <2>13 DEF LoopInv
<1>3. CASE pc' = "idle" /\ text' = <<>>
  BY <1>3, NoText DEF LoopInv
<1> QED BY <1>2, <1>3, ValueEffect DEF StopParsing, Ends

LEMMA StepLoop == TypeInv /\ PoolInv /\ LoopInv /\ [Next]_vars => LoopInv'
<1> SUFFICES ASSUME TypeInv, PoolInv, LoopInv, [Next]_vars PROVE LoopInv'
  OBVIOUS
<1>1. CASE Call
  <2>1. CASE \E x \in Queries : \E t \in Texts, n \in BufferSizes : llquery_parse_ex(x, t, n)
    BY <2>1, ParseLoop
  <2>2. CASE ~ \E x \in Queries : \E t \in Texts, n \in BufferSizes : llquery_parse_ex(x, t, n)
    <3>1. pc' \notin {"pair", "value"} /\ text' \in {text, <<>>}
      BY <1>1, <2>2 DEF Call, llquery_init_ex, llquery_clone, NewObject, llquery_reset, llquery_free,
                  llquery_filter, llquery_sort, llquery_set_allocator, Goes, Ends
    <3> QED BY <3>1, NoText DEF LoopInv
  <2> QED BY <2>1, <2>2
<1>2. CASE Step
  <2>1. CASE DecodeBuffer \/ StringPool \/ SkipPair \/ ParseKey \/ ParseValue
    <3>1. CASE StringPool
      <4>1. TypeInv'
        BY <3>1, StringPoolTypes
      <4> QED BY <3>1, <4>1, StringPoolLoop
    <3> QED BY <2>1, <3>1, DecodeLoop, SkipLoop, KeyLoop, ValueLoop
  <2>2. CASE ~(DecodeBuffer \/ StringPool \/ SkipPair \/ ParseKey \/ ParseValue)
    <3>1. pc' \notin {"pair", "value"} /\ text' \in {text, <<>>}
      BY <1>2, <2>2 DEF Step, InitPairs, ParseEnd, StopParsing, FilterPair, FilterEnd, SortPair, SortRound,
                  SortEnd, CloneFails, CloneKey, CloneValue, CloneBuffer, Goes, Ends, locals
    <3> QED BY <3>1, NoText DEF LoopInv
  <2> QED BY <1>2, <2>1, <2>2
<1>3. CASE UNCHANGED vars
  BY <1>3 DEF vars, LoopInv
<1> QED BY <1>1, <1>2, <1>3 DEF Next

-----------------------------------------------------------------------------
(* An object in the making, and how far a clone has come. *)

MadeInv ==
  pc = "init_pairs" =>
    /\ other = me => q[me].max \in Limits \cup {DEFAULT_MAX_PAIRS} /\ q[me].flags \in FlagSets
    /\ other # me => q[me].flags = q[other].flags

CopyInv ==
  pc \in {"clone_key", "clone_value"} =>
    /\ q[me].flags = q[other].flags /\ q[me].max = q[other].max
    /\ Lead(q[me], index) = Lead(q[other], index)
    /\ pc = "clone_value" => q[me].pairs[index + 1].k = q[other].pairs[index + 1].k

LEMMA NewObjectMade ==
  ASSUME TypeInv, NEW x \in Queries, NEW from \in Queries, NEW a \in Allocators,
         NEW max \in Nat, NEW flags \in FlagSets \cup {{}}, pc = "idle",
         from = x => max \in Limits \cup {DEFAULT_MAX_PAIRS} /\ flags \in FlagSets,
         from # x => q[from].flags = flags,
         NewObject(x, from, a, max, flags)
  PROVE  MadeInv'
<1>1. CASE pc' = "idle"
  BY <1>1 DEF MadeInv
<1>2. ASSUME NEW b, me' = x, other' = from,
             Update(x, [Zero EXCEPT !.alloc = a, !.internal = b, !.max = max, !.flags = flags])
      PROVE  MadeInv'
  <2> DEFINE v == [Zero EXCEPT !.alloc = a, !.internal = b, !.max = max, !.flags = flags]
  <2>1. q \in [Queries -> Object]
    BY DEF TypeInv, Types
  <2>2. v.max = max /\ v.flags = flags
    BY DEF Zero
  <2>3. q' = [q EXCEPT ![x] = v]
    BY <1>2 DEF Update
  <2> HIDE DEF v
  <2>4. q'[x] = v /\ (from # x => q'[from] = q[from])
    BY <2>1, <2>3
  <2> QED BY <1>2, <2>2, <2>4 DEF MadeInv
<1> QED BY <1>1, <1>2 DEF NewObject, Ends

LEMMA StepMade == TypeInv /\ MadeInv /\ [Next]_vars => MadeInv'
<1> SUFFICES ASSUME TypeInv, MadeInv, [Next]_vars PROVE MadeInv'
  OBVIOUS
<1>1. CASE pc' # "init_pairs"
  BY <1>1 DEF MadeInv
<1>2. ASSUME NEW x \in Queries, NEW a \in Allocators, NEW n \in Limits, NEW f \in FlagSets,
             llquery_init_ex(x, a, n, f)
      PROVE  MadeInv'
  <2>1. /\ (IF n = 0 THEN DEFAULT_MAX_PAIRS ELSE n) \in Nat
        /\ (IF n = 0 THEN DEFAULT_MAX_PAIRS ELSE n) \in Limits \cup {DEFAULT_MAX_PAIRS}
    BY QueryAssumptions
  <2> QED BY <1>2, <2>1, NewObjectMade DEF llquery_init_ex, Begins
<1>3. ASSUME NEW x \in Queries, NEW y \in Queries, llquery_clone(x, y) PROVE MadeInv'
  <2>1. q[y].max \in Nat /\ q[y].flags \in FlagSets \cup {{}} /\ y # x
    BY <1>3 DEF llquery_clone, TypeInv, Types, Object
  <2> QED BY <1>3, <2>1, NewObjectMade, QueryAssumptions DEF llquery_clone, Begins
<1>4. CASE Call /\ pc' = "init_pairs"
  <2>1. \/ \E x \in Queries : \E a \in Allocators, n \in Limits, f \in FlagSets :
             llquery_init_ex(x, a, n, f)
        \/ \E x, y \in Queries : llquery_clone(x, y)
    BY <1>4 DEF Call, llquery_parse_ex, llquery_reset, llquery_free,
                llquery_filter, llquery_sort, llquery_set_allocator, Goes, Ends
  <2> QED BY <2>1, <1>2, <1>3
<1>5. CASE Step /\ pc' = "init_pairs"
  BY <1>5 DEF Step, InitPairs, DecodeBuffer, StringPool, SkipPair, ParseKey, ParseValue,
              FinishPair, ParseEnd, StopParsing, FilterPair, FilterEnd, SortPair, SortRound,
              SortEnd, CloneFails, CloneKey, CloneValue, CloneBuffer, Goes, Ends
<1>6. CASE UNCHANGED vars
  BY <1>6 DEF vars, MadeInv
<1> QED BY <1>1, <1>4, <1>5, <1>6 DEF Next

LEMMA PairsCopy == ASSUME TypeInv, MadeInv, InitPairs PROVE CopyInv'
<1>1. pc = "init_pairs" /\ me \in Queries /\ index = 0
  BY PairsEffect
<1>2. CASE pc' = "idle"
  BY <1>2 DEF CopyInv
<1>3. ASSUME NEW b, NEW v, PairsMade(b, v), pc' # "idle" PROVE CopyInv'
  <2>1. /\ v \in Object /\ Update(me, v) /\ v.max = q[me].max /\ v.flags = q[me].flags
        /\ other # me /\ other \in Queries /\ pc' = "clone_key"
        /\ UNCHANGED <<me, other, text, len, cur, index, write>>
    BY <1>3 DEF PairsMade, Ends, locals
  <2>2. q'[me] = v /\ q'[other] = q[other]
    BY <1>1, <2>1, Updated DEF TypeInv, Types
  <2>3. q[other].max = q[me].max /\ q[me].flags = q[other].flags
    BY <1>1, <2>1 DEF MadeInv, TypeInv, Control, Initialising
  <2>4. \A y : Lead(y, 0) = <<>>
    BY DEF Lead
  <2> QED BY <1>1, <2>1, <2>2, <2>3, <2>4 DEF CopyInv
<1> QED BY <1>2, <1>3, PairsEffect DEF Ends

\* A string of the source is copied.
LEMMA CopyKeeps ==
  ASSUME TypeInv, CopyInv, pc \in {"clone_key", "clone_value"}, index < q[me].count,
         NEW v, NEW s, NEW b, Copied(v, s, b)
  PROVE  /\ me' = me /\ other' = other /\ other # me
         /\ q'[me] = v /\ q'[other] = q[other]
         /\ v.flags = q[other].flags /\ v.max = q[other].max
         /\ Lead(v, index) = Lead(q[other], index)
         /\ v.pairs[index + 1] = s
         /\ v \in Object /\ q[other] \in Object /\ index \in Nat
         /\ index + 1 <= Len(v.pairs) /\ index + 1 <= Len(q[other].pairs)
<1>1. /\ me \in Queries /\ other \in Queries /\ other # me /\ index \in Nat
      /\ q[me] \in Object /\ q[other] \in Object /\ q[me].pairs \in Seq(Pair)
      /\ index + 1 \in 1..Len(q[me].pairs) /\ q[me].count = q[other].count
      /\ q[other].count \in Nat /\ q[other].count <= Len(q[other].pairs)
  BY AtCopy DEF Object, TypeInv, Fits
<1>2. /\ v \in Object /\ v.flags = q[me].flags /\ v.max = q[me].max
      /\ v.pairs = [q[me].pairs EXCEPT ![index + 1] = s] /\ Update(me, v)
      /\ me' = me /\ other' = other
  BY DEF Copied, Kin
<1>3. q'[me] = v /\ q'[other] = q[other]
  BY <1>1, <1>2, Updated DEF TypeInv, Types
<1>4. /\ v.pairs[index + 1] = s /\ \A i \in 1..index : v.pairs[i] = q[me].pairs[i]
      /\ index + 1 <= Len(v.pairs)
  BY <1>1, <1>2
<1>5. Lead(v, index) = Lead(q[me], index)
  BY <1>4, LeadStays
<1>6. index + 1 <= Len(q[other].pairs)
  <2>1. Len(q[other].pairs) \in Nat
    BY <1>1 DEF Object
  <2> QED BY <1>1, <2>1
<1> QED BY <1>1, <1>2, <1>3, <1>4, <1>5, <1>6 DEF CopyInv

LEMMA CloneKeyCopy == ASSUME TypeInv, CopyInv, CloneKey PROVE CopyInv'
<1>1. ASSUME NEW v, NEW s, KeyCopied(v, s) PROVE CopyInv'
  <2>1. /\ Copied(v, s, s.key) /\ s.k = q[other].pairs[index + 1].k
        /\ pc' = "clone_value" /\ index' = index
    BY <1>1 DEF KeyCopied
  <2>2. pc = "clone_key" /\ index < q[me].count
    BY CopyKeyEffect
  <2> QED BY <2>1, <2>2, CopyKeeps DEF CopyInv
<1>2. CASE CloneFails
  BY <1>2 DEF CloneFails, Ends, CopyInv
<1> QED BY <1>1, <1>2, CopyKeyEffect

LEMMA CloneValueCopy == ASSUME TypeInv, CopyInv, CloneValue PROVE CopyInv'
<1>1. ASSUME NEW v, NEW s, ValueCopied(v, s) PROVE CopyInv'
  <2>1. /\ Copied(v, s, s.value) /\ s.k = q[me].pairs[index + 1].k
        /\ s.v = q[other].pairs[index + 1].v
        /\ pc' = "clone_key" /\ index' = index + 1
    BY <1>1 DEF ValueCopied
  <2>2. pc = "clone_value" /\ index < q[me].count
    BY CopyValueEffect
  <2>3. s.k = q[other].pairs[index + 1].k
    BY <2>1, <2>2 DEF CopyInv
  <2>4. Slot(s) = Slot(q[other].pairs[index + 1])
    BY <2>1, <2>3 DEF Slot
  <2>5. /\ me' = me /\ other' = other /\ q'[me] = v /\ q'[other] = q[other]
        /\ v.flags = q[other].flags /\ v.max = q[other].max
        /\ Lead(v, index) = Lead(q[other], index) /\ v.pairs[index + 1] = s
        /\ v \in Object /\ q[other] \in Object /\ index \in Nat
        /\ index + 1 <= Len(v.pairs) /\ index + 1 <= Len(q[other].pairs)
    BY <2>1, <2>2, CopyKeeps
  <2>6. Lead(v, index + 1) = Lead(q[other], index + 1)
    BY <2>4, <2>5, LeadGrows
  <2> QED BY <2>1, <2>5, <2>6 DEF CopyInv
<1>2. CASE CloneFails
  BY <1>2 DEF CloneFails, Ends, CopyInv
<1> QED BY <1>1, <1>2, CopyValueEffect

LEMMA StepCopy == TypeInv /\ MadeInv /\ CopyInv /\ [Next]_vars => CopyInv'
<1> SUFFICES ASSUME TypeInv, MadeInv, CopyInv, [Next]_vars PROVE CopyInv'
  OBVIOUS
<1>1. CASE pc' \notin {"clone_key", "clone_value"}
  BY <1>1 DEF CopyInv
<1>2. CASE Call
  <2>1. ASSUME NEW x, NEW t, NEW size, llquery_parse_ex(x, t, size)
        PROVE  pc' \in {"idle", "decode", "pool"}
    BY <2>1 DEF llquery_parse_ex, Goes, Ends
  <2>2. pc' \in {"idle", "init_pairs", "decode", "pool", "filter", "sort", "sort_by"}
    BY <1>2, <2>1 DEF Call, llquery_init_ex, llquery_clone, NewObject, llquery_reset,
                llquery_free, llquery_filter, llquery_sort, llquery_set_allocator, Goes, Ends
  <2> QED BY <2>2 DEF CopyInv
<1>3. CASE Step /\ pc' \in {"clone_key", "clone_value"}
  <2>1. InitPairs \/ CloneKey \/ CloneValue
    BY <1>3 DEF Step, DecodeBuffer, StringPool, SkipPair, ParseKey, ParseValue,
                FinishPair, ParseEnd, StopParsing, FilterPair, FilterEnd, SortPair, SortRound,
                SortEnd, CloneFails, CloneBuffer, Goes, Ends
  <2> QED BY <2>1, PairsCopy, CloneKeyCopy, CloneValueCopy
<1>4. CASE UNCHANGED vars
  BY <1>4 DEF vars, CopyInv
<1> QED BY <1>1, <1>2, <1>3, <1>4 DEF Next

-----------------------------------------------------------------------------
(* What an object looks like, at which step of which call. *)

Loading == {"decode", "pool", "pair", "value"}
Making  == {"init_pairs", "clone_key", "clone_value"}

\* Truth values to put into records.
Yes == TRUE
No  == FALSE

Fields(live, list, max, flags, loading) ==
  [live |-> live, list |-> list, max |-> max, flags |-> flags, loading |-> loading]

Live(y, list, loading) == Fields(Yes, list, y.max, y.flags, loading)
Gone == Fields(No, <<>>, 0, {}, No)

Filtered(c, w, i, n) == SubSeq(c, 1, w) \o SubSeq(c, i + 1, n)

\* y when the call about it is at this step; "idle" if there is none.
View(y, step, w, i) ==
  IF y.up /\ step \notin Making
  THEN IF step = "filter" THEN Live(y, Filtered(Lead(y, y.count), w, i, y.count), No)
       ELSE IF step \in Loading THEN Live(y, Lead(y, y.count), Yes)
       ELSE Live(y, Lead(y, y.count), No)
  ELSE Gone

StepOf(x) == IF me = x THEN pc ELSE "idle"

LEMMA YesOrNo == Yes \in BOOLEAN /\ No \in BOOLEAN
BY DEF Yes, No

LEMMA ObjectIs ==
  ASSUME NEW x \in Queries
  PROVE  Objects[x] = View(q[x], StepOf(x), write, index)
<1>1. CASE me = x /\ q[x].up
  BY <1>1 DEF Objects, View, Building, ListOf, Contents, Lead, Slot, Live, Gone, Filtered, Loading,
              Making, Fields, Yes, No, StepOf
<1>2. CASE me # x /\ q[x].up
  BY <1>2 DEF Objects, View, Building, ListOf, Contents, Lead, Slot, Live, Gone, Filtered, Loading,
              Making, Fields, Yes, No, StepOf
<1>3. CASE ~q[x].up
  BY <1>3 DEF Objects, View, Gone, Fields, Yes, No
<1> QED BY <1>1, <1>2, <1>3

LEMMA ObjectIsNext ==
  ASSUME NEW x \in Queries
  PROVE  Objects'[x] = View(q'[x], StepOf(x)', write', index')
<1>1. CASE me' = x /\ q'[x].up
  BY <1>1 DEF Objects, View, Building, ListOf, Contents, Lead, Slot, Live, Gone, Filtered, Loading,
              Making, Fields, Yes, No, StepOf
<1>2. CASE me' # x /\ q'[x].up
  BY <1>2 DEF Objects, View, Building, ListOf, Contents, Lead, Slot, Live, Gone, Filtered, Loading,
              Making, Fields, Yes, No, StepOf
<1>3. CASE ~q'[x].up
  BY <1>3 DEF Objects, View, Gone, Fields, Yes, No
<1> QED BY <1>1, <1>2, <1>3

LEMMA ObjectsAre ==
  /\ Objects = [x \in Queries |-> Objects[x]]
  /\ Objects' = [x \in Queries |-> Objects'[x]]
BY DEF Objects

LEMMA ViewAtRest ==
  ASSUME NEW y, NEW step, NEW w, NEW i, step \in {"idle", "sort", "sort_by"}
  PROVE  View(y, step, w, i) = IF y.up THEN Live(y, Lead(y, y.count), No) ELSE Gone
BY DEF View, Loading, Making

LEMMA ViewLoading ==
  ASSUME NEW y, NEW step, NEW w, NEW i, step \in Loading, y.up
  PROVE  View(y, step, w, i) = Live(y, Lead(y, y.count), Yes)
BY DEF View, Loading, Making

LEMMA ViewMaking ==
  ASSUME NEW y, NEW step, NEW w, NEW i, step \in Making
  PROVE  View(y, step, w, i) = Gone
BY DEF View

LEMMA ViewFiltering ==
  ASSUME NEW y, NEW w, NEW i, y.up
  PROVE  View(y, "filter", w, i) = Live(y, Filtered(Lead(y, y.count), w, i, y.count), No)
BY DEF View, Making

\* Records and EXCEPT.
LEMMA FieldsChange ==
  ASSUME NEW live \in BOOLEAN, NEW list, NEW max, NEW flags, NEW loading \in BOOLEAN,
         NEW r, r = Fields(live, list, max, flags, loading)
  PROVE  /\ \A new : [r EXCEPT !.list = new] = Fields(live, new, max, flags, loading)
         /\ \A new : [r EXCEPT !.max = new] = Fields(live, list, new, flags, loading)
         /\ \A new : [r EXCEPT !.flags = new] = Fields(live, list, max, new, loading)
         /\ \A new \in BOOLEAN : [r EXCEPT !.live = new] = Fields(new, list, max, flags, loading)
         /\ \A new \in BOOLEAN : [r EXCEPT !.loading = new] = Fields(live, list, max, flags, new)
<1>1. ASSUME NEW new PROVE [r EXCEPT !.list = new] = Fields(live, new, max, flags, loading)
  BY DEF Fields
<1>2. ASSUME NEW new PROVE [r EXCEPT !.max = new] = Fields(live, list, new, flags, loading)
  BY DEF Fields
<1>3. ASSUME NEW new PROVE [r EXCEPT !.flags = new] = Fields(live, list, max, new, loading)
  BY DEF Fields
<1>4. ASSUME NEW new \in BOOLEAN
      PROVE  [r EXCEPT !.live = new] = Fields(new, list, max, flags, loading)
  BY DEF Fields
<1>5. ASSUME NEW new \in BOOLEAN
      PROVE  [r EXCEPT !.loading = new] = Fields(live, list, max, flags, new)
  BY DEF Fields
<1> QED BY <1>1, <1>2, <1>3, <1>4, <1>5

-----------------------------------------------------------------------------
(* A step changes one object, in one of the ways of QueryList. *)

Turns(x, new) == Objects' = [Objects EXCEPT ![x] = new]

LEMMA TurnsOne ==
  ASSUME NEW x \in Queries, pc = "idle" \/ me = x, (pc = "idle" \/ me = x)',
         \A y \in Queries : y # x => q'[y] = q[y]
  PROVE  /\ Objects[x] = View(q[x], StepOf(x), write, index)
         /\ \A new : new = View(q'[x], StepOf(x)', write', index') => Turns(x, new)
<1>1. ASSUME NEW y \in Queries, y # x PROVE Objects'[y] = Objects[y]
  <2>1. q'[y] = q[y] /\ StepOf(y) = "idle" /\ StepOf(y)' = "idle"
    BY <1>1 DEF StepOf
  <2> QED BY <2>1, ObjectIs, ObjectIsNext, ViewAtRest
<1>2. Objects' = [Objects EXCEPT ![x] = Objects'[x]]
  <2> DEFINE o == Objects
             n == Objects'
  <2>1. o = [y \in Queries |-> o[y]] /\ n = [y \in Queries |-> n[y]]
    BY ObjectsAre
  <2>2. \A y \in Queries : y # x => n[y] = o[y]
    BY <1>1
  <2> HIDE DEF o, n
  <2>3. n = [o EXCEPT ![x] = n[x]]
    BY <2>1, <2>2
  <2> QED BY <2>3 DEF o, n
<1>3. Objects'[x] = View(q'[x], StepOf(x)', write', index')
  BY ObjectIsNext
<1> QED BY <1>2, <1>3, ObjectIs DEF Turns

Moves(x) == \/ List!Create(x) \/ List!Destroy(x) \/ List!Clear(x) \/ List!Ask(x) \/ List!Load(x)
            \/ List!DropItem(x) \/ List!SwapItems(x)
            \/ \E y \in Queries : List!CopyOf(x, y)

LEMMA Refined ==
  ASSUME NEW x \in Queries, NEW new, Turns(x, new), new = Objects[x] \/ Moves(x)
  PROVE  [List!Next]_Objects
<1>1. Objects'[x] = new /\ (new = Objects[x] => Objects' = Objects)
  <2> DEFINE o == Objects
             n == Objects'
  <2>1. o = [y \in Queries |-> o[y]] /\ n = [o EXCEPT ![x] = new]
    BY ObjectsAre DEF Turns
  <2> HIDE DEF o, n
  <2>2. n[x] = new /\ (new = o[x] => n = o)
    BY <2>1
  <2> QED BY <2>2 DEF o, n
<1>2. CASE Moves(x) /\ Objects'[x] # Objects[x]
  BY <1>2 DEF Moves, List!Next
<1> QED BY <1>1, <1>2

LEMMA Appears ==
  ASSUME NEW x \in Queries, NEW y, Objects[x] = Gone, Turns(x, Live(y, <<>>, No)),
         y.max \in Limits \cup {DEFAULT_MAX_PAIRS}, y.flags \in FlagSets
  PROVE  [List!Next]_Objects
<1> DEFINE r  == List!Nothing
           r1 == [r EXCEPT !.live = Yes]
           r2 == [r1 EXCEPT !.max = y.max]
           r3 == [r2 EXCEPT !.flags = y.flags]
<1>1. r = Fields(No, <<>>, 0, {}, No)
  BY DEF List!Nothing, Fields, No
<1> HIDE DEF r
<1>2. r1 = Fields(Yes, <<>>, 0, {}, No)
  BY <1>1, YesOrNo, FieldsChange
<1>3. [r EXCEPT !.live = TRUE, !.max = y.max, !.flags = y.flags] = r3
  BY DEF Yes
<1> HIDE DEF r1
<1>4. r2 = Fields(Yes, <<>>, y.max, {}, No)
  BY <1>2, YesOrNo, FieldsChange
<1> HIDE DEF r2
<1>5. r3 = Live(y, <<>>, No)
  BY <1>4, YesOrNo, FieldsChange DEF Live
<1> HIDE DEF r3
<1>6. [List!Nothing EXCEPT !.live = TRUE, !.max = y.max, !.flags = y.flags] = Live(y, <<>>, No)
  BY <1>3, <1>5 DEF r
<1>7. ~Objects[x].live
  BY DEF Gone, Fields, No
<1>8. List!Create(x)
  BY <1>6, <1>7 DEF List!Create, Turns
<1> QED BY <1>8, Refined DEF Moves

LEMMA Vanishes ==
  ASSUME NEW x \in Queries, NEW y, NEW l, NEW ld \in BOOLEAN, Objects[x] = Live(y, l, ld),
         Turns(x, Gone)
  PROVE  [List!Next]_Objects
<1>1. Gone = List!Nothing /\ Objects[x].live
  BY DEF List!Nothing, Live, Gone, Fields, Yes, No
<1>2. List!Destroy(x)
  BY <1>1 DEF List!Destroy, Turns
<1> QED BY <1>2, Refined DEF Moves

\* Another list.
LEMMA BecomesIs ==
  ASSUME NEW x \in Queries, NEW y, NEW l, NEW ld \in BOOLEAN, NEW new, Objects[x] = Live(y, l, ld),
         Turns(x, Live(y, new, ld))
  PROVE  List!Becomes(x, new) /\ Objects[x].live /\ Objects[x].list = l
<1>1. [Objects[x] EXCEPT !.list = new] = Live(y, new, ld)
  BY YesOrNo, FieldsChange DEF Live
<1>2. Objects[x].live /\ Objects[x].list = l
  BY DEF Live, Fields, Yes
<1>3. List!Becomes(x, new)
  BY <1>1 DEF List!Becomes, Turns
<1> QED BY <1>2, <1>3

LEMMA Empties ==
  ASSUME NEW x \in Queries, NEW y, NEW l, NEW ld \in BOOLEAN, Objects[x] = Live(y, l, ld),
         Turns(x, Live(y, <<>>, ld))
  PROVE  [List!Next]_Objects
<1>1. List!Clear(x)
  BY BecomesIs DEF List!Clear
<1> QED BY <1>1, Refined DEF Moves

\* Another list, and another mark.
Both(x, list, mark) == [Objects EXCEPT ![x].list = list, ![x].loading = mark]

LEMMA BothChange ==
  ASSUME NEW x \in Queries, NEW y, NEW l, NEW ld \in BOOLEAN, NEW list, NEW mark \in BOOLEAN,
         Objects[x] = Live(y, l, ld)
  PROVE  Both(x, list, mark) = [Objects EXCEPT ![x] = Live(y, list, mark)]
<1> DEFINE o == Objects
           a == [o[x] EXCEPT !.list = list]
           b == [a EXCEPT !.loading = mark]
<1>1. o = [z \in Queries |-> o[z]]
  BY ObjectsAre
<1>2. a = Live(y, list, ld)
  BY YesOrNo, FieldsChange DEF Live
<1>3. [o EXCEPT ![x].list = list, ![x].loading = mark]
        = [[o EXCEPT ![x] = a] EXCEPT ![x].loading = mark]
  OBVIOUS
<1> HIDE DEF a
<1>4. b = Live(y, list, mark)
  BY <1>2, YesOrNo, FieldsChange DEF Live
<1> HIDE DEF o
<1>5. [[o EXCEPT ![x] = a] EXCEPT ![x].loading = mark] = [o EXCEPT ![x] = b]
  BY <1>1
<1> QED BY <1>3, <1>4, <1>5 DEF o, Both

LEMMA Asks ==
  ASSUME NEW x \in Queries, NEW y, NEW l, Objects[x] = Live(y, l, No),
         Turns(x, Live(y, <<>>, Yes))
  PROVE  [List!Next]_Objects
<1>1. Objects[x].live /\ ~Objects[x].loading
  BY DEF Live, Fields, Yes, No
<1>2. Both(x, <<>>, Yes) = [Objects EXCEPT ![x] = Live(y, <<>>, Yes)]
  BY YesOrNo, BothChange
<1>3. Objects' = [Objects EXCEPT ![x].list = <<>>, ![x].loading = TRUE]
  BY <1>2 DEF Turns, Yes, Both
<1>4. List!Ask(x)
  BY <1>1, <1>3 DEF List!Ask
<1> QED BY <1>4, Refined DEF Moves

\* A parse ends with the first n pairs of what the text means.
LEMMA Loads ==
  ASSUME NEW x \in Queries, NEW y, NEW l, Objects[x] = Live(y, l, Yes),
         NEW n \in 0..Len(List!Meaning(text, y.flags)), n <= y.max,
         Turns(x, Live(y, SubSeq(List!Meaning(text, y.flags), 1, n), No)),
         \/ rc' = "OK" /\ n = Len(List!Meaning(text, y.flags))
         \/ rc' = "OK" /\ n = y.max /\ "STRICT" \notin y.flags
         \/ rc' = "TOO_MANY_PAIRS" /\ n = y.max /\ "STRICT" \in y.flags
         \/ rc' = "MEMORY_ERROR"
  PROVE  [List!Next]_Objects
<1> DEFINE m    == List!Meaning(text, y.flags)
           list == SubSeq(m, 1, n)
<1>1. Objects[x].loading /\ Objects[x].flags = y.flags /\ Objects[x].max = y.max
  BY DEF Live, Fields, Yes
<1>2. Both(x, list, No) = [Objects EXCEPT ![x] = Live(y, list, No)]
  BY YesOrNo, BothChange
<1> HIDE DEF m
<1>3. Objects' = [Objects EXCEPT ![x].list = SubSeq(m, 1, n), ![x].loading = FALSE]
  BY <1>2 DEF Turns, m, No, Both
<1>4. List!Load(x)
  BY <1>1, <1>3 DEF List!Load, m
<1> QED BY <1>4, Refined DEF Moves

LEMMA Drops ==
  ASSUME NEW x \in Queries, NEW y, NEW l \in Seq(KeyValue), NEW ld \in BOOLEAN, Objects[x] = Live(y, l, ld),
         NEW i \in 1..Len(l), Turns(x, Live(y, SubSeq(l, 1, i - 1) \o SubSeq(l, i + 1, Len(l)), ld))
  PROVE  [List!Next]_Objects
<1> DEFINE new == SubSeq(l, 1, i - 1) \o SubSeq(l, i + 1, Len(l))
<1>1. List!RemoveAt(l, i) = new
  BY DEF List!RemoveAt
<1> HIDE DEF new
<1>2. List!Becomes(x, new) /\ Objects[x].list = l /\ i \in DOMAIN l
  BY BecomesIs DEF new
<1>3. List!DropItem(x)
  BY <1>1, <1>2 DEF List!DropItem
<1> QED BY <1>3, Refined DEF Moves

LEMMA Swaps ==
  ASSUME NEW x \in Queries, NEW y, NEW l, NEW ld \in BOOLEAN, Objects[x] = Live(y, l, ld),
         NEW i \in 1..(Len(l) - 1), KeyAfter(l[i].k, l[i + 1].k) \/ pc = "sort_by",
         Turns(x, Live(y, [l EXCEPT ![i] = l[i + 1], ![i + 1] = l[i]], ld))
  PROVE  [List!Next]_Objects
<1> DEFINE new == [l EXCEPT ![i] = l[i + 1], ![i + 1] = l[i]]
<1>1. List!Becomes(x, new) /\ Objects[x].list = l
  BY BecomesIs
<1>2. List!KeyAfter(l[i].k, l[i + 1].k) \/ pc = "sort_by"
  BY SameShapes
<1>3. List!SwapItems(x)
  BY <1>1, <1>2 DEF List!SwapItems
<1> QED BY <1>3, Refined DEF Moves

LEMMA Copies ==
  ASSUME NEW x \in Queries, NEW y \in Queries, Objects[x] = Gone, NEW v, NEW l, NEW ld \in BOOLEAN,
         Objects[y] = Live(v, l, ld), Turns(x, Objects[y])
  PROVE  [List!Next]_Objects
<1>1. ~Objects[x].live /\ Objects[y].live
  BY DEF Gone, Live, Fields, Yes, No
<1>2. List!CopyOf(x, y)
  BY <1>1 DEF List!CopyOf, Turns
<1> QED BY <1>2, Refined DEF Moves

LEMMA Stays ==
  ASSUME NEW x \in Queries, pc = "idle" \/ me = x, (pc = "idle" \/ me = x)',
         \A y \in Queries : y # x => q'[y] = q[y],
         View(q'[x], StepOf(x)', write', index') = View(q[x], StepOf(x), write, index)
  PROVE  [List!Next]_Objects
BY TurnsOne, Refined

LEMMA ViewAbsent ==
  ASSUME NEW y, NEW step, NEW w, NEW i, ~y.up
  PROVE  View(y, step, w, i) = Gone
BY DEF View

LEMMA Ending ==
  ASSUME NEW err, Ends(err)
  PROVE  /\ pc' = "idle" /\ \A x : StepOf(x)' = "idle"
BY DEF Ends, StepOf

LEMMA OthersSame ==
  ASSUME TypeInv, NEW x \in Queries, NEW v, Update(x, v)
  PROVE  q'[x] = v /\ \A y \in Queries : y # x => q'[y] = q[y]
BY DEF TypeInv, Types, Update

LEMMA EmptyLead == \A y : Lead(y, 0) = <<>>
BY DEF Lead

LEMMA LiveSame ==
  ASSUME NEW v, NEW y, v.max = y.max, v.flags = y.flags
  PROVE  \A list, loading : Live(v, list, loading) = Live(y, list, loading)
BY DEF Live

\* An object that is there, between calls.
LEMMA ViewIdle ==
  ASSUME NEW x, pc = "idle", q[x].up
  PROVE  View(q[x], StepOf(x), write, index) = Live(q[x], Lead(q[x], q[x].count), No)
<1>1. StepOf(x) = "idle"
  BY DEF StepOf
<1> QED BY <1>1, ViewAtRest

-----------------------------------------------------------------------------
(* Calls. *)

LEMMA NewObjectStays ==
  ASSUME TypeInv, NEW x \in Queries, NEW from, NEW a, NEW max, NEW flags,
         pc = "idle", ~q[x].up, NewObject(x, from, a, max, flags)
  PROVE  [List!Next]_Objects
<1>1. ASSUME NEW v, Update(x, v), ~v.up, (pc = "idle" \/ me = x)' PROVE [List!Next]_Objects
  <2>1. q'[x] = v /\ \A y \in Queries : y # x => q'[y] = q[y]
    BY <1>1, OthersSame
  <2>2. View(q'[x], StepOf(x)', write', index') = Gone
    BY <1>1, <2>1, ViewAbsent
  <2>3. View(q[x], StepOf(x), write, index) = Gone
    BY ViewAbsent
  <2> QED BY <1>1, <2>1, <2>2, <2>3, Stays
<1>2. CASE Update(x, Zero) /\ Ends("MEMORY_ERROR")
  BY <1>1, <1>2, ZeroIsObject, Ending
<1>3. ASSUME NEW b, me' = x,
             Update(x, [Zero EXCEPT !.alloc = a, !.internal = b, !.max = max, !.flags = flags])
      PROVE  [List!Next]_Objects
  <2>1. ~[Zero EXCEPT !.alloc = a, !.internal = b, !.max = max, !.flags = flags].up
    BY DEF Zero
  <2> QED BY <1>1, <1>3, <2>1
<1> QED BY <1>2, <1>3 DEF NewObject

LEMMA InitStays ==
  ASSUME TypeInv, NEW x \in Queries, NEW a, NEW n, NEW f, llquery_init_ex(x, a, n, f)
  PROVE  [List!Next]_Objects
BY NewObjectStays DEF llquery_init_ex, Begins

LEMMA CloneStays ==
  ASSUME TypeInv, NEW x \in Queries, NEW y, llquery_clone(x, y)
  PROVE  [List!Next]_Objects
BY NewObjectStays DEF llquery_clone, Begins

\* x is empty now, and the call ends or goes on to parse.
LEMMA Emptied ==
  ASSUME TypeInv, NEW x \in Queries, pc = "idle", q[x].up, NEW v, Update(x, v),
         v.up, v.count = 0, v.max = q[x].max, v.flags = q[x].flags,
         pc' = "idle" \/ (pc' \in {"decode", "pool"} /\ me' = x)
  PROVE  [List!Next]_Objects
<1>1. q'[x] = v /\ \A y \in Queries : y # x => q'[y] = q[y]
  BY OthersSame
<1>2. Objects[x] = Live(q[x], Lead(q[x], q[x].count), No)
      /\ Turns(x, View(v, StepOf(x)', write', index'))
  BY <1>1, TurnsOne, ViewIdle
<1>3. \A ld : Live(v, Lead(v, v.count), ld) = Live(q[x], <<>>, ld)
  BY EmptyLead, LiveSame
<1>4. CASE pc' = "idle"
  <2>1. StepOf(x)' = "idle"
    BY <1>4 DEF StepOf
  <2>2. View(v, StepOf(x)', write', index') = Live(q[x], <<>>, No)
    BY <1>3, <2>1, ViewAtRest
  <2> QED BY <1>2, <2>2, YesOrNo, Empties
<1>5. CASE pc' \in {"decode", "pool"} /\ me' = x
  <2>1. StepOf(x)' \in Loading
    BY <1>5 DEF StepOf, Loading
  <2>2. View(v, StepOf(x)', write', index') = Live(q[x], <<>>, Yes)
    BY <1>3, <2>1, ViewLoading
  <2> QED BY <1>2, <2>2, Asks
<1> QED BY <1>4, <1>5

LEMMA ParseStarts ==
  ASSUME TypeInv, NEW x \in Queries, NEW t, NEW size, llquery_parse_ex(x, t, size)
  PROVE  [List!Next]_Objects
<1> DEFINE r == ResetObject(q[x])
           c == [r EXCEPT !.decode_buffer = Caller]
<1>1. pc = "idle" /\ q[x].up
  BY DEF llquery_parse_ex, Begins
<1>2. CASE t = <<>>
  <2>1. UNCHANGED q /\ Ends("EMPTY_STRING")
    BY <1>2 DEF llquery_parse_ex
  <2>2. StepOf(x)' = "idle" /\ StepOf(x) = "idle" /\ pc' = "idle"
    BY <1>1, <2>1, Ending DEF StepOf
  <2>3. View(q'[x], StepOf(x)', write', index') = View(q[x], StepOf(x), write, index)
    BY <2>1, <2>2, ViewAtRest
  <2> QED BY <1>1, <2>1, <2>2, <2>3, Stays
<1>3. CASE t # <<>>
  <2>1. /\ Update(x, r) \/ Update(x, c)
        /\ pc' = "idle" \/ (pc' \in {"decode", "pool"} /\ me' = x)
    BY <1>3 DEF llquery_parse_ex, Goes, Ends
  <2>2. /\ r \in Object /\ r.up /\ r.count = 0 /\ r.max = q[x].max /\ r.flags = q[x].flags
    BY <1>1, ResetIsObject
  <2> HIDE DEF r
  <2>3. c.up = r.up /\ c.count = r.count /\ c.max = r.max /\ c.flags = r.flags
    BY <2>2 DEF Object
  <2> HIDE DEF c
  <2> QED BY <1>1, <2>1, <2>2, <2>3, Emptied
<1> QED BY <1>2, <1>3

LEMMA ResetEmpties ==
  ASSUME TypeInv, NEW x \in Queries, llquery_reset(x)
  PROVE  [List!Next]_Objects
BY ResetIsObject, Emptied DEF llquery_reset, Begins, Ends

LEMMA FreeVanishes ==
  ASSUME TypeInv, NEW x \in Queries, llquery_free(x)
  PROVE  [List!Next]_Objects
<1>1. pc = "idle" /\ q[x].up /\ Update(x, Zero) /\ pc' = "idle"
  BY DEF llquery_free, Discard, Begins, Ends
<1>2. q'[x] = Zero /\ \A y \in Queries : y # x => q'[y] = q[y]
  BY <1>1, OthersSame
<1>3. /\ Objects[x] = Live(q[x], Lead(q[x], q[x].count), No)
      /\ Turns(x, View(Zero, StepOf(x)', write', index'))
  BY <1>1, <1>2, TurnsOne, ViewIdle
<1>4. View(Zero, StepOf(x)', write', index') = Gone
  BY ZeroIsObject, ViewAbsent
<1> QED BY <1>3, <1>4, YesOrNo, Vanishes

LEMMA SetAllocatorStays ==
  ASSUME TypeInv, NEW x \in Queries, NEW a \in Allocators, llquery_set_allocator(x, a)
  PROVE  [List!Next]_Objects
<1>1. pc = "idle" /\ q[x].up /\ pc' = "idle" /\ q[x] \in Object
  BY DEF llquery_set_allocator, Begins, Ends, TypeInv, Types
<1>2. ASSUME NEW v, Update(x, v), v.up = q[x].up, v.count = q[x].count, v.pairs = q[x].pairs,
             v.max = q[x].max, v.flags = q[x].flags
      PROVE  [List!Next]_Objects
  <2>1. q'[x] = v /\ \A y \in Queries : y # x => q'[y] = q[y]
    BY <1>2, OthersSame
  <2>2. StepOf(x)' = "idle"
    BY <1>1 DEF StepOf
  <2>3. Lead(v, v.count) = Lead(q[x], q[x].count)
    BY <1>2, LeadStays
  <2>4. Live(v, Lead(v, v.count), No) = Live(q[x], Lead(q[x], q[x].count), No)
    BY <1>2, <2>3, LiveSame
  <2>5. View(v, StepOf(x)', write', index') = Live(v, Lead(v, v.count), No)
    <3>1. v.up
      BY <1>1, <1>2
    <3> QED BY <2>2, <3>1, ViewAtRest
  <2> QED BY <1>1, <2>1, <2>4, <2>5, ViewIdle, Stays
<1>3. CASE Update(x, [q[x] EXCEPT !.alloc = a])
  <2> DEFINE v == [q[x] EXCEPT !.alloc = a]
  <2>1. /\ v.up = q[x].up /\ v.count = q[x].count /\ v.pairs = q[x].pairs
        /\ v.max = q[x].max /\ v.flags = q[x].flags
    BY <1>1 DEF Object
  <2> QED BY <1>2, <1>3, <2>1
<1>4. ASSUME NEW b, Update(x, [q[x] EXCEPT !.alloc = a, !.kv_pairs = b])
      PROVE  [List!Next]_Objects
  <2> DEFINE v == [q[x] EXCEPT !.alloc = a, !.kv_pairs = b]
  <2>1. /\ v.up = q[x].up /\ v.count = q[x].count /\ v.pairs = q[x].pairs
        /\ v.max = q[x].max /\ v.flags = q[x].flags
    BY <1>1 DEF Object
  <2> QED BY <1>2, <1>4, <2>1
<1> QED BY <1>3, <1>4 DEF llquery_set_allocator

LEMMA SortStartStays ==
  ASSUME TypeInv, NEW x \in Queries, NEW by \in BOOLEAN, llquery_sort(x, by)
  PROVE  [List!Next]_Objects
<1>1. pc = "idle" /\ q[x].up /\ UNCHANGED q /\ me' = x /\ pc' \in {"sort", "sort_by"}
  BY DEF llquery_sort, Begins, Goes
<1>2. StepOf(x)' \in {"sort", "sort_by"}
  BY <1>1 DEF StepOf
<1>3. View(q'[x], StepOf(x)', write', index') = Live(q[x], Lead(q[x], q[x].count), No)
  BY <1>1, <1>2, ViewAtRest
<1> QED BY <1>1, <1>3, ViewIdle, Stays

-----------------------------------------------------------------------------
(* The steps of a parse. *)

\* While it is parsed into, an object is empty.
LEMMA ViewParsing ==
  ASSUME NEW y, NEW step, NEW w, NEW i, step \in Loading, y.up, y.count = 0
  PROVE  View(y, step, w, i) = Live(y, <<>>, Yes)
BY ViewLoading, EmptyLead

\* A step of the loop leaves it so.
LEMMA ParsingStays ==
  ASSUME TypeInv, NEW x \in Queries, me = x, me' = x, pc \in Loading, pc' \in Loading,
         q[x].up, q[x].count = 0,
         NEW v, q'[x] = v, \A y \in Queries : y # x => q'[y] = q[y],
         v.up, v.count = 0, v.max = q[x].max, v.flags = q[x].flags
  PROVE  [List!Next]_Objects
<1>1. StepOf(x) \in Loading /\ StepOf(x)' \in Loading
  BY DEF StepOf
<1>2. View(v, StepOf(x)', write', index') = Live(q[x], <<>>, Yes)
  <2>1. View(v, StepOf(x)', write', index') = Live(v, <<>>, Yes)
    BY <1>1, ViewParsing
  <2> QED BY <2>1, LiveSame
<1>3. View(q[x], StepOf(x), write, index) = Live(q[x], <<>>, Yes)
  BY <1>1, ViewParsing
<1> QED BY <1>2, <1>3, Stays

\* A call has ended.
LEMMA ViewNext ==
  ASSUME NEW x, StepOf(x)' = "idle", NEW v, v.up
  PROVE  View(v, StepOf(x)', write', index') = Live(v, Lead(v, v.count), No)
<1>1. StepOf(x)' \in {"idle", "sort", "sort_by"}
  OBVIOUS
<1> QED BY <1>1, ViewAtRest

\* A parse ends.
LEMMA ParsingEnds ==
  ASSUME TypeInv, NEW x \in Queries, me = x, pc \in Loading, q[x].up, q[x].count = 0,
         NEW err, Ends(err),
         NEW v, q'[x] = v, \A y \in Queries : y # x => q'[y] = q[y],
         v.up, v.max = q[x].max, v.flags = q[x].flags,
         NEW n \in 0..Len(List!Meaning(text, q[x].flags)), n <= q[x].max,
         Lead(v, v.count) = SubSeq(List!Meaning(text, q[x].flags), 1, n),
         \/ err = "OK" /\ n = Len(List!Meaning(text, q[x].flags))
         \/ err = "OK" /\ n = q[x].max /\ "STRICT" \notin q[x].flags
         \/ err = "TOO_MANY_PAIRS" /\ n = q[x].max /\ "STRICT" \in q[x].flags
         \/ err = "MEMORY_ERROR"
  PROVE  [List!Next]_Objects
<1> DEFINE list == SubSeq(List!Meaning(text, q[x].flags), 1, n)
<1>1. StepOf(x) \in Loading /\ StepOf(x)' = "idle" /\ pc' = "idle" /\ rc' = err
  BY DEF StepOf, Ends
<1>2. /\ Objects[x] = View(q[x], StepOf(x), write, index)
      /\ Turns(x, View(v, StepOf(x)', write', index'))
  BY <1>1, TurnsOne
<1>3. Objects[x] = Live(q[x], <<>>, Yes)
  BY <1>1, <1>2, ViewParsing
<1>4. View(v, StepOf(x)', write', index') = Live(v, Lead(v, v.count), No)
  BY <1>1, ViewNext
<1>5. Live(v, Lead(v, v.count), No) = Live(q[x], list, No)
  BY LiveSame
<1>6. Turns(x, Live(q[x], list, No))
  BY <1>2, <1>4, <1>5
<1> QED BY <1>1, <1>3, <1>6, Loads

LEMMA DecodeLoads == ASSUME TypeInv, DecodeBuffer PROVE [List!Next]_Objects
<1> SUFFICES ASSUME NEW x \in Queries, me = x PROVE [List!Next]_Objects
  BY DEF DecodeBuffer, TypeInv, Control
<1>1. /\ pc = "decode" /\ q[x] \in Object /\ q[x].up /\ q[x].count = 0 /\ text \in Seq(Int)
  BY DEF DecodeBuffer, TypeInv, Types, Control, Parses
<1>2. CASE UNCHANGED q /\ Ends("MEMORY_ERROR")
  <2>1. Lead(q[x], q[x].count) = <<>>
    BY <1>1, EmptyLead
  <2>2. SubSeq(List!Meaning(text, q[x].flags), 1, 0) = <<>>
        /\ Len(List!Meaning(text, q[x].flags)) \in Nat
    BY <1>1, SofarEnds
  <2>3. 0 \in 0..Len(List!Meaning(text, q[x].flags)) /\ 0 <= q[x].max
    BY <1>1, <2>2 DEF Object
  <2>4. pc \in Loading
    BY <1>1 DEF Loading
  <2>5. q'[x] = q[x] /\ \A y \in Queries : y # x => q'[y] = q[y]
    BY <1>2
  <2> QED BY <1>1, <1>2, <2>1, <2>2, <2>3, <2>4, <2>5, ParsingEnds
<1>3. ASSUME NEW b, Update(x, [q[x] EXCEPT !.decode_buffer = b]), Goes("pool"), me' = me
      PROVE  [List!Next]_Objects
  <2> DEFINE v == [q[x] EXCEPT !.decode_buffer = b]
  <2>1. v.up /\ v.count = 0 /\ v.max = q[x].max /\ v.flags = q[x].flags
    BY <1>1 DEF Object
  <2>2. q'[x] = v /\ \A y \in Queries : y # x => q'[y] = q[y]
    BY <1>3, OthersSame
  <2>3. pc \in Loading /\ pc' \in Loading /\ me' = x
    BY <1>1, <1>3 DEF Loading, Goes
  <2> HIDE DEF v
  <2> QED BY <1>1, <2>1, <2>2, <2>3, ParsingStays
<1>4. \/ UNCHANGED q /\ Ends("MEMORY_ERROR")
      \/ \E b : Update(x, [q[x] EXCEPT !.decode_buffer = b]) /\ Goes("pool") /\ me' = me
  BY DEF DecodeBuffer
<1> QED BY <1>2, <1>3, <1>4

LEMMA StringPoolStays == ASSUME TypeInv, StringPool PROVE [List!Next]_Objects
<1> SUFFICES ASSUME NEW x \in Queries, me = x PROVE [List!Next]_Objects
  BY DEF StringPool, TypeInv, Control
<1>1. /\ pc = "pool" /\ q[x] \in Object /\ q[x].up /\ q[x].count = 0
  BY DEF StringPool, TypeInv, Types, Control, Parses
<1>2. pc \in Loading /\ pc' \in Loading /\ me' = x
  BY <1>1 DEF Loading, StringPool, Goes, locals
<1>3. CASE UNCHANGED q
  <2>1. q'[x] = q[x] /\ \A y \in Queries : y # x => q'[y] = q[y]
    BY <1>3
  <2> QED BY <1>1, <1>2, <2>1, ParsingStays
<1>4. ASSUME NEW b, Update(x, [q[x] EXCEPT !.pool = b, !.pool_used = 0,
                                          !.pool_size = estimate_string_size(len)])
      PROVE  [List!Next]_Objects
  <2> DEFINE v == [q[x] EXCEPT !.pool = b, !.pool_used = 0,
                               !.pool_size = estimate_string_size(len)]
  <2>1. v.up /\ v.count = 0 /\ v.max = q[x].max /\ v.flags = q[x].flags
    BY <1>1 DEF Object
  <2>2. q'[x] = v /\ \A y \in Queries : y # x => q'[y] = q[y]
    BY <1>4, OthersSame
  <2> HIDE DEF v
  <2> QED BY <1>1, <1>2, <2>1, <2>2, ParsingStays
<1>5. \/ UNCHANGED q
      \/ \E b : Update(x, [q[x] EXCEPT !.pool = b, !.pool_used = 0,
                                       !.pool_size = estimate_string_size(len)])
  BY DEF StringPool
<1> QED BY <1>3, <1>4, <1>5

LEMMA SkipStays == ASSUME TypeInv, LoopInv, SkipPair PROVE [List!Next]_Objects
<1> SUFFICES ASSUME NEW x \in Queries, me = x PROVE [List!Next]_Objects
  BY DEF SkipPair, TypeInv, Control
<1>1. /\ pc = "pair" /\ pc' = "pair" /\ UNCHANGED <<q, me>>
  BY DEF SkipPair, Goes
<1>2. q[x].up /\ q[x].count = 0
  BY <1>1, LoopTurn
<1>3. pc \in Loading /\ pc' \in Loading /\ me' = x
  BY <1>1 DEF Loading
<1>4. q'[x] = q[x] /\ \A y \in Queries : y # x => q'[y] = q[y]
  BY <1>1
<1> QED BY <1>2, <1>3, <1>4, ParsingStays

\* The loop stops: out of memory, out of slots or at the end of the text.
LEMMA StopLoads ==
  ASSUME TypeInv, LoopInv, pc \in {"pair", "value"}, NEW err, StopParsing(err),
         \/ err = "MEMORY_ERROR"
         \/ ~MorePairs /\ err = (IF cur < Len(text) /\ "STRICT" \in q[me].flags
                                 THEN "TOO_MANY_PAIRS" ELSE "OK")
  PROVE  [List!Next]_Objects
<1> SUFFICES ASSUME NEW x \in Queries, me = x PROVE [List!Next]_Objects
  BY DEF TypeInv, Control
<1> DEFINE v == [q[x] EXCEPT !.count = index]
           m == List!Meaning(text, q[x].flags)
<1>1. /\ q[x] \in Object /\ Fits(q[x]) /\ q[x].up /\ q[x].count = 0
      /\ Len(q[x].pairs) = q[x].max /\ q[x].max \in Nat
      /\ text \in Seq(Int) /\ Len(text) \in Nat /\ cur \in 0..Len(text)
      /\ index \in 0..q[x].max
      /\ Lead(q[x], index) = Sofar(text, q[x].flags, cur)
  BY LoopTurn
<1>2. /\ v.pairs = q[x].pairs /\ v.count = index /\ v.up /\ v.max = q[x].max
      /\ v.flags = q[x].flags
  BY <1>1, CountSet
<1>3. Update(x, v) /\ Ends(err)
  BY DEF StopParsing
<1> HIDE DEF v
<1>4. q'[x] = v /\ \A y \in Queries : y # x => q'[y] = q[y]
  BY <1>3, OthersSame
<1>5. Lead(v, v.count) = Sofar(text, q[x].flags, cur)
  <2>1. Lead(v, index) = Lead(q[x], index)
    BY <1>2, LeadStays
  <2> QED BY <1>1, <1>2, <2>1
<1>6. index = Len(Sofar(text, q[x].flags, cur))
  <2>1. index \in 0..Len(q[x].pairs)
    BY <1>1
  <2> QED BY <1>1, <2>1, LeadIs
<1>7. index \in 0..Len(m) /\ SubSeq(m, 1, index) = Sofar(text, q[x].flags, cur)
  BY <1>1, <1>6, SofarLeads
<1>8. pc \in Loading
  BY DEF Loading
<1>9. \/ err = "OK" /\ index = Len(m)
      \/ err = "OK" /\ index = q[x].max /\ "STRICT" \notin q[x].flags
      \/ err = "TOO_MANY_PAIRS" /\ index = q[x].max /\ "STRICT" \in q[x].flags
      \/ err = "MEMORY_ERROR"
  <2>1. CASE ~MorePairs /\ cur < Len(text)
    <3>1. index = q[x].max
      BY <1>1, <2>1 DEF MorePairs
    <3> QED BY <2>1, <3>1
  <2>2. CASE ~(cur < Len(text))
    <3>1. cur = Len(text)
      BY <1>1, <2>2
    <3>2. Sofar(text, q[x].flags, cur) = m
      BY <1>1, <3>1, SofarEnds
    <3> QED BY <1>6, <2>2, <3>2
  <2> QED BY <2>1, <2>2
<1> HIDE DEF m
<1>10. index <= q[x].max /\ Lead(v, v.count) = SubSeq(m, 1, index)
  BY <1>1, <1>5, <1>7
<1>11. /\ q[x].up /\ q[x].count = 0 /\ v.up /\ v.max = q[x].max /\ v.flags = q[x].flags
       /\ Ends(err) /\ index \in 0..Len(m)
  BY <1>1, <1>2, <1>3, <1>7
<1> QED BY <1>4, <1>8, <1>9, <1>10, <1>11, ParsingEnds DEF m

LEMMA KeyStays == ASSUME TypeInv, LoopInv, ParseKey PROVE [List!Next]_Objects
<1>1. pc = "pair"
  BY DEF ParseKey
<1>2. ASSUME NEW v, NEW s, KeyTaken(v, s) PROVE [List!Next]_Objects
  <2> SUFFICES ASSUME NEW x \in Queries, me = x PROVE [List!Next]_Objects
    BY <1>1 DEF TypeInv, Control
  <2>1. /\ v.up = q[x].up /\ v.count = q[x].count /\ v.max = q[x].max /\ v.flags = q[x].flags
        /\ Update(x, v) /\ pc' = "value" /\ me' = x
    BY <1>2 DEF KeyTaken, Kin
  <2>2. q[x].up /\ q[x].count = 0
    BY <1>1, LoopTurn
  <2>3. q'[x] = v /\ \A y \in Queries : y # x => q'[y] = q[y]
    BY <2>1, OthersSame
  <2>4. pc \in Loading /\ pc' \in Loading /\ v.up
    BY <1>1, <2>1, <2>2 DEF Loading
  <2> QED BY <2>1, <2>2, <2>3, <2>4, ParsingStays
<1> QED BY <1>1, <1>2, KeyEffect, StopLoads

LEMMA ValueStays == ASSUME TypeInv, LoopInv, ParseValue PROVE [List!Next]_Objects
<1>1. pc = "value"
  BY DEF ParseValue
<1>2. ASSUME NEW v, NEW s, NEW keep \in BOOLEAN, ValueTaken(v, s, keep) PROVE [List!Next]_Objects
  <2> SUFFICES ASSUME NEW x \in Queries, me = x PROVE [List!Next]_Objects
    BY <1>1 DEF TypeInv, Control
  <2>1. /\ v.up = q[x].up /\ v.count = q[x].count /\ v.max = q[x].max /\ v.flags = q[x].flags
        /\ Update(x, v) /\ pc' = "pair" /\ me' = x
    BY <1>2 DEF ValueTaken, Kin
  <2>2. q[x].up /\ q[x].count = 0
    BY <1>1, LoopTurn
  <2>3. q'[x] = v /\ \A y \in Queries : y # x => q'[y] = q[y]
    BY <2>1, OthersSame
  <2>4. pc \in Loading /\ pc' \in Loading /\ v.up
    BY <1>1, <2>1, <2>2 DEF Loading
  <2> QED BY <2>1, <2>2, <2>3, <2>4, ParsingStays
<1> QED BY <1>1, <1>2, ValueEffect, StopLoads

LEMMA ParseEndLoads == ASSUME TypeInv, LoopInv, ParseEnd PROVE [List!Next]_Objects
BY StopLoads DEF ParseEnd

-----------------------------------------------------------------------------
(* The steps of init, filter, sort and clone. *)

\* A call fails: its object is gone.
LEMMA MakingFails ==
  ASSUME TypeInv, NEW x \in Queries, me = x, pc \in Making, Update(x, Zero), NEW err, Ends(err)
  PROVE  [List!Next]_Objects
<1>1. StepOf(x) \in Making /\ pc' = "idle"
  BY Ending DEF StepOf
<1>2. q'[x] = Zero /\ \A y \in Queries : y # x => q'[y] = q[y]
  BY OthersSame
<1>3. View(q[x], StepOf(x), write, index) = Gone
  BY <1>1, ViewMaking
<1>4. View(q'[x], StepOf(x)', write', index') = Gone
  BY <1>2, ZeroIsObject, ViewAbsent
<1> QED BY <1>1, <1>2, <1>3, <1>4, Stays

\* It goes on being made.
LEMMA MakingStays ==
  ASSUME TypeInv, NEW x \in Queries, me = x, me' = x, pc \in Making, pc' \in Making,
         NEW v, Update(x, v)
  PROVE  [List!Next]_Objects
<1>1. StepOf(x) \in Making /\ StepOf(x)' \in Making
  BY DEF StepOf
<1>2. q'[x] = v /\ \A y \in Queries : y # x => q'[y] = q[y]
  BY OthersSame
<1>3. View(q[x], StepOf(x), write, index) = Gone
  BY <1>1, ViewMaking
<1>4. View(q'[x], StepOf(x)', write', index') = Gone
  BY <1>1, ViewMaking
<1> QED BY <1>2, <1>3, <1>4, Stays

LEMMA PairsAppear == ASSUME TypeInv, MadeInv, InitPairs PROVE [List!Next]_Objects
<1> SUFFICES ASSUME NEW x \in Queries, me = x PROVE [List!Next]_Objects
  BY PairsEffect
<1>1. pc = "init_pairs" /\ pc \in Making
  BY PairsEffect DEF Making
<1>2. CASE Update(x, Zero) /\ Ends("MEMORY_ERROR")
  BY <1>1, <1>2, MakingFails
<1>3. ASSUME NEW b, NEW v, PairsMade(b, v), other # me PROVE [List!Next]_Objects
  <2>1. Update(x, v) /\ me' = x /\ pc' \in Making
    BY <1>3 DEF PairsMade, Making, locals
  <2> QED BY <1>1, <2>1, MakingStays
<1>4. ASSUME NEW b, NEW v, PairsMade(b, v), other = me PROVE [List!Next]_Objects
  <2>1. Update(x, v) /\ v.up /\ v.count = 0 /\ v.max = q[x].max /\ v.flags = q[x].flags
        /\ Ends("OK")
    BY <1>4 DEF PairsMade
  <2>2. q'[x] = v /\ (\A y \in Queries : y # x => q'[y] = q[y]) /\ pc' = "idle"
        /\ StepOf(x)' = "idle"
    BY <2>1, OthersSame, Ending
  <2>3. /\ Objects[x] = View(q[x], StepOf(x), write, index)
        /\ Turns(x, View(v, StepOf(x)', write', index'))
    BY <2>2, TurnsOne
  <2>4. StepOf(x) \in Making
    BY <1>1 DEF StepOf
  <2>5. Objects[x] = Gone
    BY <2>3, <2>4, ViewMaking
  <2>6. View(v, StepOf(x)', write', index') = Live(v, Lead(v, v.count), No)
    BY <2>1, <2>2, ViewNext
  <2>7. Lead(v, v.count) = <<>>
    BY <2>1, EmptyLead
  <2>8. Turns(x, Live(v, <<>>, No))
    BY <2>3, <2>6, <2>7
  <2>9. v.max \in Limits \cup {DEFAULT_MAX_PAIRS} /\ v.flags \in FlagSets
    BY <1>1, <1>4, <2>1 DEF MadeInv
  <2> QED BY <2>5, <2>8, <2>9, Appears
<1> QED BY <1>2, <1>3, <1>4, PairsEffect

-----------------------------------------------------------------------------
(* Filter. *)

\* A sequence without what is between two places of it.
LEMMA Spliced ==
  ASSUME NEW c \in Seq(KeyValue), NEW w \in Nat, NEW i \in Nat, w <= i, i <= Len(c)
  PROVE  LET f == SubSeq(c, 1, w) \o SubSeq(c, i + 1, Len(c)) IN
         /\ f \in Seq(KeyValue) /\ Len(f) = w + Len(c) - i
         /\ \A j \in 1..w : f[j] = c[j]
         /\ \A j \in (w + 1)..(w + Len(c) - i) : f[j] = c[j - w + i]
<1> DEFINE n == Len(c)
           a == SubSeq(c, 1, w)
           b == SubSeq(c, i + 1, n)
           f == a \o b
<1>0. n \in Nat /\ i <= n /\ \A j \in 1..n : c[j] \in KeyValue
  OBVIOUS
<1>1. a \in Seq(KeyValue) /\ Len(a) = w /\ \A j \in 1..w : a[j] = c[j]
  <2>1. 1 \in Int /\ w \in Int /\ \A j \in 1..w : c[j] \in KeyValue
    BY <1>0
  <2>2. /\ a \in Seq(KeyValue) /\ Len(a) = IF 1 <= w THEN w - 1 + 1 ELSE 0
        /\ \A j \in 1..(w - 1 + 1) : a[j] = c[1 + j - 1]
    BY <2>1, SubSeqProperties
  <2> QED BY <2>2
<1>2. b \in Seq(KeyValue) /\ Len(b) = n - i /\ \A j \in 1..(n - i) : b[j] = c[i + j]
  <2>1. i + 1 \in Int /\ n \in Int /\ \A j \in (i + 1)..n : c[j] \in KeyValue
    BY <1>0
  <2>2. /\ b \in Seq(KeyValue) /\ Len(b) = IF i + 1 <= n THEN n - (i + 1) + 1 ELSE 0
        /\ \A j \in 1..(n - (i + 1) + 1) : b[j] = c[(i + 1) + j - 1]
    BY <2>1, SubSeqProperties
  <2> QED BY <1>0, <2>2
<1> HIDE DEF n, a, b
<1>3. /\ f \in Seq(KeyValue) /\ Len(f) = w + (n - i)
      /\ \A j \in 1..(w + (n - i)) : f[j] = IF j <= w THEN a[j] ELSE b[j - w]
  <2>1. /\ f \in Seq(KeyValue) /\ Len(f) = Len(a) + Len(b)
        /\ \A j \in 1..(Len(a) + Len(b)) : f[j] = IF j <= Len(a) THEN a[j] ELSE b[j - Len(a)]
    BY <1>1, <1>2, ConcatProperties
  <2> QED BY <1>1, <1>2, <2>1
<1> HIDE DEF f
<1>4. Len(f) = w + n - i /\ \A j \in 1..w : f[j] = c[j]
  BY <1>0, <1>1, <1>3
<1>5. ASSUME NEW j \in (w + 1)..(w + n - i) PROVE f[j] = c[j - w + i]
  <2>1. j \in 1..(w + (n - i)) /\ ~(j <= w) /\ j - w \in 1..(n - i) /\ i + (j - w) = j - w + i
    BY <1>0
  <2> QED BY <2>1, <1>2, <1>3
<1> QED BY <1>3, <1>4, <1>5 DEF f, a, b, n

LEMMA FilteredIs ==
  ASSUME NEW c \in Seq(KeyValue), NEW w \in Nat, NEW i \in Nat, w <= i, i <= Len(c)
  PROVE  LET f == Filtered(c, w, i, Len(c)) IN
         /\ f \in Seq(KeyValue) /\ Len(f) = w + Len(c) - i
         /\ \A j \in 1..w : f[j] = c[j]
         /\ \A j \in (w + 1)..(w + Len(c) - i) : f[j] = c[j - w + i]
BY Spliced DEF Filtered

LEMMA FilterStarts ==
  ASSUME NEW c \in Seq(KeyValue) PROVE Filtered(c, 0, 0, Len(c)) = c
<1> DEFINE f == Filtered(c, 0, 0, Len(c))
<1>1. 0 \in Nat /\ 0 <= 0 /\ 0 <= Len(c) /\ Len(c) \in Nat
  OBVIOUS
<1>2. /\ f \in Seq(KeyValue) /\ Len(f) = 0 + Len(c) - 0
      /\ \A j \in (0 + 1)..(0 + Len(c) - 0) : f[j] = c[j - 0 + 0]
  BY <1>1, FilteredIs
<1> HIDE DEF f
<1>3. Len(f) = Len(c) /\ \A j \in 1..Len(f) : f[j] = c[j]
  BY <1>1, <1>2
<1>4. f = c
  BY <1>2, <1>3, SeqEqual
<1> QED BY <1>4 DEF f

LEMMA FilterStops ==
  ASSUME NEW c \in Seq(KeyValue), NEW w \in 0..Len(c), NEW l \in Seq(KeyValue), Len(l) = w,
         \A j \in 1..w : l[j] = c[j]
  PROVE  Filtered(c, w, Len(c), Len(c)) = l
<1> DEFINE f == Filtered(c, w, Len(c), Len(c))
<1>0. w \in Nat /\ Len(c) \in Nat /\ w <= Len(c) /\ Len(c) <= Len(c)
  OBVIOUS
<1>1. /\ f \in Seq(KeyValue) /\ Len(f) = w + Len(c) - Len(c) /\ \A j \in 1..w : f[j] = c[j]
  BY <1>0, FilteredIs, ZenonT(60)
<1> HIDE DEF f
<1>2. Len(f) = Len(l) /\ \A j \in 1..Len(f) : f[j] = l[j]
  BY <1>0, <1>1
<1>3. f = l
  BY <1>1, <1>2, SeqEqual
<1> QED BY <1>3 DEF f

\* The next pair moves behind those that are kept.
LEMMA FilterMoves ==
  ASSUME NEW c \in Seq(KeyValue), NEW w \in Nat, NEW i \in Nat, w <= i, i < Len(c),
         NEW d \in Seq(KeyValue), Len(d) = Len(c),
         d[w + 1] = c[i + 1],
         \A j \in 1..Len(c) : j # w + 1 /\ j # i + 1 => d[j] = c[j]
  PROVE  Filtered(d, w + 1, i + 1, Len(d)) = Filtered(c, w, i, Len(c))
<1> DEFINE n == Len(c)
           f == Filtered(c, w, i, n)
           g == Filtered(d, w + 1, i + 1, Len(d))
<1>1. /\ f \in Seq(KeyValue) /\ Len(f) = w + n - i
      /\ \A j \in 1..w : f[j] = c[j]
      /\ \A j \in (w + 1)..(w + n - i) : f[j] = c[j - w + i]
  <2>1. i <= Len(c)
    OBVIOUS
  <2> QED BY <2>1, FilteredIs
<1>2. /\ g \in Seq(KeyValue) /\ Len(g) = (w + 1) + Len(d) - (i + 1)
      /\ \A j \in 1..(w + 1) : g[j] = d[j]
      /\ \A j \in ((w + 1) + 1)..((w + 1) + Len(d) - (i + 1)) : g[j] = d[j - (w + 1) + (i + 1)]
  <2>1. w + 1 \in Nat /\ i + 1 \in Nat /\ w + 1 <= i + 1 /\ i + 1 <= Len(d)
    OBVIOUS
  <2> QED BY <2>1, FilteredIs
<1> HIDE DEF f, g
<1>3. ASSUME NEW j \in 1..(w + n - i) PROVE g[j] = f[j]
  <2>1. CASE j <= w
    <3>1. j \in 1..n /\ j \in 1..w /\ j \in 1..(w + 1) /\ j # w + 1 /\ j # i + 1
      BY <2>1
    <3> QED BY <3>1, <1>1, <1>2
  <2>2. CASE j = w + 1
    <3>1. j - w + i = i + 1 /\ j \in (w + 1)..(w + n - i) /\ j \in 1..(w + 1)
      BY <2>2
    <3>2. g[j] = d[w + 1] /\ f[j] = c[i + 1]
      BY <2>2, <3>1, <1>1, <1>2
    <3> QED BY <3>2
  <2>3. CASE j > w + 1
    <3>1. /\ j - (w + 1) + (i + 1) = j - w + i /\ j - w + i \in 1..n
          /\ j - w + i # w + 1 /\ j - w + i # i + 1
          /\ j \in ((w + 1) + 1)..((w + 1) + Len(d) - (i + 1)) /\ j \in (w + 1)..(w + n - i)
      BY <2>3
    <3> QED BY <3>1, <1>1, <1>2
  <2> QED BY <2>1, <2>2, <2>3
<1>4. Len(g) = Len(f) /\ Len(f) = w + n - i
  BY <1>1, <1>2
<1>5. g = f
  BY <1>1, <1>2, <1>3, <1>4, SeqEqual
<1> QED BY <1>5 DEF f, g

\* It is taken out.
LEMMA FilterDrops ==
  ASSUME NEW c \in Seq(KeyValue), NEW w \in Nat, NEW i \in Nat, w <= i, i < Len(c),
         NEW d \in Seq(KeyValue), Len(d) = Len(c),
         \A j \in 1..Len(c) : j # i + 1 => d[j] = c[j]
  PROVE  LET f == Filtered(c, w, i, Len(c)) IN
         /\ f \in Seq(KeyValue) /\ w + 1 \in 1..Len(f)
         /\ Filtered(d, w, i + 1, Len(d)) = SubSeq(f, 1, w) \o SubSeq(f, w + 2, Len(f))
<1> DEFINE n == Len(c)
           f == Filtered(c, w, i, n)
           g == Filtered(d, w, i + 1, Len(d))
           h == SubSeq(f, 1, w) \o SubSeq(f, w + 2, Len(f))
<1>1. /\ f \in Seq(KeyValue) /\ Len(f) = w + n - i
      /\ \A j \in 1..w : f[j] = c[j]
      /\ \A j \in (w + 1)..(w + n - i) : f[j] = c[j - w + i]
  <2>1. i <= Len(c)
    OBVIOUS
  <2> QED BY <2>1, FilteredIs
<1>2. /\ g \in Seq(KeyValue) /\ Len(g) = w + Len(d) - (i + 1)
      /\ \A j \in 1..w : g[j] = d[j]
      /\ \A j \in (w + 1)..(w + Len(d) - (i + 1)) : g[j] = d[j - w + (i + 1)]
  <2>1. i + 1 \in Nat /\ w <= i + 1 /\ i + 1 <= Len(d)
    OBVIOUS
  <2> QED BY <2>1, FilteredIs
<1> HIDE DEF f, g
<1>3. /\ h \in Seq(KeyValue) /\ Len(h) = w + n - (i + 1)
      /\ \A j \in 1..w : h[j] = f[j]
      /\ \A j \in (w + 1)..(w + n - (i + 1)) : h[j] = f[j + 1]
  <2>1. Len(f) \in Nat /\ w + 1 \in Nat /\ w <= w + 1 /\ w + 1 <= Len(f) /\ (w + 1) + 1 = w + 2
    BY <1>1
  <2> DEFINE e == SubSeq(f, 1, w) \o SubSeq(f, (w + 1) + 1, Len(f))
  <2>2. /\ e \in Seq(KeyValue) /\ Len(e) = w + Len(f) - (w + 1)
        /\ \A j \in 1..w : e[j] = f[j]
        /\ \A j \in (w + 1)..(w + Len(f) - (w + 1)) : e[j] = f[j - w + (w + 1)]
    BY <1>1, <2>1, Spliced, ZenonT(60)
  <2>3. h = e
    BY <2>1
  <2> HIDE DEF e, h
  <2>4. w + Len(f) - (w + 1) = w + n - (i + 1)
    BY <1>1
  <2>5. ASSUME NEW j \in (w + 1)..(w + n - (i + 1)) PROVE h[j] = f[j + 1]
    <3>1. j - w + (w + 1) = j + 1
      OBVIOUS
    <3> QED BY <2>2, <2>3, <2>4, <3>1
  <2> QED BY <2>2, <2>3, <2>4, <2>5
<1> HIDE DEF h
<1>4. ASSUME NEW j \in 1..(w + n - (i + 1)) PROVE g[j] = h[j]
  <2>1. CASE j <= w
    <3>1. j \in 1..n /\ j \in 1..w /\ j # i + 1
      BY <2>1
    <3> QED BY <3>1, <1>1, <1>2, <1>3
  <2>2. CASE j > w
    <3>1. /\ j - w + (i + 1) = (j + 1) - w + i /\ j - w + (i + 1) \in 1..n
          /\ j - w + (i + 1) # i + 1
          /\ j \in (w + 1)..(w + n - (i + 1)) /\ j + 1 \in (w + 1)..(w + n - i)
      BY <2>2
    <3> QED BY <3>1, <1>1, <1>2, <1>3
  <2> QED BY <2>1, <2>2
<1>5. g = h
  BY <1>2, <1>3, <1>4, SeqEqual
<1>6. w + 1 \in 1..Len(f)
  BY <1>1
<1> QED BY <1>1, <1>5, <1>6 DEF f, g, h

LEMMA ViewFilterNext ==
  ASSUME NEW x, StepOf(x)' = "filter", NEW v, v.up
  PROVE  View(v, StepOf(x)', write', index')
           = Live(v, Filtered(Lead(v, v.count), write', index', v.count), No)
BY ViewFiltering

\* The list of an object that a call walks over.
LEMMA WalkedLead ==
  ASSUME TypeInv, NEW x \in Queries, me = x, Walking
  PROVE  /\ q[x] \in Object /\ q[x].up /\ q[x].count \in Nat /\ q[x].count <= Len(q[x].pairs)
         /\ Len(q[x].pairs) \in Nat /\ index \in Nat /\ write \in Nat
         /\ Lead(q[x], q[x].count) \in Seq(KeyValue)
         /\ Len(Lead(q[x], q[x].count)) = q[x].count
         /\ \A j \in 1..q[x].count : Lead(q[x], q[x].count)[j] = Slot(q[x].pairs[j])
<1>1. /\ q[x] \in Object /\ q[x].up /\ q[x].count \in Nat /\ q[x].count <= Len(q[x].pairs)
      /\ Len(q[x].pairs) \in Nat /\ index \in Nat /\ write \in Nat
  BY AtWalk
<1>2. q[x].count \in 0..Len(q[x].pairs)
  BY <1>1
<1> QED BY <1>1, <1>2, LeadIs

LEMMA FilterStartStays == ASSUME TypeInv, NEW x \in Queries, llquery_filter(x) PROVE [List!Next]_Objects
<1> DEFINE c == Lead(q[x], q[x].count)
<1>1. /\ pc = "idle" /\ q[x].up /\ pc' = "filter" /\ me' = x /\ index' = 0 /\ write' = 0
      /\ UNCHANGED q
  BY DEF llquery_filter, Begins, Goes
<1>2. c \in Seq(KeyValue) /\ Len(c) = q[x].count
  <2>1. q[x] \in Object /\ q[x].count \in 0..Len(q[x].pairs)
    BY DEF TypeInv, Types, Fits, Object
  <2> QED BY <2>1, LeadIs
<1>3. StepOf(x)' = "filter" /\ q'[x] = q[x]
  BY <1>1 DEF StepOf
<1>4. View(q[x], StepOf(x)', write', index') = Live(q[x], Filtered(c, write', index', q[x].count), No)
  BY <1>1, <1>3, ViewFilterNext
<1>5. View(q[x], StepOf(x), write, index) = Live(q[x], c, No)
  BY <1>1, ViewIdle
<1> HIDE DEF c
<1>6. Filtered(c, write', index', q[x].count) = c
  BY <1>1, <1>2, FilterStarts
<1> QED BY <1>1, <1>3, <1>4, <1>5, <1>6, Stays

LEMMA FilterMovesOn ==
  ASSUME TypeInv, NEW keep \in BOOLEAN, FilterPair(keep)
  PROVE  [List!Next]_Objects
<1>1. /\ pc = "filter" /\ index < q[me].count /\ pc' = "filter" /\ index' = index + 1 /\ me' = me
      /\ \E v : (Moved(v) \/ Dropped(v)) /\ Update(me, v)
  BY FilterEffect
<1> SUFFICES ASSUME NEW x \in Queries, me = x PROVE [List!Next]_Objects
  BY <1>1 DEF TypeInv, Control
<1> DEFINE n == q[x].count
           c == Lead(q[x], n)
           l == Filtered(c, write, index, Len(c))
<1>2. /\ q[x] \in Object /\ q[x].up /\ n \in Nat /\ n <= Len(q[x].pairs)
      /\ Len(q[x].pairs) \in Nat /\ index \in Nat /\ write \in Nat
      /\ c \in Seq(KeyValue) /\ Len(c) = n /\ \A j \in 1..n : c[j] = Slot(q[x].pairs[j])
      /\ write <= index /\ index < Len(c)
  <2>1. Walking
    BY <1>1 DEF Walking
  <2>2. write <= index
    BY <1>1 DEF TypeInv, Control, Filters
  <2> QED BY <1>1, <2>1, <2>2, WalkedLead
<1>3. StepOf(x) = "filter" /\ StepOf(x)' = "filter"
  BY <1>1 DEF StepOf
<1>4. View(q[x], StepOf(x), write, index) = Live(q[x], l, No)
  BY <1>2, <1>3, ViewFiltering
<1>5. ASSUME NEW v, v \in Object, Kin(v, q[x]), v.count = n, Len(v.pairs) = Len(q[x].pairs),
             Update(x, v)
      PROVE  /\ q'[x] = v /\ \A y \in Queries : y # x => q'[y] = q[y]
             /\ Lead(v, v.count) \in Seq(KeyValue) /\ Len(Lead(v, v.count)) = n
             /\ \A j \in 1..n : Lead(v, v.count)[j] = Slot(v.pairs[j])
             /\ v.up /\ v.max = q[x].max /\ v.flags = q[x].flags
             /\ View(v, StepOf(x)', write', index')
                  = Live(q[x], Filtered(Lead(v, v.count), write', index', Len(Lead(v, v.count))), No)
  <2>1. v.up /\ v.max = q[x].max /\ v.flags = q[x].flags
    BY <1>2, <1>5 DEF Kin
  <2>2. v.count \in 0..Len(v.pairs)
    BY <1>2, <1>5
  <2>3. /\ Lead(v, v.count) \in Seq(KeyValue) /\ Len(Lead(v, v.count)) = n
        /\ \A j \in 1..n : Lead(v, v.count)[j] = Slot(v.pairs[j])
    BY <1>5, <2>2, LeadIs
  <2>4. View(v, StepOf(x)', write', index')
          = Live(v, Filtered(Lead(v, v.count), write', index', v.count), No)
    BY <1>3, <2>1, ViewFilterNext
  <2>5. View(v, StepOf(x)', write', index')
          = Live(q[x], Filtered(Lead(v, v.count), write', index', v.count), No)
    BY <2>1, <2>4, LiveSame
  <2> QED BY <1>5, <2>1, <2>3, <2>5, OthersSame
<1>6. ASSUME NEW v, Moved(v), Update(x, v) PROVE [List!Next]_Objects
  <2> DEFINE d == Lead(v, v.count)
  <2>1. /\ v \in Object /\ Kin(v, q[x]) /\ v.count = n /\ Len(v.pairs) = Len(q[x].pairs)
        /\ write' = write + 1
        /\ \A j \in 1..Len(q[x].pairs) :
             v.pairs[j] = IF j = write + 1 THEN q[x].pairs[index + 1]
                          ELSE IF j = index + 1 THEN EmptyPair ELSE q[x].pairs[j]
    BY <1>6 DEF Moved
  <2>2. /\ q'[x] = v /\ \A y \in Queries : y # x => q'[y] = q[y]
        /\ d \in Seq(KeyValue) /\ Len(d) = n /\ \A j \in 1..n : d[j] = Slot(v.pairs[j])
        /\ View(v, StepOf(x)', write', index')
             = Live(q[x], Filtered(d, write', index', Len(d)), No)
    BY <1>5, <1>6, <2>1
  <2> HIDE DEF c, d, n
  <2>3. d[write + 1] = c[index + 1] /\ Len(d) = Len(c)
    <3>1. write + 1 \in 1..n /\ index + 1 \in 1..n /\ write + 1 \in 1..Len(q[x].pairs)
      BY <1>2
    <3> QED BY <1>2, <2>1, <2>2, <3>1
  <2>4. ASSUME NEW j \in 1..Len(c), j # write + 1, j # index + 1 PROVE d[j] = c[j]
    <3>1. j \in 1..n /\ j \in 1..Len(q[x].pairs)
      BY <1>2
    <3> QED BY <1>2, <2>1, <2>2, <2>4, <3>1
  <2>5. Filtered(d, write + 1, index + 1, Len(d)) = l
    BY <1>2, <2>2, <2>3, <2>4, FilterMoves
  <2>6. View(v, StepOf(x)', write', index') = Live(q[x], l, No)
    BY <1>1, <2>1, <2>2, <2>5
  <2> HIDE DEF l
  <2> QED BY <1>1, <1>4, <2>2, <2>6, Stays
<1>7. ASSUME NEW v, Dropped(v), Update(x, v) PROVE [List!Next]_Objects
  <2> DEFINE d == Lead(v, v.count)
             w == write + 1
             new == SubSeq(l, 1, w - 1) \o SubSeq(l, w + 1, Len(l))
  <2>1. /\ v \in Object /\ Kin(v, q[x]) /\ v.count = n /\ Len(v.pairs) = Len(q[x].pairs)
        /\ write' = write
        /\ \A j \in 1..Len(q[x].pairs) :
             v.pairs[j] = IF j = index + 1 THEN EmptyPair ELSE q[x].pairs[j]
    BY <1>7 DEF Dropped
  <2>2. /\ q'[x] = v /\ \A y \in Queries : y # x => q'[y] = q[y]
        /\ d \in Seq(KeyValue) /\ Len(d) = n /\ \A j \in 1..n : d[j] = Slot(v.pairs[j])
        /\ View(v, StepOf(x)', write', index')
             = Live(q[x], Filtered(d, write', index', Len(d)), No)
    BY <1>5, <1>7, <2>1
  <2> HIDE DEF c, d, n
  <2>3. ASSUME NEW j \in 1..Len(c), j # index + 1 PROVE d[j] = c[j]
    <3>1. j \in 1..n /\ j \in 1..Len(q[x].pairs)
      BY <1>2
    <3> QED BY <1>2, <2>1, <2>2, <2>3, <3>1
  <2>4. /\ l \in Seq(KeyValue) /\ w \in 1..Len(l)
        /\ Filtered(d, write, index + 1, Len(d)) = SubSeq(l, 1, write) \o SubSeq(l, write + 2, Len(l))
    <3>1. Len(d) = Len(c)
      BY <1>2, <2>2
    <3> QED BY <1>2, <2>2, <2>3, <3>1, FilterDrops
  <2> HIDE DEF l
  <2>5. w - 1 = write /\ w + 1 = write + 2
    BY <1>2
  <2>6. Filtered(d, write', index', Len(d)) = new
    BY <1>1, <2>1, <2>4, <2>5
  <2>7. /\ Objects[x] = View(q[x], StepOf(x), write, index)
        /\ Turns(x, View(v, StepOf(x)', write', index'))
    BY <1>1, <2>2, TurnsOne
  <2>8. Objects[x] = Live(q[x], l, No) /\ Turns(x, Live(q[x], new, No))
    BY <1>4, <2>2, <2>6, <2>7
  <2> HIDE DEF w
  <2> QED BY <2>4, <2>8, YesOrNo, Drops
<1> QED BY <1>1, <1>6, <1>7

FilterEnded(v) ==
  LET y == q[me] IN
  /\ v \in Object /\ Kin(v, y) /\ v.count = write /\ Len(v.pairs) = Len(y.pairs)
  /\ \A j \in 1..write : v.pairs[j] = y.pairs[j]
  /\ Update(me, v)

LEMMA FilterEndEffect == ASSUME TypeInv, FilterEnd PROVE \E v : FilterEnded(v)
<1> DEFINE x  == q[me]
           ps == Cleared(x.pairs, (write + 1)..x.count)
           v  == [x EXCEPT !.count = write, !.pairs = ps]
<1>1. pc = "filter" /\ Update(me, v)
  BY DEF FilterEnd
<1>2. /\ x \in Object /\ Fits(x) /\ x.pairs \in Seq(Pair) /\ x.count \in Nat
      /\ write \in Nat /\ write <= Len(x.pairs) /\ Len(x.pairs) \in Nat
  BY <1>1, AtWalk DEF Walking
<1>3. /\ ps \in Seq(Pair) /\ Len(ps) = Len(x.pairs)
      /\ \A j \in 1..write : ps[j] = x.pairs[j]
  BY <1>2, ClearedSlots
<1> HIDE DEF ps
<1>4. v \in Object /\ Kin(v, x) /\ v.count = write /\ v.pairs = ps
  <2>1. write <= Len(ps)
    BY <1>2, <1>3
  <2>2. v \in Object /\ Fits(v) /\ Kin(v, x)
    BY <1>2, <1>3, <2>1, PairsUpdated
  <2>3. v.count = write /\ v.pairs = ps
    BY <1>2 DEF Object
  <2> QED BY <2>2, <2>3
<1> HIDE DEF v
<1>5. FilterEnded(v)
  BY <1>1, <1>3, <1>4 DEF FilterEnded
<1> QED BY <1>5

LEMMA FilterEndStays == ASSUME TypeInv, FilterEnd PROVE [List!Next]_Objects
<1>1. pc = "filter" /\ index = q[me].count /\ Ends("OK") /\ pc' = "idle"
  BY Ending DEF FilterEnd
<1> SUFFICES ASSUME NEW x \in Queries, me = x PROVE [List!Next]_Objects
  BY <1>1 DEF TypeInv, Control
<1> DEFINE n == q[x].count
           c == Lead(q[x], n)
<1>2. /\ n \in Nat /\ n <= Len(q[x].pairs) /\ q[x].up
      /\ Len(q[x].pairs) \in Nat /\ write \in Nat
      /\ c \in Seq(KeyValue) /\ Len(c) = n /\ \A j \in 1..n : c[j] = Slot(q[x].pairs[j])
      /\ write <= n /\ index = n
  <2>1. Walking
    BY <1>1 DEF Walking
  <2> QED BY <1>1, <2>1, WalkedLead, AtWalk
<1>3. PICK v : FilterEnded(v)
  BY FilterEndEffect
<1>4. Update(x, v)
  BY <1>3 DEF FilterEnded
<1>5. /\ v \in Object /\ v.up /\ v.max = q[x].max /\ v.flags = q[x].flags
      /\ v.count = write /\ Len(v.pairs) = Len(q[x].pairs)
      /\ \A j \in 1..write : v.pairs[j] = q[x].pairs[j]
  BY <1>2, <1>3 DEF FilterEnded, Kin
<1> DEFINE d == Lead(v, v.count)
<1>6. q'[x] = v /\ \A y \in Queries : y # x => q'[y] = q[y]
  BY <1>4, OthersSame
<1>7. d \in Seq(KeyValue) /\ Len(d) = write /\ \A j \in 1..write : d[j] = c[j]
  <2>1. v.count \in 0..Len(v.pairs)
    BY <1>2, <1>5
  <2>2. d \in Seq(KeyValue) /\ Len(d) = write /\ \A j \in 1..write : d[j] = Slot(v.pairs[j])
    BY <1>5, <2>1, LeadIs
  <2> HIDE DEF c, d, n
  <2>3. ASSUME NEW j \in 1..write PROVE d[j] = c[j]
    <3>1. j \in 1..n
      BY <1>2
    <3> QED BY <1>2, <1>5, <2>2, <3>1
  <2> QED BY <2>2, <2>3
<1>8. StepOf(x) = "filter" /\ StepOf(x)' = "idle"
  BY <1>1, Ending DEF StepOf
<1>9. View(q[x], StepOf(x), write, index) = Live(q[x], Filtered(c, write, n, n), No)
  BY <1>2, <1>8, ViewFiltering
<1>10. View(v, StepOf(x)', write', index') = Live(v, d, No)
  BY <1>5, <1>8, ViewNext
<1> HIDE DEF c, d, n
<1>11. Filtered(c, write, n, n) = d
  <2>1. write \in 0..Len(c)
    BY <1>2
  <2>2. Filtered(c, write, Len(c), Len(c)) = d
    BY <1>2, <1>7, <2>1, FilterStops
  <2> QED BY <1>2, <2>2
<1>12. View(v, StepOf(x)', write', index') = View(q[x], StepOf(x), write, index)
  BY <1>5, <1>9, <1>10, <1>11, LiveSame
<1> QED BY <1>1, <1>6, <1>12, Stays

-----------------------------------------------------------------------------
(* Sort. *)

LEMMA ExchangedIs ==
  ASSUME NEW c \in Seq(KeyValue), NEW d \in Seq(KeyValue), Len(d) = Len(c),
         NEW i \in 1..(Len(c) - 1), d[i] = c[i + 1], d[i + 1] = c[i],
         \A j \in 1..Len(c) : j # i /\ j # i + 1 => d[j] = c[j]
  PROVE  d = [c EXCEPT ![i] = c[i + 1], ![i + 1] = c[i]]
<1> DEFINE e == [c EXCEPT ![i] = c[i + 1], ![i + 1] = c[i]]
<1>1. i \in 1..Len(c) /\ i + 1 \in 1..Len(c) /\ i # i + 1 /\ Len(c) \in Nat
  OBVIOUS
<1>2. c[i] \in KeyValue /\ c[i + 1] \in KeyValue
  BY <1>1
<1>3. e \in Seq(KeyValue) /\ Len(e) = Len(c)
  BY <1>1, <1>2
<1>4. ASSUME NEW j \in 1..Len(d) PROVE d[j] = e[j]
  BY <1>1
<1> HIDE DEF e
<1>5. d = e
  BY <1>3, <1>4, SeqEqual
<1> QED BY <1>5 DEF e

\* A call that is at rest, or sorting, looks at the list as it is.
LEMMA ViewRestNext ==
  ASSUME NEW x, StepOf(x)' \in {"idle", "sort", "sort_by"}, NEW v, v.up
  PROVE  View(v, StepOf(x)', write', index') = Live(v, Lead(v, v.count), No)
BY ViewAtRest

LEMMA ViewRest ==
  ASSUME NEW x, StepOf(x) \in {"idle", "sort", "sort_by"}, NEW v, v.up
  PROVE  View(v, StepOf(x), write, index) = Live(v, Lead(v, v.count), No)
BY ViewAtRest

LEMMA SortPairSwaps == ASSUME TypeInv, SortPair PROVE [List!Next]_Objects
<1>1. /\ pc \in {"sort", "sort_by"} /\ index < ThisRound /\ pc' = pc /\ me' = me
      /\ \E after \in BOOLEAN :
           /\ pc = "sort" => after = KeyAfter(q[me].pairs[index + 1].k, q[me].pairs[index + 2].k)
           /\ IF after THEN \E v : Swapped(v) /\ Update(me, v) ELSE UNCHANGED q
  BY SortEffect
<1> SUFFICES ASSUME NEW x \in Queries, me = x PROVE [List!Next]_Objects
  BY <1>1 DEF TypeInv, Control
<1> DEFINE n == q[x].count
           c == Lead(q[x], n)
           i == index + 1
<1>2. /\ q[x].up /\ n \in Nat /\ n <= Len(q[x].pairs)
      /\ Len(q[x].pairs) \in Nat /\ index \in Nat /\ write \in Nat
      /\ c \in Seq(KeyValue) /\ Len(c) = n /\ \A j \in 1..n : c[j] = Slot(q[x].pairs[j])
      /\ i \in 1..(Len(c) - 1)
  <2>1. Walking
    BY <1>1 DEF Walking
  <2>2. index < n - write - 1
    BY <1>1 DEF ThisRound
  <2> QED BY <2>1, <2>2, WalkedLead
<1>3. StepOf(x) \in {"idle", "sort", "sort_by"} /\ StepOf(x)' \in {"idle", "sort", "sort_by"}
  BY <1>1 DEF StepOf
<1>4. View(q[x], StepOf(x), write, index) = Live(q[x], c, No)
  BY <1>2, <1>3, ViewRest
<1>5. CASE UNCHANGED q
  <2>1. View(q[x], StepOf(x)', write', index') = Live(q[x], c, No)
    BY <1>2, <1>3, ViewRestNext
  <2>2. q'[x] = q[x] /\ \A y \in Queries : y # x => q'[y] = q[y]
    BY <1>5
  <2> QED BY <1>1, <1>4, <2>1, <2>2, Stays
<1>6. ASSUME NEW v, Swapped(v), Update(x, v),
             pc = "sort" => KeyAfter(q[x].pairs[index + 1].k, q[x].pairs[index + 2].k)
      PROVE  [List!Next]_Objects
  <2> DEFINE d   == Lead(v, v.count)
             new == [c EXCEPT ![i] = c[i + 1], ![i + 1] = c[i]]
  <2>1. /\ v \in Object /\ v.up /\ v.max = q[x].max /\ v.flags = q[x].flags /\ v.count = n
        /\ Len(v.pairs) = Len(q[x].pairs)
        /\ \A j \in 1..Len(q[x].pairs) :
             v.pairs[j] = IF j = index + 1 THEN q[x].pairs[index + 2]
                          ELSE IF j = index + 2 THEN q[x].pairs[index + 1] ELSE q[x].pairs[j]
    BY <1>2, <1>6 DEF Swapped, Kin
  <2>2. d \in Seq(KeyValue) /\ Len(d) = n /\ \A j \in 1..n : d[j] = Slot(v.pairs[j])
    <3>1. v.count \in 0..Len(v.pairs)
      BY <1>2, <2>1
    <3> QED BY <2>1, <3>1, LeadIs
  <2>3. View(v, StepOf(x)', write', index') = Live(q[x], d, No)
    <3>1. View(v, StepOf(x)', write', index') = Live(v, d, No)
      BY <1>3, <2>1, ViewRestNext
    <3> QED BY <2>1, <3>1, LiveSame
  <2>4. q'[x] = v /\ \A y \in Queries : y # x => q'[y] = q[y]
    BY <1>6, OthersSame
  <2>5. /\ Objects[x] = View(q[x], StepOf(x), write, index)
        /\ Turns(x, View(v, StepOf(x)', write', index'))
    BY <1>1, <2>4, TurnsOne
  <2> HIDE DEF c, d, n
  <2>6. /\ index + 1 \in 1..n /\ index + 2 \in 1..n /\ i + 1 = index + 2
        /\ index + 1 \in 1..Len(q[x].pairs) /\ index + 2 \in 1..Len(q[x].pairs)
        /\ index + 1 # index + 2
    BY <1>2
  <2>7. c[i] = Slot(q[x].pairs[index + 1]) /\ c[i + 1] = Slot(q[x].pairs[index + 2])
    BY <1>2, <2>6
  <2>8. d[i] = c[i + 1] /\ d[i + 1] = c[i]
    BY <2>1, <2>2, <2>6, <2>7
  <2>9. ASSUME NEW j \in 1..Len(c), j # i, j # i + 1 PROVE d[j] = c[j]
    <3>1. j \in 1..n /\ j \in 1..Len(q[x].pairs) /\ j # index + 1 /\ j # index + 2
      BY <1>2, <2>6, <2>9
    <3> QED BY <1>2, <2>1, <2>2, <3>1
  <2>10. KeyAfter(c[i].k, c[i + 1].k) \/ pc = "sort_by"
    <3>1. c[i].k = q[x].pairs[index + 1].k /\ c[i + 1].k = q[x].pairs[index + 2].k
      BY <2>7 DEF Slot
    <3> QED BY <1>1, <1>6, <3>1
  <2> HIDE DEF i
  <2>11. d = new
    BY <1>2, <2>2, <2>8, <2>9, ExchangedIs
  <2>12. Objects[x] = Live(q[x], c, No) /\ Turns(x, Live(q[x], new, No))
    BY <1>4, <2>3, <2>5, <2>11
  <2> QED BY <1>2, <2>10, <2>12, YesOrNo, Swaps
<1> QED BY <1>1, <1>5, <1>6

\* The rest of a sort changes nothing.
LEMMA SortRestStays ==
  ASSUME TypeInv, SortRound \/ SortEnd PROVE [List!Next]_Objects
<1>1. /\ pc \in {"sort", "sort_by"} /\ UNCHANGED q
      /\ (pc' = "idle") \/ (pc' = pc /\ me' = me)
  BY DEF SortRound, SortEnd, Ends
<1> SUFFICES ASSUME NEW x \in Queries, me = x PROVE [List!Next]_Objects
  BY <1>1 DEF TypeInv, Control
<1>2. q[x].up
  BY <1>1 DEF TypeInv, Control
<1>3. StepOf(x) \in {"idle", "sort", "sort_by"} /\ StepOf(x)' \in {"idle", "sort", "sort_by"}
  BY <1>1 DEF StepOf
<1>4. View(q[x], StepOf(x), write, index) = View(q[x], StepOf(x)', write', index')
  BY <1>2, <1>3, ViewRest, ViewRestNext
<1>5. q'[x] = q[x] /\ \A y \in Queries : y # x => q'[y] = q[y]
  BY <1>1
<1> QED BY <1>1, <1>4, <1>5, Stays

-----------------------------------------------------------------------------
(* Clone. *)

LEMMA CloneFailsStays ==
  ASSUME TypeInv, pc \in {"clone_key", "clone_value"}, CloneFails PROVE [List!Next]_Objects
<1> SUFFICES ASSUME NEW x \in Queries, me = x PROVE [List!Next]_Objects
  BY DEF TypeInv, Control
<1>1. pc \in Making /\ Update(x, Zero) /\ Ends("MEMORY_ERROR")
  BY DEF CloneFails, Discard, Making
<1> QED BY <1>1, MakingFails

LEMMA CloneKeyStays == ASSUME TypeInv, CloneKey PROVE [List!Next]_Objects
<1>1. pc = "clone_key" /\ (CloneFails \/ \E v, s : KeyCopied(v, s))
  BY CopyKeyEffect
<1> SUFFICES ASSUME NEW x \in Queries, me = x PROVE [List!Next]_Objects
  BY <1>1 DEF TypeInv, Control
<1>2. ASSUME NEW v, NEW s, KeyCopied(v, s) PROVE [List!Next]_Objects
  <2>1. Update(x, v) /\ me' = x /\ pc \in Making /\ pc' \in Making
    BY <1>1, <1>2 DEF KeyCopied, Copied, Making
  <2> QED BY <2>1, MakingStays
<1> QED BY <1>1, <1>2, CloneFailsStays

LEMMA CloneValueStays == ASSUME TypeInv, CloneValue PROVE [List!Next]_Objects
<1>1. pc = "clone_value" /\ (CloneFails \/ \E v, s : ValueCopied(v, s))
  BY CopyValueEffect
<1> SUFFICES ASSUME NEW x \in Queries, me = x PROVE [List!Next]_Objects
  BY <1>1 DEF TypeInv, Control
<1>2. ASSUME NEW v, NEW s, ValueCopied(v, s) PROVE [List!Next]_Objects
  <2>1. Update(x, v) /\ me' = x /\ pc \in Making /\ pc' \in Making
    BY <1>1, <1>2 DEF ValueCopied, Copied, Making
  <2> QED BY <2>1, MakingStays
<1> QED BY <1>1, <1>2, CloneFailsStays

\* The clone is complete: it is the list its source is.
LEMMA CloneAppears ==
  ASSUME TypeInv, CopyInv, pc = "clone_key", index = q[me].count, Ends("OK"),
         NEW v, v.up, v.count = q[me].count, v.pairs = q[me].pairs,
         v.max = q[me].max, v.flags = q[me].flags,
         NEW x \in Queries, me = x, q'[x] = v, \A y \in Queries : y # x => q'[y] = q[y]
  PROVE  [List!Next]_Objects
<1>1. /\ other \in Queries /\ other # x /\ q[other].up
      /\ q[x].count = q[other].count /\ q[x].flags = q[other].flags /\ q[x].max = q[other].max
      /\ Lead(q[x], index) = Lead(q[other], index)
  BY AtCopy DEF CopyInv
<1> SUFFICES ASSUME NEW z \in Queries, other = z PROVE [List!Next]_Objects
  BY <1>1
<1>2. pc' = "idle" /\ StepOf(x)' = "idle"
  BY Ending
<1>3. /\ Objects[x] = View(q[x], StepOf(x), write, index)
      /\ Turns(x, View(v, StepOf(x)', write', index'))
  BY <1>2, TurnsOne
<1>4. StepOf(x) \in Making
  BY DEF StepOf, Making
<1>5. Objects[x] = Gone
  BY <1>3, <1>4, ViewMaking
<1>6. StepOf(z) = "idle"
  BY <1>1 DEF StepOf
<1>7. Objects[z] = View(q[z], StepOf(z), write, index)
  BY ObjectIs
<1>8. Objects[z] = Live(q[z], Lead(q[z], q[z].count), No)
  <2>1. StepOf(z) \in {"idle", "sort", "sort_by"}
    BY <1>6
  <2>2. View(q[z], StepOf(z), write, index) = Live(q[z], Lead(q[z], q[z].count), No)
    BY <1>1, <2>1, ViewRest
  <2> QED BY <1>7, <2>2
<1>9. Lead(v, v.count) = Lead(q[z], q[z].count)
  <2>1. Lead(v, v.count) = Lead(q[x], v.count)
    BY LeadStays
  <2> QED BY <1>1, <2>1
<1>10. View(v, StepOf(x)', write', index') = Live(v, Lead(v, v.count), No)
  BY <1>2, ViewNext
<1>11. v.max = q[z].max /\ v.flags = q[z].flags
  BY <1>1
<1>12. Live(v, Lead(v, v.count), No) = Objects[z]
  BY <1>8, <1>9, <1>11, LiveSame
<1>13. Turns(x, Objects[z])
  BY <1>3, <1>10, <1>12
<1> QED BY <1>5, <1>8, <1>13, YesOrNo, Copies

LEMMA CloneEndCopies == ASSUME TypeInv, CopyInv, CloneBuffer PROVE [List!Next]_Objects
<1>1. /\ pc = "clone_key" /\ index = q[me].count
      /\ \/ UNCHANGED <<q, heaps>> /\ Ends("OK")
         \/ CloneFails
         \/ \E v, b : BufferCopied(v, b) /\ Ends("OK")
  BY CopyBufferEffect
<1> SUFFICES ASSUME NEW x \in Queries, me = x PROVE [List!Next]_Objects
  BY <1>1 DEF TypeInv, Control
<1>2. q[x].up
  BY <1>1, AtCopy
<1>3. CASE UNCHANGED <<q, heaps>> /\ Ends("OK")
  <2>1. q'[x] = q[x] /\ \A y \in Queries : y # x => q'[y] = q[y]
    BY <1>3
  <2> QED BY <1>1, <1>2, <1>3, <2>1, CloneAppears
<1>4. ASSUME NEW v, NEW b, BufferCopied(v, b), Ends("OK") PROVE [List!Next]_Objects
  <2>1. /\ v.up /\ v.count = q[x].count /\ v.pairs = q[x].pairs
        /\ v.max = q[x].max /\ v.flags = q[x].flags /\ Update(x, v)
    BY <1>2, <1>4 DEF BufferCopied
  <2>2. q'[x] = v /\ \A y \in Queries : y # x => q'[y] = q[y]
    BY <2>1, OthersSame
  <2> QED BY <1>1, <1>4, <2>1, <2>2, CloneAppears
<1> QED BY <1>1, <1>3, <1>4, CloneFailsStays

-----------------------------------------------------------------------------
(* Every step. *)

LEMMA CallRefines == ASSUME TypeInv, Call PROVE [List!Next]_Objects
<1> PICK x \in Queries :
      \/ \E a \in Allocators, n \in Limits, f \in FlagSets : llquery_init_ex(x, a, n, f)
      \/ \E t \in Texts, n \in BufferSizes : llquery_parse_ex(x, t, n)
      \/ llquery_reset(x) \/ llquery_free(x) \/ llquery_filter(x)
      \/ \E by \in BOOLEAN : llquery_sort(x, by)
      \/ \E y \in Queries : llquery_clone(x, y)
      \/ \E a \in Allocators : llquery_set_allocator(x, a)
  BY DEF Call
<1> QED BY InitStays, ParseStarts, ResetEmpties, FreeVanishes, FilterStartStays,
           SortStartStays, CloneStays, SetAllocatorStays

LEMMA StepRefines == ASSUME TypeInv, LoopInv, MadeInv, CopyInv, Step PROVE [List!Next]_Objects
BY PairsAppear, DecodeLoads, StringPoolStays, SkipStays, KeyStays, ValueStays, ParseEndLoads,
   FilterMovesOn, FilterEndStays, SortPairSwaps, SortRestStays,
   CloneKeyStays, CloneValueStays, CloneEndCopies
DEF Step

LEMMA RestStays == UNCHANGED vars => UNCHANGED Objects
BY DEF vars, Objects, Building, ListOf, Contents

LEMMA NextRefines ==
  TypeInv /\ LoopInv /\ MadeInv /\ CopyInv /\ [Next]_vars => [List!Next]_Objects
BY CallRefines, StepRefines, RestStays DEF Next

LEMMA InitRefines == Init => List!Init
<1> SUFFICES ASSUME Init PROVE Objects = [x \in Queries |-> List!Nothing]
  BY DEF List!Init
<1>1. ASSUME NEW x \in Queries PROVE ~q[x].up
  BY <1>1 DEF Init, Zero
<1> QED BY <1>1 DEF Objects, List!Nothing

LEMMA InitLoops == Init => LoopInv /\ MadeInv /\ CopyInv
BY DEF Init, LoopInv, MadeInv, CopyInv, OfBytes

(* LlQuery implements QueryList: every step of every call is a step of the lists of pairs, or *)
(* nothing happens to them (llquery.c:238-555, 656-778, 845-992).                             *)
THEOREM QueryImplementsList == Spec => ImplementsList
<1>1. Init => TypeInv /\ PoolInv
  BY InitTyped DEF Init, PoolInv
<1>2. TypeInv /\ [Next]_vars => TypeInv'
  BY StepTyped
<1> QED BY <1>1, <1>2, StepPool, StepLoop, StepMade, StepCopy, InitLoops, InitRefines, NextRefines, PTL
        DEF Spec, ImplementsList, List!Spec
=============================================================================
