------------------------------ MODULE QueryText ------------------------------
(***************************************************************************)
(* What llquery.c does to texts, which are sequences of bytes: decoding,   *)
(* trimming, letter case, the order of keys, and where a pair of a query   *)
(* begins and ends.  Positions count from 0: At(t, k) is t's byte at k.    *)
(***************************************************************************)
EXTENDS Integers, Sequences, FiniteSets

NUL == 0    Space == 32   Percent == 37  Amp == 38
Plus == 43  Equal == 61   Question == 63

Spaces     == (9..13) \cup {Space}                 \* CHAR_SPACE
Upper      == 65..90                               \* CHAR_UPPER
Digits     == 48..57
Alnum      == Digits \cup Upper \cup (97..122)     \* CHAR_HEX, CHAR_ALPHA
HexDigits  == Digits \cup (65..70) \cup (97..102)
Unreserved == {45, 46, 95, 126}                    \* - . _ ~

At(t, k) == t[k + 1]
Cut(t, k, n) == SubSeq(t, k + 1, n)                \* the bytes from k on, before n

\* The first position from k on that holds a byte of S; the end of t if none does.
Find(t, S, k) ==
  LET hits == {j \in k..(Len(t) - 1) : At(t, j) \in S}
  IN IF hits = {} THEN Len(t) ELSE CHOOSE j \in hits : \A h \in hits : j <= h

HexValue(c) == IF c \in Digits THEN c - 48
               ELSE IF c \in Upper THEN c - 55 ELSE c - 87

\* The least and the greatest position of a byte outside S; none if t is all S.
Others(t, S) == {j \in 0..(Len(t) - 1) : At(t, j) \notin S}

-----------------------------------------------------------------------------
(* Decoding and encoding. *)

has_encoded_chars(t) == \E k \in 1..Len(t) : t[k] \in {Percent, Plus}

Escape(t, k) == /\ 1 <= k /\ k + 2 <= Len(t) /\ t[k] = Percent
                /\ t[k + 1] \in HexDigits /\ t[k + 2] \in HexDigits

\* The digits of an escape go into its first byte.  (They begin no other escape.)
llquery_url_decode(t) ==
  LET left    == {k \in 1..Len(t) : ~Escape(t, k - 1) /\ ~Escape(t, k - 2)}
      place(k) == Cardinality({j \in left : j <= k})
      byte(k) == IF Escape(t, k) THEN 16 * HexValue(t[k + 1]) + HexValue(t[k + 2])
                 ELSE IF t[k] = Plus THEN Space ELSE t[k]
  IN [n \in 1..Cardinality(left) |-> byte(CHOOSE k \in left : place(k) = n)]

\* The same for a C string: it ends at a NUL.
decode_in_place(t) == llquery_url_decode(Cut(t, 0, Find(t, {NUL}, 0)))

\* A mistake: '+' is not encoded.
KeptWithPlus == Alnum \cup Unreserved \cup {NUL, Plus}
\* strchr finds NUL at the end of the unreserved characters.
Kept     == Alnum \cup Unreserved \cup {NUL}
HexOf(d) == IF d < 10 THEN 48 + d ELSE 55 + d

EncodedByte(c) == IF c \in Kept THEN <<c>>
                  ELSE IF c = Space THEN <<Plus>>
                  ELSE <<Percent, HexOf(c \div 16), HexOf(c % 16)>>

Encoded(t) ==
  LET upto[k \in 0..Len(t)] == IF k = 0 THEN <<>> ELSE upto[k - 1] \o EncodedByte(t[k])
  IN upto[Len(t)]

\* What llquery_url_encode reckons the text takes: a space as much as an escape.
EncodedSize(t) ==
  LET upto[k \in 0..Len(t)] ==
        IF k = 0 THEN 0 ELSE upto[k - 1] + (IF t[k] \in Kept THEN 1 ELSE 3)
  IN upto[Len(t)]

\* Its answer, and what it wrote into a buffer of the size.
llquery_url_encode(t, size) ==
  IF size < EncodedSize(t) + 1 THEN [answer |-> EncodedSize(t), out |-> <<>>]
                               ELSE [answer |-> Len(Encoded(t)), out |-> Encoded(t)]

-----------------------------------------------------------------------------
(* Keys and values. *)

trim_string(t) ==
  LET o == Others(t, Spaces) IN
  IF o = {} THEN <<>>
  ELSE Cut(t, CHOOSE j \in o : \A h \in o : j <= h,
              1 + CHOOSE j \in o : \A h \in o : j >= h)

lowercase_string(t) == [k \in 1..Len(t) |-> IF t[k] \in Upper THEN t[k] + 32 ELSE t[k]]

\* compare_keys(a, b) > 0: at the first byte they differ in, or a goes on.
KeyAfter(a, b) ==
  LET n    == IF Len(a) < Len(b) THEN Len(a) ELSE Len(b)
      diff == {k \in 1..n : a[k] # b[k]}
  IN IF diff = {} THEN Len(a) > Len(b)
     ELSE LET k == CHOOSE k \in diff : \A h \in diff : k <= h IN a[k] > b[k]

-----------------------------------------------------------------------------
(* One turn of a parsing loop from position cur: the pair that begins there. *)

PairStart(t, cur) == Find(t, (0..255) \ {Amp}, cur)
KeyEnd(t, k)      == Find(t, {Equal, Amp}, k)
HasEqual(t, k)    == KeyEnd(t, k) < Len(t) /\ At(t, KeyEnd(t, k)) = Equal
ValueStart(t, k)  == IF HasEqual(t, k) THEN KeyEnd(t, k) + 1 ELSE KeyEnd(t, k)
ValueEnd(t, k)    == IF HasEqual(t, k) THEN Find(t, {Amp}, ValueStart(t, k)) ELSE KeyEnd(t, k)
Key(t, k)         == Cut(t, k, KeyEnd(t, k))
Value(t, k)       == Cut(t, ValueStart(t, k), ValueEnd(t, k))
\* Behind the pair and the separator it ends with.
PairEnd(t, k)     == IF ValueEnd(t, k) < Len(t) THEN ValueEnd(t, k) + 1 ELSE ValueEnd(t, k)

Unquestioned(t) == IF t # <<>> /\ t[1] = Question THEN Tail(t) ELSE t

\* A mistake: separators are counted, and a pair for the end.
CountSeparators(t) ==
  LET q == Unquestioned(t) IN
  IF q = <<>> THEN 0 ELSE 1 + Len(SelectSeq(q, LAMBDA c : c = Amp))

llquery_count_pairs(t) ==
  LET q == Unquestioned(t)
      after(k) == Find(q, {Amp}, k)
      from[k \in 0..(Len(q) + 1)] ==
        LET s == PairStart(q, k) IN IF k >= Len(q) \/ s = Len(q) THEN 0 ELSE 1 + from[after(s) + 1]
  IN from[0]

-----------------------------------------------------------------------------
(* What is read from an object: list is its pairs. *)

Positions(list, key) == {n \in DOMAIN list : list[n].k = key}

llquery_has_key(list, key) == Positions(list, key) # {}

\* The values of the first max pairs that have the key; llquery_get_value is the first.
llquery_get_all_values(list, key, max) ==
  LET upto[n \in 0..Len(list)] ==
        IF n = 0 THEN <<>>
        ELSE IF list[n].k = key /\ Len(upto[n - 1]) < max THEN Append(upto[n - 1], list[n].v)
        ELSE upto[n - 1]
  IN upto[Len(list)]

\* A mistake: nothing between a key and its value.
StringifyRunsOn(list) ==
  LET upto[n \in 0..Len(list)] ==
        IF n = 0 THEN <<>>
        ELSE upto[n - 1] \o (IF n = 1 THEN <<>> ELSE <<Amp>>) \o list[n].k \o list[n].v
  IN upto[Len(list)]

\* The answer without a buffer is its length.  encode is not looked at.
llquery_stringify(list) ==
  LET upto[n \in 0..Len(list)] ==
        IF n = 0 THEN <<>>
        ELSE upto[n - 1] \o (IF n = 1 THEN <<>> ELSE <<Amp>>)
               \o list[n].k \o <<Equal>> \o list[n].v
  IN upto[Len(list)]

-----------------------------------------------------------------------------
(* The quick functions. *)

\* The fast parser drops no pair.  It decodes into a buffer on its stack and keeps the
\* length of the text: what decoding left behind its NUL is read on.
MAX_STACK_BUF == 2048
parse_fast_text(t, decode) ==
  IF ~(decode /\ has_encoded_chars(t)) THEN t
  ELSE IF Len(t) >= MAX_STACK_BUF THEN <<>>
  ELSE LET d == decode_in_place(t) IN Cut(d \o <<NUL>> \o Cut(t, Len(d) + 1, Len(t)), 0, Len(t))

llquery_parse_fast(t, max, decode) ==
  LET q == parse_fast_text(Unquestioned(t), decode)
      from[k \in 0..(Len(q) + 1), n \in 0..max] ==
        LET s == PairStart(q, k)
        IN IF n = 0 \/ k >= Len(q) \/ s = Len(q) THEN <<>>
           ELSE <<[k |-> Key(q, s), v |-> Value(q, s)]>> \o from[PairEnd(q, s), n - 1]
  IN from[0, max]

llquery_is_valid(t) ==
  t # <<>> /\ \A k \in 1..Len(Unquestioned(t)) :
                Unquestioned(t)[k] \in Alnum \cup Unreserved \cup {Percent, Plus, Equal, Amp}
=============================================================================
