------------------------------ MODULE UrlGrammar ------------------------------
(***************************************************************************)
(* The URLs llurl accepts and what their fields are, by where delimiters   *)
(* stand in the text and not by a parser's run over it.  Texts are         *)
(* sequences of bytes.  The character classes are llurl's.                 *)
(***************************************************************************)
LOCAL INSTANCE Integers
LOCAL INSTANCE SequencesExt

CONSTANTS Digit, Alpha, Hex, SchemaChar, UserinfoChar, UrlChar

LOCAL Colon == 58
LOCAL Slash == 47
LOCAL Question == 63
LOCAL Hash == 35
LOCAL At == 64
LOCAL Star == 42
LOCAL Percent == 37
LOCAL Open == 91
LOCAL Close == 93

\* Where t has its first byte of S; behind its end if it has none.
Cut(t, S) == LET n == SelectInSeq(t, LAMBDA c : c \in S)
             IN IF n = 0 THEN Len(t) + 1 ELSE n
Before(t, S) == SubSeq(t, 1, Cut(t, S) - 1)
From(t, S)   == SubSeq(t, Cut(t, S), Len(t))
After(t, S)  == SubSeq(t, Cut(t, S) + 1, Len(t))
Holds(t, S)  == \E k \in DOMAIN t : t[k] \in S
Made(t, S)   == \A k \in DOMAIN t : t[k] \in S

Slashes == <<Slash, Slash>>

-----------------------------------------------------------------------------
\* schema "://" rest,  "//" rest,  path.
Absolute(t) == /\ t # <<>> /\ t[1] \in Alpha
               /\ Made(Before(t, {Colon}), SchemaChar)
               /\ IsPrefix(<<Colon>> \o Slashes, From(t, {Colon}))
Relative(t) == IsPrefix(Slashes, t)
IsPath(t)   == t # <<>> /\ t[1] \in {Slash, Star} /\ ~Relative(t)

Rest(t) == IF Relative(t) THEN SubSeq(t, 3, Len(t))
                          ELSE LET r == After(t, {Colon}) IN SubSeq(r, 3, Len(r))

\* authority and tail; an authority is [userinfo "@"] host [":" port].
Authority(r)  == Before(r, {Slash, Question, Hash})
Tail_(r)      == From(r, {Slash, Question, Hash})
HostPort(a)   == IF Holds(a, {At}) THEN After(a, {At}) ELSE a
IsLiteral(h)  == h # <<>> /\ h[1] = Open
Host(h)       == IF IsLiteral(h) THEN Tail(Before(h, {Close}))
                 ELSE IF After(h, {Colon}) = <<>> THEN h ELSE Before(h, {Colon})
Port(h)       == After(IF IsLiteral(h) THEN After(h, {Close}) ELSE h, {Colon})

Value(p) == FoldLeft(LAMBDA n, d : 10 * n + (d - 48), 0, p)

PortOk(p) == Len(p) \in 1..5 /\ Made(p, Digit) /\ Value(p) <= 65535

\* Each % in a name begins an escape.  (An empty port leaves its colon in the name,
\* and llurl then takes the name for an address, whose escapes are its own affair.)
EscapesOk(n) == Holds(n, {Colon}) \/
  \A k \in DOMAIN n : n[k] = Percent => \A j \in {k + 1, k + 2} : j <= Len(n) /\ n[j] \in Hex

HostPortOk(h) ==
  IF IsLiteral(h)
  THEN /\ Holds(h, {Close}) /\ Made(Host(h), Hex \cup {Colon, 46})
       /\ After(h, {Close}) # <<>> => After(h, {Close})[1] = Colon /\ PortOk(Port(h))
  ELSE /\ Made(h, UserinfoChar)
       /\ Port(h) # <<>> => PortOk(Port(h))
       /\ EscapesOk(Host(h))

AuthorityOk(a) == /\ a # <<>>
                  /\ Holds(a, {At}) => Made(Before(a, {At}), UserinfoChar)
                  /\ HostPortOk(HostPort(a))

\* A fragment must not follow an authority: it takes a path or a query first.
RestOk(r) == /\ AuthorityOk(Authority(r))
             /\ Tail_(r) # <<>> => Tail_(r)[1] # Hash
             /\ Made(Tail_(r), UrlChar)

Accepts(t, is_connect) ==
  IF is_connect THEN /\ Authority(t) = t /\ AuthorityOk(t) /\ Port(HostPort(t)) # <<>>
  ELSE \/ IsPath(t) /\ Made(t, UrlChar)
       \/ (Absolute(t) \/ Relative(t)) /\ RestOk(Rest(t))

-----------------------------------------------------------------------------
\* The fields of an accepted text: a set of <<field, its text>>.
AuthorityParts(a) ==
  LET h == HostPort(a) IN
  {<<"HOST", Host(h)>>}
  \cup (IF Holds(a, {At}) THEN {<<"USERINFO", Before(a, {At})>>} ELSE {})
  \cup (IF Port(h) # <<>> THEN {<<"PORT", Port(h)>>} ELSE {})

TailParts(p) ==
  LET path == Before(p, {Question, Hash})
      more == From(p, {Question, Hash}) IN
  (IF path # <<>> THEN {<<"PATH", path>>} ELSE {})
  \cup (IF more # <<>> /\ more[1] = Question
        THEN {<<"QUERY", Tail(Before(more, {Hash}))>>} ELSE {})
  \cup (IF Holds(more, {Hash}) THEN {<<"FRAGMENT", After(more, {Hash})>>} ELSE {})

Parts(t, is_connect) ==
  IF is_connect THEN AuthorityParts(t)
  ELSE IF IsPath(t) THEN TailParts(t)
  ELSE (IF Absolute(t) THEN {<<"SCHEMA", Before(t, {Colon})>>} ELSE {})
       \cup AuthorityParts(Authority(Rest(t))) \cup TailParts(Tail_(Rest(t)))
=============================================================================
