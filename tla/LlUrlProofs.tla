----------------------------- MODULE LlUrlProofs -----------------------------
(***************************************************************************)
(* The fields of an accepted URL are disjoint parts of it, for every URL    *)
(* shorter than Width.                                                     *)
(***************************************************************************)
EXTENDS LlUrl, WellFoundedInduction, TLAPS

-----------------------------------------------------------------------------
(* Scanning. *)

LEMMA LeastNatural ==
  ASSUME NEW S, S \subseteq Nat, S # {}
  PROVE  \E m \in S : \A n \in S : m <= n
<1>1. PICK m \in S : \A n \in S : ~(<<n, m>> \in OpToRel(<, Nat))
  BY NatLessThanWellFounded, WFMin
<1>2. \A n \in S : ~(n < m)
  BY <1>1 DEF OpToRel
<1>3. \A n \in S : m <= n
  BY <1>2
<1> QED BY <1>3

\* A scan from k ends between k and n; if before n, at a byte of S.
LEMMA FindRange ==
  ASSUME NEW S, NEW k \in Nat, NEW n \in Nat, k <= n
  PROVE  /\ Find(S, k, n) \in k..n
         /\ Find(S, k, n) < n => Char(Find(S, k, n)) \in S
<1> DEFINE hits == {j \in k..(n - 1) : Char(j) \in S}
<1>1. CASE hits = {}
  BY <1>1 DEF Find
<1>2. CASE hits # {}
  <2>1. \E j \in hits : \A h \in hits : j <= h
    <3>1. hits \subseteq Nat
      OBVIOUS
    <3> HIDE DEF hits
    <3> QED BY <1>2, <3>1, LeastNatural
  <2>2. Find(S, k, n) \in hits
    <3> HIDE DEF hits
    <3>1. (CHOOSE j \in hits : \A h \in hits : j <= h) \in hits
      BY <2>1
    <3>2. Find(S, k, n) = CHOOSE j \in hits : \A h \in hits : j <= h
      BY <1>2 DEF Find, hits
    <3> QED BY <3>1, <3>2
  <2> QED BY <2>2
<1> QED BY <1>1, <1>2

-----------------------------------------------------------------------------
(* Writing fields. *)

IsU(v) == /\ v = [set |-> v.set, off |-> v.off, len |-> v.len, port |-> v.port]
          /\ v.set \subseteq Fields
          /\ v.off \in [Fields -> Nat]
          /\ v.len \in [Fields -> Nat]

Below(v, n) == \A f \in Fields : End(v, f) <= n
Apart(v)    == \A f, g \in Fields : f # g => End(v, f) <= v.off[g] \/ End(v, g) <= v.off[f]

\* All that the fields of v must be, at position n.
Good(v, n) == IsU(v) /\ Below(v, n) /\ Apart(v)

LEMMA GoodLater ==
  ASSUME NEW v, NEW m \in Nat, NEW n \in Nat, m <= n, Good(v, m)
  PROVE  Good(v, n)
BY DEF Good, IsU, Below, End

LEMMA GoodMarked ==
  ASSUME NEW v, NEW n \in Nat, Good(v, n), NEW f \in Fields
  PROVE  Good(Marked(v, f), n)
<1> DEFINE w == Marked(v, f)
<1>1. w = [set |-> v.set \cup {f}, off |-> v.off, len |-> v.len, port |-> v.port]
  <2>1. v = [set |-> v.set, off |-> v.off, len |-> v.len, port |-> v.port]
    BY DEF Good, IsU
  <2> QED BY <2>1 DEF Marked
<1>2. w.set = v.set \cup {f} /\ w.off = v.off /\ w.len = v.len /\ w.port = v.port
  BY <1>1
<1> HIDE DEF w
<1>3. IsU(w)
  BY <1>1, <1>2 DEF Good, IsU
<1>4. \A g \in Fields : End(w, g) = End(v, g)
  BY <1>2 DEF End
<1>5. Below(w, n) /\ Apart(w)
  BY <1>2, <1>4 DEF Good, Below, Apart
<1> QED BY <1>3, <1>5 DEF Good, w

\* What a field write does to the other registers of v.
LEMMA WrittenIs ==
  ASSUME NEW v, IsU(v), NEW f \in Fields, NEW k \in Nat, NEW n \in Nat,
         k < Width, n < Width
  PROVE  LET w == Written(v, f, k, n) IN
         /\ IsU(w) /\ w.set = v.set
         /\ w.off = [v.off EXCEPT ![f] = k] /\ w.len = [v.len EXCEPT ![f] = n]
<1> DEFINE w == Written(v, f, k, n)
<1>1. k % Width = k /\ n % Width = n
  BY UrlAssumptions
<1>2. w = [set |-> v.set, off |-> [v.off EXCEPT ![f] = k],
           len |-> [v.len EXCEPT ![f] = n], port |-> v.port]
  <2>1. v = [set |-> v.set, off |-> v.off, len |-> v.len, port |-> v.port]
    BY DEF IsU
  <2>2. w = [v EXCEPT !.off[f] = k, !.len[f] = n]
    BY <1>1 DEF Written
  <2> QED BY <2>1, <2>2
<1>3. /\ w.set = v.set /\ w.port = v.port
      /\ w.off = [v.off EXCEPT ![f] = k] /\ w.len = [v.len EXCEPT ![f] = n]
  BY <1>2
<1> HIDE DEF w
<1>4. w.off \in [Fields -> Nat] /\ w.len \in [Fields -> Nat] /\ w.set \subseteq Fields
  BY <1>3 DEF IsU
<1>5. IsU(w)
  BY <1>2, <1>3, <1>4 DEF IsU
<1> QED BY <1>3, <1>5 DEF w

\* A field written beside all the others leaves them apart.
LEMMA GoodWritten ==
  ASSUME NEW v, NEW m \in Nat, Good(v, m), NEW f \in Fields,
         NEW k \in Nat, NEW n \in Nat, k < Width, n < Width, k + n <= m,
         \A g \in Fields \ {f} : End(v, g) <= k \/ k + n <= v.off[g]
  PROVE  Good(Written(v, f, k, n), m)
<1> DEFINE w == Written(v, f, k, n)
<1>1. /\ IsU(w) /\ w.off = [v.off EXCEPT ![f] = k] /\ w.len = [v.len EXCEPT ![f] = n]
  BY WrittenIs DEF Good
<1> HIDE DEF w
<1>2. v.off \in [Fields -> Nat] /\ v.len \in [Fields -> Nat]
  BY DEF Good, IsU
<1>3. w.off[f] = k /\ End(w, f) = k + n
  BY <1>1, <1>2 DEF End
<1>4. \A g \in Fields \ {f} : w.off[g] = v.off[g] /\ End(w, g) = End(v, g) /\ End(v, g) <= m
  BY <1>1, <1>2 DEF End, Good, Below
<1>5. Below(w, m)
  BY <1>2, <1>3, <1>4 DEF Below, End
<1>6. ASSUME NEW g \in Fields, NEW h \in Fields, g # h
      PROVE  End(w, g) <= w.off[h] \/ End(w, h) <= w.off[g]
  <2>1. CASE g = f
    BY <2>1, <1>2, <1>3, <1>4, <1>6 DEF End
  <2>2. CASE h = f
    BY <2>2, <1>2, <1>3, <1>4, <1>6 DEF End
  <2>3. CASE g # f /\ h # f
    BY <2>3, <1>4, <1>6 DEF Good, Apart
  <2> QED BY <2>1, <2>2, <2>3
<1> QED BY <1>1, <1>5, <1>6 DEF Good, Apart, w

\* So does one written behind them.
LEMMA GoodAppended ==
  ASSUME NEW v, NEW m \in Nat, Good(v, m), NEW f \in Fields,
         NEW k \in Nat, NEW n \in Nat, m <= k, k + n < Width
  PROVE  Good(Written(v, f, k, n), k + n)
<1>1. Good(v, k + n)
  BY GoodLater
<1>2. \A g \in Fields \ {f} : End(v, g) <= k
  BY DEF Good, Below, IsU, End
<1>3. k < Width /\ n < Width
  BY UrlAssumptions
<1> QED BY <1>1, <1>2, <1>3, GoodWritten

LEMMA MarkedIs ==
  ASSUME NEW v, IsU(v), NEW f \in Fields
  PROVE  Marked(v, f).off = v.off /\ Marked(v, f).len = v.len
<1>1. v = [set |-> v.set, off |-> v.off, len |-> v.len, port |-> v.port]
  BY DEF IsU
<1>2. Marked(v, f) = [set |-> v.set \cup {f}, off |-> v.off, len |-> v.len, port |-> v.port]
  BY <1>1 DEF Marked
<1> QED BY <1>2

LEMMA GoodPort ==
  ASSUME NEW v, NEW m \in Nat, Good(v, m),
         NEW k \in Nat, NEW n \in Nat, m <= k, k + n < Width
  PROVE  LET w == WithPort(v, k, n) IN
         /\ Good(w, k + n)
         /\ w.off = [v.off EXCEPT !["PORT"] = k] /\ w.len = [v.len EXCEPT !["PORT"] = n]
<1> DEFINE w == [v EXCEPT !.port = Number(k, n)]
<1>1. w = [set |-> v.set, off |-> v.off, len |-> v.len, port |-> Number(k, n)]
  BY DEF Good, IsU
<1>2. w.set = v.set /\ w.off = v.off /\ w.len = v.len /\ w.port = Number(k, n)
  BY <1>1
<1>0. WithPort(v, k, n) = Marked(Written(w, "PORT", k, n), "PORT")
  BY DEF WithPort
<1> HIDE DEF w
<1>3. IsU(w)
  BY <1>1, <1>2 DEF Good, IsU
<1>4. \A g \in Fields : End(w, g) = End(v, g)
  BY <1>2 DEF End
<1>5. Good(w, m)
  BY <1>2, <1>3, <1>4 DEF Good, Below, Apart
<1>6. "PORT" \in Fields /\ k < Width /\ n < Width
  BY UrlAssumptions DEF Fields
<1> DEFINE x == Written(w, "PORT", k, n)
<1>7. Good(x, k + n)
  BY <1>5, <1>6, GoodAppended
<1>8. /\ IsU(x)
      /\ x.off = [v.off EXCEPT !["PORT"] = k] /\ x.len = [v.len EXCEPT !["PORT"] = n]
  BY <1>2, <1>3, <1>6, WrittenIs
<1> HIDE DEF x
<1>9. Good(Marked(x, "PORT"), k + n)
  BY <1>6, <1>7, GoodMarked
<1>10. Marked(x, "PORT").off = x.off /\ Marked(x, "PORT").len = x.len
  BY <1>6, <1>8, MarkedIs
<1> QED BY <1>0, <1>8, <1>9, <1>10 DEF x

-----------------------------------------------------------------------------
(* finalize_host_with_port keeps what it writes between k and e. *)

LEMMA GoodHost ==
  ASSUME NEW v, NEW k \in Nat, Good(v, k), NEW e \in Nat, k <= e, e < Width,
         NEW p \in Nat, NEW colon \in BOOLEAN, HostValid(k, e, p, colon)
  PROVE  Good(WithHost(v, k, e, p, colon), e)
<1> DEFINE n   == HostEnd(k, e, p, colon)
           b   == Bracket(k, n)
           off == IF Bracketed(k, n) THEN k + 1 ELSE k
           len == IF Bracketed(k, n) THEN b - k - 1 ELSE n - k
           v1  == IF Bracketed(k, n) /\ PortInside(k, n) THEN WithPort(v, b + 2, n - b - 2) ELSE v
           v2  == Marked(Written(v1, "HOST", off, len), "HOST")
<1>0. WithHost(v, k, e, p, colon) = IF HasPort(k, e, p, colon) THEN WithPort(v2, p, e - p) ELSE v2
  BY DEF WithHost
<1>1. n \in k..e /\ n \in Nat
  BY DEF HostEnd, HasPort
<1>2. HasPort(k, e, p, colon) => n <= p /\ p < e
  BY DEF HostEnd, HasPort
<1>3. Bracketed(k, n) => b \in (k + 1)..(n - 1)
  <2> SUFFICES ASSUME Bracketed(k, n) PROVE b \in (k + 1)..(n - 1)
    OBVIOUS
  <2>1. k + 1 <= n
    BY <1>1 DEF Bracketed
  <2>2. b \in (k + 1)..n
    <3> HIDE DEF n
    <3> QED BY <1>1, <2>1, FindRange DEF Bracket
  <2>3. b < n
    BY DEF HostValid
  <2> QED BY <1>1, <2>2, <2>3
<1>4. PortInside(k, n) => b + 1 < n
  BY DEF PortInside
<1> HIDE DEF n, b
<1>5. off \in Nat /\ len \in Nat /\ k <= off /\ off + len <= n /\ off < Width /\ len < Width
  BY <1>1, <1>3, UrlAssumptions
<1>6. Good(v1, n) /\ \A g \in Fields \ {"HOST"} : End(v1, g) <= off \/ off + len <= v1.off[g]
  <2>1. CASE Bracketed(k, n) /\ PortInside(k, n)
    <3>1. b + 2 \in Nat /\ n - b - 2 \in Nat /\ k <= b + 2 /\ b + 2 + (n - b - 2) = n /\ n < Width
      BY <1>1, <1>3, <1>4, <2>1, UrlAssumptions
    <3>2. Good(v1, n) /\ v1.off = [v.off EXCEPT !["PORT"] = b + 2]
                      /\ v1.len = [v.len EXCEPT !["PORT"] = n - b - 2]
      BY <2>1, <3>1, GoodPort
    <3>3. off + len <= b + 2
      BY <1>1, <1>3, <2>1
    <3>4. v.off \in [Fields -> Nat] /\ v.len \in [Fields -> Nat] /\ \A g \in Fields : End(v, g) <= k
      BY DEF Good, IsU, Below
    <3> HIDE DEF v1, off, len
    <3>5. ASSUME NEW g \in Fields \ {"HOST"} PROVE End(v1, g) <= off \/ off + len <= v1.off[g]
      <4>1. CASE g = "PORT"
        BY <1>5, <3>2, <3>3, <3>4, <4>1
      <4>2. CASE g # "PORT"
        <5>1. v1.off[g] = v.off[g] /\ v1.len[g] = v.len[g] /\ v.off[g] \in Nat /\ v.len[g] \in Nat
          BY <3>2, <3>4, <4>2
        <5>2. v.off[g] + v.len[g] <= k
          BY <3>4 DEF End
        <5> QED BY <1>5, <5>1, <5>2 DEF End
      <4> QED BY <4>1, <4>2
    <3> QED BY <3>2, <3>5
  <2>2. CASE ~(Bracketed(k, n) /\ PortInside(k, n))
    <3>1. v1 = v
      BY <2>2
    <3>2. \A g \in Fields : End(v, g) <= k /\ End(v, g) \in Nat
      BY DEF Good, IsU, Below, End
    <3>3. Good(v, n)
      BY <1>1, GoodLater
    <3> HIDE DEF v1, off, len
    <3> QED BY <1>5, <3>1, <3>2, <3>3
  <2> QED BY <2>1, <2>2
<1>7. Good(v2, n)
  <2>1. "HOST" \in Fields
    BY DEF Fields
  <2> HIDE DEF v1, off, len
  <2>2. Good(Written(v1, "HOST", off, len), n)
    BY <1>1, <1>5, <1>6, <2>1, GoodWritten
  <2> QED BY <1>1, <2>1, <2>2, GoodMarked
<1> HIDE DEF v2
<1>8. CASE HasPort(k, e, p, colon)
  <2>1. e - p \in Nat /\ p + (e - p) = e /\ n <= p
    BY <1>2, <1>8
  <2>2. p + (e - p) < Width
    BY <2>1
  <2>3. Good(WithPort(v2, p, e - p), p + (e - p))
    BY <1>1, <1>7, <2>1, <2>2, GoodPort
  <2> QED BY <1>0, <1>8, <2>1, <2>3
<1>9. CASE ~HasPort(k, e, p, colon)
  BY <1>0, <1>1, <1>7, <1>9, GoodLater
<1> QED BY <1>8, <1>9

-----------------------------------------------------------------------------
(* The inductive invariant.  Control: where i is and which field is open in *)
(* each state.  Data: the fields written so far lie below the open one.     *)

Behind == {"schema_slash", "schema_slash_slash"}    \* a schema has just been written
InField == {"schema", "path", "query", "fragment", "server", "server_with_at"}

OpenFieldOf ==
  /\ state \in InField \cup Behind \cup {"server_start", "query_or_fragment"}
  /\ state = "schema" => field = "SCHEMA"
  /\ state \in Behind => field \in {"SCHEMA", "MAX"} /\ i > 0
  /\ state = "server_start" => field \in {"SCHEMA", "MAX"} \/ (field = "HOST" /\ i < buflen)
  /\ state \in {"server", "server_with_at"} => field = "HOST"
  /\ state \in {"path", "query_or_fragment"} => field = "PATH"
  /\ state = "query_or_fragment" => i < buflen
  /\ state = "query" => field = "QUERY"
  /\ state = "fragment" => field = "FRAGMENT"

Control ==
  /\ buf \in Seq(0..255)
  /\ i \in Nat /\ field_start \in Nat /\ port_start \in Nat /\ found_colon \in BOOLEAN
  /\ pc \in {"called", "loop", "body", "done"}
  /\ rc # "none" => pc = "done"
  /\ field_start <= i /\ i <= buflen + 1
  /\ state \notin Behind => i <= buflen
  /\ pc = "called" => /\ state = "none" /\ i = 0 /\ field_start = 0
                      /\ field = "MAX" /\ u = url_init
  /\ pc = "body" => state = "schema_slash" /\ i <= buflen
  /\ pc \in {"loop", "body"} => OpenFieldOf

\* All fields but the open one end here or before.
Edge == IF state \in InField THEN field_start ELSE IF state \in Behind THEN i - 1 ELSE i

Data == /\ pc # "done" => Good(u, Edge)
        /\ rc = "ok" => Good(u, buflen)

Inv == Control /\ (buflen < Width => Data)

LEMMA InitGood == Good(url_init, 0)
BY DEF Good, IsU, Below, Apart, End, url_init

LEMMA InitInv == Init => Inv
<1> SUFFICES ASSUME Init PROVE Inv
  OBVIOUS
<1>1. buf \in Seq(0..255) /\ buflen \in Nat
  BY UrlAssumptions DEF Init, buflen
<1>2. Control
  <2>1. found_colon \in BOOLEAN
    BY DEF Init
  <2> QED BY <1>1, <2>1 DEF Init, Control, Behind
<1>3. Data
  BY InitGood DEF Init, Data, Edge, InField, Behind
<1> QED BY <1>2, <1>3 DEF Inv

\* A refusal keeps the invariant: nothing is said of the fields then.
LEMMA RefuseKeepsControl == ASSUME Control, Refuse PROVE Control'
BY DEF Control, Refuse, input, host, Behind, buflen

\* A quick schema and its colon fit into a URL long enough to be compared.
LEMMA QuickFits == \A s \in Quick : s[2] \in Nat /\ Len(s[1]) + 1 <= s[2]
<1> SUFFICES ASSUME NEW s \in Quick PROVE s[2] \in Nat /\ Len(s[1]) + 1 <= s[2]
  OBVIOUS
<1>1. CASE s = << <<104, 116, 116, 112>>, 7>>
  <2>1. s[1] = <<104, 116, 116, 112>> /\ s[2] = 7
    BY <1>1
  <2>2. Len(s[1]) = 4
    BY <2>1
  <2> QED BY <2>1, <2>2
<1>2. CASE s = << <<104, 116, 116, 112, 115>>, 8>>
  <2>1. s[1] = <<104, 116, 116, 112, 115>> /\ s[2] = 8
    BY <1>2
  <2>2. Len(s[1]) = 5
    BY <2>1
  <2> QED BY <2>1, <2>2
<1>3. CASE s = << <<102, 116, 112>>, 4>>
  <2>1. s[1] = <<102, 116, 112>> /\ s[2] = 4
    BY <1>3
  <2>2. Len(s[1]) = 3
    BY <2>1
  <2> QED BY <2>1, <2>2
<1>4. CASE s = << <<119, 115, 115>>, 4>>
  <2>1. s[1] = <<119, 115, 115>> /\ s[2] = 4
    BY <1>4
  <2>2. Len(s[1]) = 3
    BY <2>1
  <2> QED BY <2>1, <2>2
<1>5. CASE s = << <<119, 115>>, 3>>
  <2>1. s[1] = <<119, 115>> /\ s[2] = 3
    BY <1>5
  <2>2. Len(s[1]) = 2
    BY <2>1
  <2> QED BY <2>1, <2>2
<1> QED BY <1>1, <1>2, <1>3, <1>4, <1>5 DEF Quick

LEMMA StartControl == ASSUME Control, Start PROVE Control'
<1>0. /\ pc = "called" /\ i = 0 /\ field_start = 0 /\ rc = "none" /\ buf \in Seq(0..255)
      /\ field = "MAX" /\ port_start \in Nat /\ found_colon \in BOOLEAN /\ buflen \in Nat
  BY DEF Start, Control, buflen
<1>1. CASE StartEmpty
  BY <1>1, RefuseKeepsControl DEF StartEmpty
<1>2. CASE StartConnect
  BY <1>0, <1>2 DEF StartConnect, OpenField, Control, OpenFieldOf, InField, Behind, input, host, buflen
<1>3. CASE StartRelative
  <2>1. CASE buflen = 2
    BY <1>3, <2>1, RefuseKeepsControl DEF StartRelative
  <2>2. CASE buflen # 2
    <3>1. buflen > 2
      BY <1>0, <1>3, <2>2 DEF StartRelative, ProtocolRelative
    <3> QED BY <1>0, <1>3, <2>2, <3>1
            DEF StartRelative, OpenField, Control, OpenFieldOf, InField, Behind, input, host, buflen
  <2> QED BY <2>1, <2>2
<1>4. CASE StartPath
  BY <1>0, <1>4 DEF StartPath, OpenField, Control, OpenFieldOf, InField, Behind, input, host, buflen
<1>5. CASE StartQuickSchema
  <2>1. PICK n \in 2..5 : IsQuick(n) /\ i' = n + 1
    BY <1>5 DEF StartQuickSchema
  <2>2. PICK s \in Quick : Len(s[1]) = n /\ buflen >= s[2]
    BY <2>1 DEF IsQuick
  <2>3. n + 1 <= buflen
    BY <1>0, <2>2, QuickFits
  <2> QED BY <1>0, <1>5, <2>1, <2>3
          DEF StartQuickSchema, Control, OpenFieldOf, InField, Behind, input, host, buflen
<1>6. CASE StartSchema
  BY <1>0, <1>6 DEF StartSchema, OpenField, Control, OpenFieldOf, InField, Behind, input, host, buflen
<1>7. CASE StartOther
  BY <1>7, RefuseKeepsControl DEF StartOther
<1> QED BY <1>1, <1>2, <1>3, <1>4, <1>5, <1>6, <1>7 DEF Start

\* What a turn that is not a slash's starts from.
LEMMA TurnPlace ==
  ASSUME Control, Turn
  PROVE  /\ buf \in Seq(0..255) /\ buflen \in Nat /\ i \in Nat /\ field_start \in Nat
         /\ port_start \in Nat /\ found_colon \in BOOLEAN
         /\ field_start <= i /\ OpenFieldOf /\ rc = "none" /\ pc # "done"
         /\ state \notin Behind => i < buflen
         /\ i <= buflen
BY DEF Control, Turn, Behind, buflen

LEMMA TailTurnControl ==
  ASSUME Control, Turn, PathTurn \/ QueryOrFragmentTurn \/ QueryTurn \/ FragmentTurn \/ SchemaTurn
  PROVE  Control'
<1> USE TurnPlace
<1>1. CASE PathTurn
  <2> DEFINE end == Find({Question, Hash}, i, buflen)
  <2>1. end \in i..buflen
    BY <1>1, FindRange DEF PathTurn, Behind
  <2> HIDE DEF end
  <2>2. Refuse \/ (end = buflen /\ Continue("path", buflen) /\ UNCHANGED <<host, u>>)
               \/ (end # buflen /\ Continue("query_or_fragment", end) /\ UNCHANGED host)
    BY <1>1 DEF PathTurn, end
  <2>3. state = "path"
    BY <1>1 DEF PathTurn
  <2> QED BY <2>1, <2>2, <2>3, RefuseKeepsControl
          DEF Continue, Control, OpenFieldOf, InField, Behind, input, host, buflen
<1>2. CASE QueryOrFragmentTurn
  BY <1>2 DEF QueryOrFragmentTurn, OpenField, Control, OpenFieldOf, InField, Behind, input, host, buflen
<1>3. CASE QueryTurn
  <2> DEFINE end == Find({Hash}, i, buflen)
  <2>1. end \in i..buflen
    BY <1>3, FindRange DEF QueryTurn, Behind
  <2> HIDE DEF end
  <2>2. Refuse \/ (end = buflen /\ Continue("query", buflen) /\ UNCHANGED <<host, u>>)
               \/ (end # buflen /\ OpenField("FRAGMENT", end + 1, "fragment", end + 1) /\ UNCHANGED host)
    BY <1>3 DEF QueryTurn, end
  <2>3. state = "query"
    BY <1>3 DEF QueryTurn
  <2> QED BY <2>1, <2>2, <2>3, RefuseKeepsControl
          DEF Continue, OpenField, Control, OpenFieldOf, InField, Behind, input, host, buflen
<1>4. CASE FragmentTurn
  BY <1>4, RefuseKeepsControl
     DEF FragmentTurn, Continue, Control, OpenFieldOf, InField, Behind, input, host, buflen
<1>5. CASE SchemaTurn
  BY <1>5, RefuseKeepsControl
     DEF SchemaTurn, Continue, Control, OpenFieldOf, InField, Behind, input, host, buflen
<1> QED BY <1>1, <1>2, <1>3, <1>4, <1>5

LEMMA SlashTurnControl == ASSUME Control, Turn, SlashTurn PROVE Control'
<1> USE TurnPlace
<1>1. \/ Refuse
      \/ Continue(IF state = "schema_slash" THEN "schema_slash_slash" ELSE "server_start", i + 1)
         /\ UNCHANGED <<host, u>>
  BY DEF SlashTurn
<1>2. state = "schema_slash_slash" => i < buflen
  BY DEF Turn, Control
<1> QED BY <1>1, <1>2, RefuseKeepsControl
        DEF SlashTurn, Continue, Control, OpenFieldOf, InField, Behind, input, host, buflen

\* A turn of the server that stays in it.
LEMMA InServerControl ==
  ASSUME Control, Turn, ServerTurn, NEW k \in Nat, i <= k, k <= buflen,
         InServer(Server, k), found_colon' \in BOOLEAN, port_start' \in Nat
  PROVE  Control'
BY TurnPlace DEF InServer, OpenField, Server, ServerTurn, First, HostAt,
                 Control, OpenFieldOf, InField, Behind, input, host, buflen

LEMMA ServerTurnControl ==
  ASSUME Control, Turn, \/ ServerChars \/ ServerColon \/ ServerBracket \/ ServerAt
                        \/ ServerSlash \/ ServerQuestion \/ ServerHash
  PROVE  Control'
<1> USE TurnPlace
<1>0. ServerTurn /\ i < buflen /\ ColonFound \in BOOLEAN /\ PortAt \in Nat
      /\ HostAt \in Nat /\ HostAt <= i
  BY DEF ServerChars, ServerColon, ServerBracket, ServerAt, ServerSlash, ServerQuestion, ServerHash,
         ServerTurn, Behind, ColonFound, PortAt, HostAt, First
<1>1. CASE ServerChars
  <2> DEFINE end == Find(ServerDelimiter, i, buflen)
  <2>1. end \in i..buflen
    BY <1>0, FindRange
  <2> HIDE DEF end
  <2>2. Refuse \/ (InServer(Server, end) /\ found_colon' = ColonFound /\ port_start' = PortAt)
    BY <1>1 DEF ServerChars, end
  <2> QED BY <1>0, <2>1, <2>2, InServerControl, RefuseKeepsControl
<1>2. CASE ServerColon
  <2>1. InServer(Server, i + 1) /\ found_colon' \in BOOLEAN /\ port_start' \in Nat
    BY <1>0, <1>2 DEF ServerColon
  <2> QED BY <1>0, <2>1, InServerControl
<1>3. CASE ServerBracket
  <2> DEFINE end == Find({Close}, i + 1, buflen)
  <2>1. end \in (i + 1)..buflen
    BY <1>0, FindRange
  <2> HIDE DEF end
  <2>2. Refuse \/ (end < buflen /\ InServer(Server, end + 1)
                   /\ found_colon' = ColonFound /\ port_start' = PortAt)
    BY <1>3 DEF ServerBracket, end
  <2> QED BY <1>0, <2>1, <2>2, InServerControl, RefuseKeepsControl
<1>4. CASE ServerAt
  <2>1. Refuse \/ (OpenField("HOST", i + 1, "server_with_at", i + 1)
                   /\ found_colon' \in BOOLEAN /\ port_start' = 0)
    BY <1>4 DEF ServerAt
  <2> QED BY <1>0, <2>1, RefuseKeepsControl
          DEF OpenField, Control, OpenFieldOf, InField, Behind, input, host, buflen
<1>5. CASE ServerSlash
  <2>1. Refuse \/ (OpenField("PATH", i, "path", i + 1) /\ UNCHANGED host)
    BY <1>5 DEF ServerSlash, ServerEnd
  <2> QED BY <1>0, <2>1, RefuseKeepsControl
          DEF OpenField, Control, OpenFieldOf, InField, Behind, input, host, buflen
<1>6. CASE ServerQuestion
  <2>1. Refuse \/ (OpenField("QUERY", i + 1, "query", i + 1) /\ UNCHANGED host)
    BY <1>6 DEF ServerQuestion, ServerEnd
  <2> QED BY <1>0, <2>1, RefuseKeepsControl
          DEF OpenField, Control, OpenFieldOf, InField, Behind, input, host, buflen
<1>7. CASE ServerHash
  BY <1>7, RefuseKeepsControl DEF ServerHash
<1> QED BY <1>1, <1>2, <1>3, <1>4, <1>5, <1>6, <1>7

LEMMA FinishControl == ASSUME Control, Finish PROVE Control'
<1>1. Refuse \/ (pc' = "done" /\ UNCHANGED <<input, state, i, field, field_start, host>>)
  BY DEF Finish
<1> QED BY <1>1, RefuseKeepsControl DEF Control, Behind, input, host, buflen

\* The positions of the parser stay in order, whatever it reads.
LEMMA ControlStep == Control /\ [Next]_vars => Control'
<1> SUFFICES ASSUME Control, [Next]_vars PROVE Control'
  OBVIOUS
<1>1. CASE Start
  BY <1>1, StartControl
<1>2. CASE Step
  BY <1>2, TailTurnControl, SlashTurnControl, ServerTurnControl DEF Step
<1>3. CASE Finish
  BY <1>3, FinishControl
<1>4. CASE UNCHANGED vars
  BY <1>4 DEF vars, input, host, Control, OpenFieldOf, Behind, InField, buflen
<1> QED BY <1>1, <1>2, <1>3, <1>4 DEF Next

-----------------------------------------------------------------------------
(* The fields written so far. *)

LEMMA RefuseKeepsData == ASSUME Refuse PROVE Data'
BY DEF Refuse, Data

LEMMA StartData == ASSUME Control, Start, buflen < Width PROVE Data'
<1>0. /\ pc = "called" /\ i = 0 /\ field_start = 0 /\ rc = "none" /\ u = url_init
      /\ buflen \in Nat
  BY DEF Start, Control, buflen
<1>1. \A f \in Fields : Good(Marked(u, f), 0)
  BY <1>0, InitGood, GoodMarked
<1>2. \A n \in Nat : \A f \in Fields : Good(Marked(u, f), n)
  BY <1>1, GoodLater
<1>3. {"HOST", "PATH", "SCHEMA"} \subseteq Fields
  BY DEF Fields
<1>4. CASE StartEmpty
  BY <1>4, RefuseKeepsData DEF StartEmpty
<1>5. CASE StartConnect
  BY <1>0, <1>2, <1>3, <1>5 DEF StartConnect, OpenField, Data, Edge, InField, Behind
<1>6. CASE StartRelative
  BY <1>0, <1>2, <1>3, <1>6, RefuseKeepsData DEF StartRelative, OpenField, Data, Edge, InField, Behind
<1>7. CASE StartPath
  BY <1>0, <1>2, <1>3, <1>7 DEF StartPath, OpenField, Data, Edge, InField, Behind
<1>8. CASE StartQuickSchema
  <2>1. PICK n \in 2..5 : /\ IsQuick(n)
                          /\ u' = Marked(Written(u, "SCHEMA", 0, n), "SCHEMA")
                          /\ i' = n + 1
    BY <1>8 DEF StartQuickSchema
  <2>2. PICK s \in Quick : Len(s[1]) = n /\ buflen >= s[2]
    BY <2>1 DEF IsQuick
  <2>3. n < Width
    BY <1>0, <2>2, QuickFits, UrlAssumptions
  <2>4. Good(Written(u, "SCHEMA", 0, n), 0 + n)
    BY <1>0, <1>3, <2>3, InitGood, GoodAppended
  <2>5. Good(u', n)
    BY <1>3, <2>1, <2>4, GoodMarked
  <2>6. Edge' = n /\ rc' = "none"
    BY <1>0, <1>8, <2>1 DEF StartQuickSchema, Edge, InField, Behind
  <2> QED BY <2>5, <2>6 DEF Data
<1>9. CASE StartSchema
  BY <1>0, <1>2, <1>3, <1>9 DEF StartSchema, OpenField, Data, Edge, InField, Behind
<1>10. CASE StartOther
  BY <1>10, RefuseKeepsData DEF StartOther
<1> QED BY <1>4, <1>5, <1>6, <1>7, <1>8, <1>9, <1>10 DEF Start

\* What the fields are when a turn begins, inside a field and outside.
LEMMA TurnFields ==
  ASSUME Control, Turn, Data
  PROVE  /\ Good(u, Edge)
         /\ state \in InField => Good(u, field_start)
         /\ state \notin Behind => Good(u, i)
         /\ state \in Behind => Good(u, i - 1) /\ i - 1 \in Nat
<1>1. Good(u, Edge)
  BY TurnPlace DEF Data
<1>2. state \in InField => Good(u, field_start)
  BY <1>1 DEF Edge
<1>3. state \in Behind => Good(u, i - 1) /\ i - 1 \in Nat
  BY <1>1, TurnPlace DEF Edge, Behind, InField, OpenFieldOf
<1>4. state \notin Behind => Good(u, i)
  <2>1. CASE state \in InField
    BY <1>2, <2>1, TurnPlace, GoodLater
  <2>2. CASE state \notin InField
    BY <1>1, <2>2 DEF Edge
  <2> QED BY <2>1, <2>2
<1> QED BY <1>1, <1>2, <1>3, <1>4

\* The open field, closed at n, is behind all the others.
LEMMA CloseField ==
  ASSUME buflen < Width, buflen \in Nat, field_start \in Nat, Good(u, field_start),
         NEW f \in Fields, NEW n \in Nat, field_start <= n, n <= buflen
  PROVE  Good(Written(u, f, field_start, n - field_start), n)
<1>1. n - field_start \in Nat /\ field_start + (n - field_start) = n /\ n < Width
  BY UrlAssumptions
<1>2. Good(Written(u, f, field_start, n - field_start), field_start + (n - field_start))
  BY <1>1, GoodAppended
<1> QED BY <1>1, <1>2

LEMMA TailTurnData ==
  ASSUME Control, Turn, Data, buflen < Width,
         PathTurn \/ QueryOrFragmentTurn \/ QueryTurn \/ FragmentTurn \/ SchemaTurn
  PROVE  Data'
<1> USE TurnPlace, TurnFields
<1>0. Fields = {"SCHEMA", "HOST", "PORT", "PATH", "QUERY", "FRAGMENT", "USERINFO"}
  BY DEF Fields
<1>1. CASE PathTurn
  <2> DEFINE end == Find({Question, Hash}, i, buflen)
  <2>1. end \in i..buflen
    BY <1>1, FindRange DEF PathTurn, Behind
  <2> HIDE DEF end
  <2>2. state = "path" /\ field = "PATH"
    BY <1>1 DEF PathTurn, OpenFieldOf
  <2>3. CASE Refuse
    BY <2>3, RefuseKeepsData
  <2>4. CASE Continue("path", buflen) /\ u' = u
    BY <2>2, <2>4 DEF Continue, Data, Edge, InField, Behind
  <2>5. CASE /\ u' = Written(u, field, field_start, end - field_start)
             /\ Continue("query_or_fragment", end)
    <3>1. Good(u', end)
      BY <1>0, <2>1, <2>2, <2>5, CloseField DEF InField
    <3> QED BY <2>5, <3>1 DEF Continue, Data, Edge, InField, Behind
  <2> QED BY <1>1, <2>3, <2>4, <2>5 DEF PathTurn, end
<1>2. CASE QueryOrFragmentTurn
  <2>1. Good(u, i) /\ i \in Nat
    BY <1>2 DEF QueryOrFragmentTurn, Behind
  <2>2. Good(Marked(u, "QUERY"), i + 1) /\ Good(Marked(u, "FRAGMENT"), i + 1)
    BY <1>0, <2>1, GoodMarked, GoodLater
  <2> QED BY <1>2, <2>2 DEF QueryOrFragmentTurn, OpenField, Data, Edge, InField
<1>3. CASE QueryTurn
  <2> DEFINE end == Find({Hash}, i, buflen)
  <2>1. end \in i..buflen
    BY <1>3, FindRange DEF QueryTurn, Behind
  <2> HIDE DEF end
  <2>2. state = "query" /\ field = "QUERY"
    BY <1>3 DEF QueryTurn, OpenFieldOf
  <2>3. CASE Refuse
    BY <2>3, RefuseKeepsData
  <2>4. CASE Continue("query", buflen) /\ u' = u
    BY <2>2, <2>4 DEF Continue, Data, Edge, InField, Behind
  <2>5. CASE /\ u' = Marked(Written(u, field, field_start, end - field_start), "FRAGMENT")
             /\ OpenField("FRAGMENT", end + 1, "fragment", end + 1)
    <3>1. Good(Written(u, field, field_start, end - field_start), end) /\ end \in Nat
      BY <1>0, <2>1, <2>2, CloseField DEF InField
    <3>2. Good(u', end + 1)
      BY <1>0, <2>5, <3>1, GoodMarked, GoodLater
    <3> QED BY <2>5, <3>2 DEF OpenField, Data, Edge, InField
  <2> QED BY <1>3, <2>3, <2>4, <2>5 DEF QueryTurn, end
<1>4. CASE FragmentTurn
  BY <1>4, RefuseKeepsData DEF FragmentTurn, Continue, Data, Edge, InField, Behind
<1>5. CASE SchemaTurn
  <2>1. state = "schema" /\ field = "SCHEMA"
    BY <1>5 DEF SchemaTurn, OpenFieldOf
  <2>2. CASE Refuse
    BY <2>2, RefuseKeepsData
  <2>3. CASE Continue("schema", i + 1) /\ u' = u
    BY <2>1, <2>3 DEF Continue, Data, Edge, InField, Behind
  <2>4. CASE /\ u' = Written(u, field, field_start, i - field_start)
             /\ Continue("schema_slash", i + 1)
    <3>1. Good(u', i)
      BY <1>0, <2>1, <2>4, CloseField DEF InField
    <3> QED BY <2>4, <3>1 DEF Continue, Data, Edge, InField, Behind
  <2> QED BY <1>5, <2>2, <2>3, <2>4 DEF SchemaTurn
<1> QED BY <1>1, <1>2, <1>3, <1>4, <1>5

LEMMA SlashTurnData == ASSUME Control, Turn, Data, SlashTurn PROVE Data'
<1>1. \/ Refuse
      \/ /\ Continue(IF state = "schema_slash" THEN "schema_slash_slash" ELSE "server_start", i + 1)
         /\ u' = u
  BY DEF SlashTurn
<1>2. Good(u, i - 1) /\ i - 1 \in Nat /\ i \in Nat /\ rc = "none"
  BY TurnPlace, TurnFields DEF SlashTurn, Behind
<1>3. Good(u, i) /\ Good(u, i + 1)
  BY <1>2, GoodLater
<1> QED BY <1>1, <1>2, <1>3, RefuseKeepsData DEF Continue, Data, Edge, InField, Behind

LEMMA ServerTurnData ==
  ASSUME Control, Turn, Data, buflen < Width,
         \/ ServerChars \/ ServerColon \/ ServerBracket \/ ServerAt
         \/ ServerSlash \/ ServerQuestion \/ ServerHash
  PROVE  Data'
<1> USE TurnPlace
<1>0. ServerTurn /\ i < buflen /\ "HOST" \in Fields /\ "USERINFO" \in Fields
      /\ "PATH" \in Fields /\ "QUERY" \in Fields
  BY DEF ServerChars, ServerColon, ServerBracket, ServerAt, ServerSlash, ServerQuestion, ServerHash,
         ServerTurn, Behind, Fields
<1>1. Good(u, HostAt) /\ HostAt \in Nat /\ HostAt <= i
  <2>1. First => Good(u, i)
    BY TurnFields DEF First, Behind
  <2>2. ~First => Good(u, field_start)
    BY <1>0, TurnFields DEF First, ServerTurn, InField
  <2> QED BY <2>1, <2>2 DEF HostAt
<1>2. ASSUME NEW k \in Nat, InServer(Server, k) PROVE Data'
  <2>1. Good(u', HostAt)
    BY <1>0, <1>1, <1>2, GoodMarked DEF InServer
  <2>2. Server \in InField
    BY <1>0 DEF Server, ServerTurn, First, InField
  <2> QED BY <1>2, <2>1, <2>2 DEF InServer, OpenField, Data, Edge
<1>3. CASE ServerChars
  <2> DEFINE end == Find(ServerDelimiter, i, buflen)
  <2>1. end \in i..buflen
    BY <1>0, FindRange
  <2> HIDE DEF end
  <2>2. Refuse \/ InServer(Server, end)
    BY <1>3 DEF ServerChars, end
  <2> QED BY <1>2, <2>1, <2>2, RefuseKeepsData
<1>4. CASE ServerColon
  BY <1>2, <1>4 DEF ServerColon
<1>5. CASE ServerBracket
  <2> DEFINE end == Find({Close}, i + 1, buflen)
  <2>1. end \in (i + 1)..buflen
    BY <1>0, FindRange
  <2> HIDE DEF end
  <2>2. Refuse \/ InServer(Server, end + 1)
    BY <1>5 DEF ServerBracket, end
  <2> QED BY <1>2, <2>1, <2>2, RefuseKeepsData
<1>6. CASE ServerAt
  <2>1. CASE Refuse
    BY <2>1, RefuseKeepsData
  <2>2. CASE ~Refuse
    <3> DEFINE w == Written(u, "USERINFO", HostAt, i - HostAt)
    <3>1. /\ u' = Marked(Marked(w, "USERINFO"), "HOST")
          /\ OpenField("HOST", i + 1, "server_with_at", i + 1)
      BY <1>6, <2>2 DEF ServerAt
    <3>2. i - HostAt \in Nat /\ HostAt + (i - HostAt) = i /\ i < Width
      BY <1>0, <1>1, UrlAssumptions
    <3>3. Good(w, HostAt + (i - HostAt))
      BY <1>0, <1>1, <3>2, GoodAppended
    <3>4. Good(w, i + 1)
      BY <3>2, <3>3, GoodLater
    <3> HIDE DEF w
    <3>5. Good(u', i + 1)
      BY <1>0, <3>1, <3>4, GoodMarked
    <3> QED BY <3>1, <3>5 DEF OpenField, Data, Edge, InField
  <2> QED BY <2>1, <2>2
<1>7. ASSUME NEW f \in Fields, NEW start \in {i, i + 1}, NEW s \in {"path", "query"},
             ServerEnd(f, start, s)
      PROVE  Data'
  <2>1. CASE ~(~First /\ HostValid(field_start, i, port_start, found_colon))
    BY <1>7, <2>1, RefuseKeepsData DEF ServerEnd
  <2>2. CASE ~First /\ HostValid(field_start, i, port_start, found_colon)
    <3> DEFINE w == WithHost(u, field_start, i, port_start, found_colon)
    <3>1. u' = Marked(w, f) /\ OpenField(f, start, s, i + 1)
      BY <1>7, <2>2 DEF ServerEnd
    <3>2. Good(u, field_start) /\ i < Width
      BY <1>0, <1>1, <2>2, UrlAssumptions DEF HostAt
    <3>3. Good(w, i)
      BY <2>2, <3>2, GoodHost
    <3>4. Good(w, start)
      BY <3>3, GoodLater
    <3> HIDE DEF w
    <3>5. Good(u', start)
      BY <3>1, <3>4, GoodMarked
    <3> QED BY <3>1, <3>5 DEF OpenField, Data, Edge, InField
  <2> QED BY <2>1, <2>2
<1>8. CASE ServerSlash
  BY <1>0, <1>7, <1>8 DEF ServerSlash
<1>9. CASE ServerQuestion
  BY <1>0, <1>7, <1>9 DEF ServerQuestion
<1>10. CASE ServerHash
  BY <1>10, RefuseKeepsData DEF ServerHash
<1> QED BY <1>3, <1>4, <1>5, <1>6, <1>8, <1>9, <1>10

LEMMA FinishData == ASSUME Control, Finish, Data, buflen < Width PROVE Data'
<1>1. CASE Refuse
  BY <1>1, RefuseKeepsData
<1>2. CASE ~Refuse
  <2>0. /\ OpenFieldOf /\ Good(u, Edge) /\ buflen \in Nat /\ i \in Nat /\ i >= buflen
        /\ i <= buflen + 1 /\ (state \notin Behind => i = buflen)
        /\ field_start \in Nat /\ field_start <= i
        /\ port_start \in Nat /\ found_colon \in BOOLEAN
    BY DEF Finish, Control, Data, buflen
  <2>1. u' = LastField /\ pc' = "done" /\ LastFieldValid
    BY <1>2 DEF Finish
  <2>2. buf' = buf /\ buflen' = buflen
    BY <1>2 DEF Finish, input, buflen
  <2>3. Good(LastField, buflen)
    <3>1. CASE field = "HOST"
      <4>1. state \in {"server", "server_with_at"} /\ i = buflen
        BY <2>0, <3>1 DEF OpenFieldOf, InField, Behind
      <4>2. Good(u, field_start)
        BY <2>0, <4>1 DEF Edge, InField
      <4>3. HostValid(field_start, i, port_start, found_colon)
        BY <2>1, <3>1 DEF LastFieldValid
      <4>4. Good(WithHost(u, field_start, i, port_start, found_colon), i)
        BY <2>0, <4>1, <4>2, <4>3, GoodHost
      <4> QED BY <3>1, <4>1, <4>4 DEF LastField
    <3>2. CASE field \in {"PATH", "QUERY", "FRAGMENT"}
      <4>1. state \in {"path", "query", "fragment"} /\ i = buflen
        BY <2>0, <3>2 DEF OpenFieldOf, InField, Behind
      <4>2. Good(u, field_start) /\ field \in Fields
        BY <2>0, <3>2, <4>1 DEF Edge, InField, Fields
      <4>3. Good(Written(u, field, field_start, i - field_start), i)
        BY <2>0, <4>1, <4>2, CloseField
      <4>4. LastField = Written(u, field, field_start, i - field_start)
        BY <3>2 DEF LastField
      <4> QED BY <4>1, <4>3, <4>4
    <3>3. CASE field \notin {"HOST", "PATH", "QUERY", "FRAGMENT"}
      <4>1. Edge \in Nat /\ Edge <= buflen
        BY <2>0 DEF Edge, OpenFieldOf, InField, Behind
      <4>2. Good(u, buflen)
        BY <2>0, <4>1, GoodLater
      <4>3. LastField = u
        BY <3>3 DEF LastField
      <4> QED BY <4>2, <4>3
    <3> QED BY <3>1, <3>2, <3>3
  <2> QED BY <2>1, <2>2, <2>3 DEF Data
<1> QED BY <1>1, <1>2

LEMMA DataStep == ASSUME Control, Data, buflen < Width, [Next]_vars PROVE Data'
<1>1. CASE Start
  BY <1>1, StartData
<1>2. CASE Step
  BY <1>2, TailTurnData, SlashTurnData, ServerTurnData DEF Step
<1>3. CASE Finish
  BY <1>3, FinishData
<1>4. CASE UNCHANGED vars
  BY <1>4 DEF vars, input, Data, Edge, buflen
<1> QED BY <1>1, <1>2, <1>3, <1>4 DEF Next

LEMMA BufferKept == [Next]_vars => buflen' = buflen
<1> SUFFICES ASSUME [Next]_vars PROVE buf' = buf
  BY DEF buflen
<1>1. CASE Refuse \/ UNCHANGED vars
  BY <1>1 DEF Refuse, vars, input
<1>2. CASE Start
  BY <1>1, <1>2 DEF Start, StartEmpty, StartConnect, StartRelative, StartPath, StartQuickSchema,
                    StartSchema, StartOther, OpenField, input
<1>3. CASE Step
  BY <1>1, <1>3 DEF Step, PathTurn, QueryOrFragmentTurn, QueryTurn, FragmentTurn, SchemaTurn,
                    SlashTurn, ServerChars, ServerColon, ServerBracket, ServerAt, ServerSlash,
                    ServerQuestion, ServerHash, ServerEnd, InServer, Continue, OpenField, input
<1>4. CASE Finish
  BY <1>1, <1>4 DEF Finish, input
<1> QED BY <1>1, <1>2, <1>3, <1>4 DEF Next

\* The fields of a URL that http_parser_parse_url accepts are parts of the buffer that
\* do not overlap, for every URL whose length fits the fields (llurl.c 711-1208).
THEOREM FieldsAreApart == Spec => []FieldsApart
<1>1. Inv /\ [Next]_vars => Inv'
  BY ControlStep, DataStep, BufferKept DEF Inv
<1>2. Inv => FieldsApart
  <2> SUFFICES ASSUME Inv, rc = "ok", buflen < Width
               PROVE  /\ \A f \in u.set : End(u, f) <= buflen
                      /\ \A f, g \in u.set : f # g =>
                           End(u, f) <= u.off[g] \/ End(u, g) <= u.off[f]
    BY DEF FieldsApart
  <2>1. Good(u, buflen)
    BY DEF Inv, Data
  <2>2. u.set \subseteq Fields
    BY <2>1 DEF Good, IsU
  <2> QED BY <2>1, <2>2 DEF Good, Below, Apart
<1> QED BY InitInv, <1>1, <1>2, PTL DEF Spec
=============================================================================
