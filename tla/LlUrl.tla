-------------------------------- MODULE LlUrl --------------------------------
(***************************************************************************)
(* llurl.c: http_parser_parse_url on one buffer.  An action is one turn of *)
(* the parsing loop; the turns that scan ahead to a delimiter (path, query, *)
(* fragment, server) are one action each.                                  *)
(*                                                                         *)
(* Positions i, field_start, port_start and offsets count from 0 as in the *)
(* code: Char(k) is buf[k].  bracket_depth is left out: it is 0 at the head *)
(* of every turn.  When the parser refuses a URL the fields it has written *)
(* are of no use to its caller, and are left as they were.                 *)
(***************************************************************************)
EXTENDS Integers, Sequences

CONSTANTS Urls,      \* the URLs to parse: sequences of bytes
          Modes,     \* the values of is_connect
          Width      \* an offset or length is stored modulo Width (uint16_t: 65536)

ASSUME UrlAssumptions == /\ Width \in Nat \ {0}
                         /\ Modes \subseteq BOOLEAN
                         /\ Urls \subseteq Seq(0..255)

-----------------------------------------------------------------------------
(* The character tables. *)

Digit == 48..57
Alpha == (65..90) \cup (97..122)
Hex   == Digit \cup (65..70) \cup (97..102)

Hash == 35   Percent == 37   Star == 42   Plus == 43   Dash == 45   Dot == 46
Slash == 47  Colon == 58     Question == 63   At == 64
Open == 91   Close == 93

\* Marks of sub-delimiters and the unreserved that a server part may hold besides
\* letters and digits: ! $ % & ' ( ) * + , - . : ; = _   (~ is not among them).
UserinfoChar == Digit \cup Alpha \cup {33} \cup (36..46) \cup {Colon, 59, 61, 95}

\* The bytes of a class other than cc_invalid: printable, without " < > \ ^ `
UrlChar == (33..126) \ {34, 60, 62, 92, 94, 96}

\* The row of s_schema in url_state_table, the only row the code reads: STAY.
SchemaChar == Alpha \cup Digit \cup {Dot, Dash, Plus}

Fields == {"SCHEMA", "HOST", "PORT", "PATH", "QUERY", "FRAGMENT", "USERINFO"}

VARIABLES
  buf, is_connect,   \* the arguments
  pc,                \* "called", "loop", "body" (goto start_parsing), "done"
  state, i,
  field, field_start,
  port_start, found_colon,
  u,                 \* struct http_parser_url
  rc                 \* what the function returned: "none", "ok", "error"

input == <<buf, is_connect>>
host  == <<port_start, found_colon>>
vars  == <<input, pc, state, i, field, field_start, host, u, rc>>

buflen  == Len(buf)
Char(k) == buf[k + 1]

\* The first position from k on, and before n, that holds a byte of S; n if none does.
Find(S, k, n) ==
  LET hits == {j \in k..(n - 1) : Char(j) \in S}
  IN IF hits = {} THEN n ELSE CHOOSE j \in hits : \A h \in hits : j <= h
All(S, k, n) == \A j \in k..(n - 1) : Char(j) \in S

Marked(v, f)        == [v EXCEPT !.set = @ \cup {f}]
Written(v, f, k, n) == [v EXCEPT !.off[f] = k % Width, !.len[f] = n % Width]

url_init == [set |-> {}, off |-> [f \in Fields |-> 0], len |-> [f \in Fields |-> 0], port |-> 0]

TypeOK ==
  /\ buf \in Urls /\ is_connect \in Modes
  /\ pc \in {"called", "loop", "body", "done"}
  /\ state \in {"none", "schema", "schema_slash", "schema_slash_slash", "server_start",
                "server", "server_with_at", "path", "query_or_fragment", "query", "fragment"}
  /\ i \in Nat /\ field \in Fields \cup {"MAX"} /\ field_start \in Nat
  /\ port_start \in Nat /\ found_colon \in BOOLEAN
  /\ u.set \in SUBSET Fields /\ u.port \in Nat
  /\ u.off \in [Fields -> 0..(Width - 1)] /\ u.len \in [Fields -> 0..(Width - 1)]
  /\ rc \in {"none", "ok", "error"}

-----------------------------------------------------------------------------
(* Ports and hosts. *)

Number(k, n) ==                   \* the decimal number at k, of n digits
  LET val[d \in 0..n] == IF d = 0 THEN 0 ELSE 10 * val[d - 1] + (Char(k + d - 1) - 48)
  IN val[n]

PortValid(k, n) == /\ n \in 1..5
                   /\ All(Digit, k, k + n)
                   /\ Number(k, n) <= 65535

WithPort(v, k, n) == Marked(Written([v EXCEPT !.port = Number(k, n)], "PORT", k, n), "PORT")

\* A mistake: the host is taken to the end whether or not it has a port.
HostEndPastPort(k, e, p, colon) == e

\* The host in k..e-1, with the port after its first colon if there is one that is
\* not its last byte.  The brackets of an IPv6 address are left out of the host.
HasPort(k, e, p, colon) == colon /\ p > k /\ p < e
HostEnd(k, e, p, colon) == IF HasPort(k, e, p, colon) THEN p - 1 ELSE e
Bracketed(k, n)         == n - k >= 2 /\ Char(k) = Open
Bracket(k, n)           == Find({Close}, k + 1, n)
PortInside(k, n)        == Bracket(k, n) + 1 < n /\ Char(Bracket(k, n) + 1) = Colon

HostValid(k, e, p, colon) ==
  LET n == HostEnd(k, e, p, colon) IN
  /\ Bracketed(k, n) =>
       /\ Bracket(k, n) < n
       /\ PortInside(k, n) => PortValid(Bracket(k, n) + 2, n - Bracket(k, n) - 2)
  /\ HasPort(k, e, p, colon) => PortValid(p, e - p)

WithHost(v, k, e, p, colon) ==
  LET n   == HostEnd(k, e, p, colon)
      b   == Bracket(k, n)
      off == IF Bracketed(k, n) THEN k + 1 ELSE k
      len == IF Bracketed(k, n) THEN b - k - 1 ELSE n - k
      v1  == IF Bracketed(k, n) /\ PortInside(k, n) THEN WithPort(v, b + 2, n - b - 2) ELSE v
      v2  == Marked(Written(v1, "HOST", off, len), "HOST")
  IN IF HasPort(k, e, p, colon) THEN WithPort(v2, p, e - p) ELSE v2

\* A mistake: an escape may end one byte behind the host.
PercentValidLoose(k, n) ==
  \/ \E j \in k..(k + n - 1) : Char(j) = Colon
  \/ \A j \in k..(k + n - 1) : Char(j) = Percent /\ j + 2 <= k + n => Char(j + 1) \in Hex

\* Every % is followed by two hexadecimal digits, or a colon tells a zone.
PercentValid(k, n) ==
  \/ \E j \in k..(k + n - 1) : Char(j) = Colon
  \/ \A j \in k..(k + n - 1) : Char(j) = Percent => /\ j + 2 < k + n
                                                    /\ Char(j + 1) \in Hex
                                                    /\ Char(j + 2) \in Hex

-----------------------------------------------------------------------------
(* Where a turn goes. *)

Refuse == /\ pc' = "done" /\ rc' = "error"
          /\ UNCHANGED <<input, state, i, field, field_start, host, u>>

\* On to position k in state s, inside the field at hand.
Continue(s, k) == /\ pc' = "loop" /\ state' = s /\ i' = k
                  /\ UNCHANGED <<input, field, field_start, rc>>

\* The same, opening field f at position start.
OpenField(f, start, s, k) == /\ pc' = "loop" /\ state' = s /\ i' = k
                             /\ field' = f /\ field_start' = start
                             /\ UNCHANGED <<input, rc>>

-----------------------------------------------------------------------------
(* The first byte. *)

StartEmpty == buflen = 0 /\ Refuse

StartConnect == /\ buflen > 0 /\ is_connect
                /\ u' = Marked(u, "HOST")
                /\ OpenField("HOST", 0, "server_start", 0)
                /\ UNCHANGED host

ProtocolRelative == buflen >= 2 /\ Char(0) = Slash /\ Char(1) = Slash

StartRelative ==
  /\ ~is_connect /\ ProtocolRelative
  /\ IF buflen = 2 THEN Refuse
     ELSE /\ u' = Marked(u, "HOST")
          /\ OpenField("HOST", 2, "server_start", 2)
          /\ UNCHANGED host

StartPath ==
  /\ buflen > 0 /\ ~is_connect /\ ~ProtocolRelative /\ Char(0) \in {Slash, Star}
  /\ u' = Marked(u, "PATH")
  /\ OpenField("PATH", 0, "path", 0)
  /\ UNCHANGED host

\* Schemas that are compared as a whole, with the least buflen for that: the loop
\* is entered behind the colon, even where the URL ends there.
Quick == {<< <<104, 116, 116, 112>>, 7>>, << <<104, 116, 116, 112, 115>>, 8>>,
          << <<102, 116, 112>>, 4>>, << <<119, 115, 115>>, 4>>, << <<119, 115>>, 3>>}
IsQuick(n) == \E s \in Quick : /\ Len(s[1]) = n /\ buflen >= s[2]
                               /\ SubSeq(buf, 1, n + 1) = Append(s[1], Colon)

StartQuickSchema ==
  /\ buflen > 0 /\ ~is_connect
  /\ \E n \in 2..5 : /\ IsQuick(n)
                     /\ u' = Marked(Written(u, "SCHEMA", 0, n), "SCHEMA")
                     /\ i' = n + 1
  /\ pc' = "body" /\ state' = "schema_slash"
  /\ UNCHANGED <<input, field, field_start, host, rc>>

StartSchema ==
  /\ buflen > 0 /\ ~is_connect /\ Char(0) \in Alpha /\ \A n \in 2..5 : ~IsQuick(n)
  /\ u' = Marked(u, "SCHEMA")
  /\ OpenField("SCHEMA", 0, "schema", 0)
  /\ UNCHANGED host

StartOther == buflen > 0 /\ ~is_connect /\ Char(0) \notin {Slash, Star} \cup Alpha /\ Refuse

Start == /\ pc = "called"
         /\ \/ StartEmpty \/ StartConnect \/ StartRelative \/ StartPath
            \/ StartQuickSchema \/ StartSchema \/ StartOther

-----------------------------------------------------------------------------
(* Turns of the loop. *)

\* Is there a turn: the loop's test, which goto start_parsing passes by.
Turn == pc = "body" \/ (pc = "loop" /\ i < buflen)

\* A mistake: the delimiter behind a path is left to the next turn, which is a path's again.
PathTurnInPlace ==
  LET end == Find({Question, Hash}, i, buflen) IN
  state = "path" /\ Continue("path", end) /\ UNCHANGED <<host, u>>

PathTurn ==
  LET end == Find({Question, Hash}, i, buflen) IN
  /\ state = "path"
  /\ IF ~All(UrlChar, i, end) THEN Refuse
     ELSE IF end = buflen THEN Continue("path", buflen) /\ UNCHANGED <<host, u>>
     ELSE /\ u' = Written(u, field, field_start, end - field_start)
          /\ Continue("query_or_fragment", end)
          /\ UNCHANGED host

QueryOrFragmentTurn ==
  /\ state = "query_or_fragment"
  /\ IF Char(i) = Question
     THEN u' = Marked(u, "QUERY") /\ OpenField("QUERY", i + 1, "query", i + 1)
     ELSE u' = Marked(u, "FRAGMENT") /\ OpenField("FRAGMENT", i + 1, "fragment", i + 1)
  /\ UNCHANGED host

QueryTurn ==
  LET end == Find({Hash}, i, buflen) IN
  /\ state = "query"
  /\ IF ~All(UrlChar, i, end) THEN Refuse
     ELSE IF end = buflen THEN Continue("query", buflen) /\ UNCHANGED <<host, u>>
     ELSE /\ u' = Marked(Written(u, field, field_start, end - field_start), "FRAGMENT")
          /\ OpenField("FRAGMENT", end + 1, "fragment", end + 1)
          /\ UNCHANGED host

FragmentTurn ==
  /\ state = "fragment"
  /\ IF All(UrlChar, i, buflen) THEN Continue("fragment", buflen) /\ UNCHANGED <<host, u>>
     ELSE Refuse

SchemaTurn ==
  /\ state = "schema"
  /\ \/ Char(i) \in SchemaChar /\ Continue("schema", i + 1) /\ UNCHANGED <<host, u>>
     \/ /\ Char(i) = Colon
        /\ u' = Written(u, field, field_start, i - field_start)
        /\ Continue("schema_slash", i + 1) /\ UNCHANGED host
     \/ Char(i) \notin SchemaChar \cup {Colon} /\ Refuse

\* Behind a quick schema that ends the URL the byte read is one past the buffer.
SlashTurn ==
  /\ state \in {"schema_slash", "schema_slash_slash"}
  /\ \E ch \in IF i < buflen THEN {Char(i)} ELSE {Slash, 0} :
       IF ch = Slash
       THEN /\ Continue(IF state = "schema_slash" THEN "schema_slash_slash"
                        ELSE "server_start", i + 1)
            /\ UNCHANGED <<host, u>>
       ELSE Refuse

\* The first turn of a server, server_start, falls through to the others.
ServerTurn == state \in {"server_start", "server", "server_with_at"}
First      == state = "server_start"
HostAt     == IF First THEN i ELSE field_start
ColonFound == ~First /\ found_colon
PortAt     == IF First THEN 0 ELSE port_start
Server     == IF First THEN "server" ELSE state

\* What the first turn sets, when the turn goes on to position k in state s.
InServer(s, k) ==
  /\ u' = IF First THEN Marked(u, "HOST") ELSE u
  /\ OpenField("HOST", HostAt, s, k)

ServerDelimiter == {At, Open, Colon, Slash, Question, Hash}

ServerChars ==
  LET end == Find(ServerDelimiter, i, buflen) IN
  /\ ServerTurn /\ Char(i) \notin ServerDelimiter
  /\ IF All(UserinfoChar, i, end)
     THEN InServer(Server, end) /\ found_colon' = ColonFound /\ port_start' = PortAt
     ELSE Refuse

ServerColon ==
  /\ ServerTurn /\ Char(i) = Colon
  /\ InServer(Server, i + 1)
  /\ found_colon' = TRUE
  /\ port_start' = IF ColonFound THEN PortAt ELSE i + 1

\* An IPv6 address; after a % anything may stand.
ServerBracket ==
  LET end  == Find({Close}, i + 1, buflen)
      zone == Find({Percent}, i + 1, end) IN
  /\ ServerTurn /\ Char(i) = Open
  /\ IF end < buflen /\ All(Hex \cup {Colon, Dot}, i + 1, zone)
     THEN InServer(Server, end + 1) /\ found_colon' = ColonFound /\ port_start' = PortAt
     ELSE Refuse

\* A mistake: the colon of user:password is kept for that of the port.
ServerAtKeepsColon ==
  /\ ServerTurn /\ Char(i) = At
  /\ IF Server = "server_with_at" THEN Refuse
     ELSE /\ u' = Marked(Marked(Written(u, "USERINFO", HostAt, i - HostAt), "USERINFO"), "HOST")
          /\ OpenField("HOST", i + 1, "server_with_at", i + 1)
          /\ found_colon' = ColonFound /\ port_start' = PortAt

ServerAt ==
  /\ ServerTurn /\ Char(i) = At
  /\ IF Server = "server_with_at" THEN Refuse
     ELSE /\ u' = Marked(Marked(Written(u, "USERINFO", HostAt, i - HostAt), "USERINFO"), "HOST")
          /\ OpenField("HOST", i + 1, "server_with_at", i + 1)
          /\ found_colon' = FALSE /\ port_start' = 0

\* The server ends at a slash or a question mark.
ServerEnd(f, start, s) ==
  IF ~First /\ HostValid(field_start, i, port_start, found_colon)
  THEN /\ u' = Marked(WithHost(u, field_start, i, port_start, found_colon), f)
       /\ OpenField(f, start, s, i + 1)
       /\ UNCHANGED host
  ELSE Refuse

ServerSlash    == ServerTurn /\ Char(i) = Slash    /\ ServerEnd("PATH", i, "path")
ServerQuestion == ServerTurn /\ Char(i) = Question /\ ServerEnd("QUERY", i + 1, "query")
ServerHash     == ServerTurn /\ Char(i) = Hash     /\ Refuse

Step == /\ Turn
        /\ \/ PathTurn \/ QueryOrFragmentTurn \/ QueryTurn \/ FragmentTurn
           \/ SchemaTurn \/ SlashTurn
           \/ ServerChars \/ ServerColon \/ ServerBracket \/ ServerAt
           \/ ServerSlash \/ ServerQuestion \/ ServerHash

-----------------------------------------------------------------------------
(* After the loop: the last field, and the checks on the whole. *)

LastFieldValid == field = "HOST" => HostValid(field_start, i, port_start, found_colon)

LastField ==
  CASE field = "HOST" -> WithHost(u, field_start, i, port_start, found_colon)
    [] field \in {"PATH", "QUERY", "FRAGMENT"} -> Written(u, field, field_start, i - field_start)
    [] OTHER -> u

\* An authority for CONNECT, and a host for a schema.
FormValid(v) == IF is_connect
                THEN state \in {"server", "server_with_at"} /\ "PORT" \in v.set
                ELSE "SCHEMA" \in v.set => "HOST" \in v.set

Finish ==
  /\ pc = "loop" /\ i >= buflen
  /\ IF /\ LastFieldValid /\ FormValid(LastField)
        /\ "HOST" \in LastField.set =>
             PercentValid(LastField.off["HOST"], LastField.len["HOST"])
     THEN /\ u' = LastField /\ pc' = "done" /\ rc' = "ok"
          /\ UNCHANGED <<input, state, i, field, field_start, host>>
     ELSE Refuse

-----------------------------------------------------------------------------
Init == /\ buf \in Urls /\ is_connect \in Modes
        /\ pc = "called" /\ state = "none" /\ i = 0
        /\ field = "MAX" /\ field_start = 0
        /\ port_start = 0 /\ found_colon = FALSE
        /\ u = url_init /\ rc = "none"

Next == Start \/ Step \/ Finish

Spec     == Init /\ [][Next]_vars
FairSpec == Spec /\ WF_vars(Next)

-----------------------------------------------------------------------------
End(v, f) == v.off[f] + v.len[f]

\* The fields of an accepted URL are parts of it that do not overlap: a caller cuts
\* the buffer by their offsets and lengths (llurl.h 45-59), which several turns wrote.
FieldsApart ==
  rc = "ok" /\ buflen < Width =>
    /\ \A f \in u.set : End(u, f) <= buflen
    /\ \A f, g \in u.set : f # g => End(u, f) <= u.off[g] \/ End(u, g) <= u.off[f]
=============================================================================
