------------------------------ MODULE MCFraming ------------------------------
(***************************************************************************)
(* LhttpParser on every message whose header section is made of at most    *)
(* MaxHeaders of the lines below, with the body and the connection that    *)
(* RFC 7230 gives it, written over the lines and not over the parser's     *)
(* flags.  Behind the message stands the first token of another one.       *)
(***************************************************************************)
EXTENDS LhttpParser

CONSTANT MaxHeaders

H == INSTANCE HttpMessages

StartLines == {<<"get", "http11">>, <<"get", "http10">>, <<"connect", "http11">>,
               <<"s100", "http11">>, <<"s101", "http11">>, <<"s200", "http11">>,
               <<"s200", "http10">>, <<"s204", "http11">>}

\* A header line: the field's name and its value.
Lines == {<<"Content-Length", <<"d0">>>>, <<"Content-Length", <<"d2">>>>,
          <<"Transfer-Encoding", <<"chunked">>>>,
          <<"Transfer-Encoding", <<"text", "comma", "sp", "chunked">>>>,
          <<"Transfer-Encoding", <<"text">>>>,
          <<"Connection", <<"close">>>>, <<"Connection", <<"keep-alive">>>>,
          <<"Connection", <<"text", "comma", "upgrade">>>>, <<"Upgrade", <<"text">>>>}

HeaderSections == UNION {[1..n -> Lines] : n \in 0..MaxHeaders}

-----------------------------------------------------------------------------
(* RFC 7230, sections 3.3.3, 6.1, 6.3 and 6.7, of a start line and lines hs. *)

Values(hs, name) == {hs[i][2] : i \in {j \in DOMAIN hs : hs[j][1] = name}}
Lists(hs, option) == \E v \in Values(hs, "Connection") : \E i \in DOMAIN v : v[i] = option
Has(hs, name) == Values(hs, name) # {}

\* The lines that give the message a length, in order.
Codings(hs) == SelectSeq(hs, LAMBDA l : l[1] = "Transfer-Encoding")
Lengths(hs) == SelectSeq(hs, LAMBDA l : l[1] = "Content-Length")

IsRequest(s)     == s[1] \in {"get", "connect"}
Final(codings)   == H!Last(H!Last(codings)[2])
LastIsChunked(hs) == Has(hs, "Transfer-Encoding") /\ Final(Codings(hs)) = "chunked"

\* chunked may only be the last coding of a request's message, and no message may
\* have a length twice or both a length and a coding.
ChunkedTwice(hs) ==
  \E i \in 1..(Len(Codings(hs)) - 1) : H!Last(Codings(hs)[i][2]) = "chunked"
Ambiguous(s, hs) == \/ Len(Lengths(hs)) > 1
                    \/ Has(hs, "Content-Length") /\ Has(hs, "Transfer-Encoding")
                    \/ IsRequest(s) /\ ChunkedTwice(hs)

Switches(s, hs) == /\ Has(hs, "Upgrade") /\ Lists(hs, "upgrade")
                   /\ IsRequest(s) \/ s[1] = "s101"

BodyOf(s, hs) ==
  LET size   == IF Has(hs, "Content-Length") THEN DigitOf[Lengths(hs)[1][2][1]] ELSE 0
      noBody == size = 0 /\ ~LastIsChunked(hs)
  IN IF s[1] \in {"connect", "s101"} \/ (Switches(s, hs) /\ noBody) THEN "upgrade"
     ELSE IF s[1] \in {"s100", "s204"} THEN "none"
     ELSE IF LastIsChunked(hs)         THEN "chunked"
     ELSE IF Has(hs, "Transfer-Encoding") THEN IF IsRequest(s) THEN "invalid" ELSE "eof"
     ELSE IF Has(hs, "Content-Length") THEN IF size = 0 THEN "none" ELSE "identity"
     ELSE IF IsRequest(s) THEN "none" ELSE "eof"

\* A connection persists unless it is closed, HTTP/1.0 only when asked to, and not
\* when its end delimits the body (6.3).
Persists(s, hs) == /\ ~Lists(hs, "close")
                   /\ s[2] = "http11" \/ Lists(hs, "keep-alive")
                   /\ BodyOf(s, hs) # "eof"

\* With both options 6.3 obeys the close, llhttp the keep-alive (http.c 162-167).
Contradicts(s, hs) == s[2] = "http10" /\ Lists(hs, "close") /\ Lists(hs, "keep-alive")

-----------------------------------------------------------------------------
(* The streams. *)

StartLine(s) == IF IsRequest(s) THEN H!RequestLine(s[1], 1, s[2])
                ELSE H!StatusLine(s[2], s[1], 1)
BodyPieces(kind) == CASE kind = "chunked" -> H!Chunk("d1", 1) \o H!LastChunk(<<>>)
                      [] kind \in {"identity", "eof"} -> H!Body(2)
                      [] OTHER -> <<>>

\* A start line is <<method or status, version>>.
Message(s, hs) ==
  H!Render(StartLine(s) \o H!FlattenSeq([i \in DOMAIN hs |-> H!Header(hs[i][1], hs[i][2])])
             \o H!EndHeaders \o BodyPieces(BodyOf(s, hs)))
    \o <<IF IsRequest(s) THEN s[1] ELSE s[2]>>

Messages  == {<<m, Message(m[1], m[2])>> : m \in StartLines \X HeaderSections}
MCStreams == {m[2] : m \in Messages}

VARIABLE message      \* the <<start line, header lines>> the stream renders

FramingInit == /\ \E m \in Messages : message = m[1] /\ stream = m[2]
               /\ Init
FramingSpec == FramingInit /\ [][Next /\ UNCHANGED message]_<<vars, message>>

-----------------------------------------------------------------------------
\* At the end of the header section the parser frames the body as RFC 7230 does
\* (http.c 37-113), and has let no ambiguous header section come so far.
FramingFollowsRfc ==
  At("after_headers_complete") =>
    /\ ~Ambiguous(message[1], message[2])
    /\ BodyKind(type, method, status, flags, contentLength, upgrade)
         = BodyOf(message[1], message[2])

\* What handlers are told of the connection, when the headers are there and when the
\* message is, at the connection's end too, is what RFC 7230 says of the message
\* (http.c 128-171, lhttp_parser.c 186), but for HTTP/1.0 with both options, which
\* llhttp keeps alive and the RFC does not.
KeepAliveFollowsRfc ==
  /\ cb \in {"on_headers_complete", "on_message_complete"}
  /\ BodyOf(message[1], message[2]) # "invalid"
  /\ ~Contradicts(message[1], message[2])
  => ShouldKeepAlive(type, status, version, flags) = Persists(message[1], message[2])

\* Behind the message's body another message begins only on a connection that
\* persists (with the same exception), and is refused only on one that does not:
\* keep-alive is judged by flags that lines long gone have set, before they are
\* cleared (http.c 115-126).
NextFollowsRfc ==
  /\ cb = "on_message_begin" /\ initialDone =>
       Persists(message[1], message[2]) \/ Contradicts(message[1], message[2])
  /\ error = "CLOSED_CONNECTION" => ~Persists(message[1], message[2])

\* A parser of the message's type refuses only what RFC 7230 calls ambiguous.
RefusesOnlyAmbiguous ==
  error \in Fatal \ {"CLOSED_CONNECTION"} =>
    \/ type = IF IsRequest(message[1]) THEN "RESPONSE" ELSE "REQUEST"
    \/ Ambiguous(message[1], message[2])
    \/ BodyOf(message[1], message[2]) = "invalid"
=============================================================================
