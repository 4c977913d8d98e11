------------------------------ MODULE MCStream ------------------------------
(***************************************************************************)
(* CallbackLog on well-formed connections: every way to cut them into      *)
(* chunks, with the application pausing and resuming between chunks.       *)
(***************************************************************************)
EXTENDS CallbackLog

H == INSTANCE HttpMessages

Length(n)  == H!Header("Content-Length", <<n>>)
Coding(cs) == H!Header("Transfer-Encoding", cs)

\* A pipelined pair: a request with a body, then one without.
Pipelined ==
  H!RequestLine("get", 2, "http11") \o H!Header("Host", <<"text", "text">>) \o Length("d2")
    \o H!EndHeaders \o H!Body(2) \o H!Complete
    \o H!Again \o H!RequestLine("get", 1, "http11") \o H!EndHeaders \o H!Complete

\* A chunked request with an extension and a trailer, then the next request.
ChunkedRequest ==
  H!RequestLine("get", 1, "http11") \o Coding(<<"chunked">>) \o H!EndHeaders
    \o <<H!Syntax(<<"d1", "semicolon", "text">> \o H!CRLF), H!Event("on_chunk_header"),
         H!Value("on_body", <<"text">>), H!Syntax(H!CRLF), H!Event("on_chunk_complete")>>
    \o H!Chunk("d2", 2) \o H!LastChunk(H!Header("Host", <<"text">>)) \o H!Complete
    \o H!Again \o <<H!Event("on_message_begin")>>

\* A response whose body ends with the connection, its length unknown.
UntilClose ==
  H!StatusLine("http10", "s200", 2) \o H!Header("Connection", <<"close">>)
    \o Coding(<<"text", "comma", "sp", "text">>) \o H!EndHeaders \o H!Body(3)

\* A response without a body, then one with a body and no reason phrase.
NoContent ==
  H!StatusLine("http11", "s204", 1) \o H!EndHeaders \o H!Complete
    \o H!Again \o <<H!Event("on_message_begin"), H!Syntax(<<"http11", "sp", "s200">> \o H!CRLF)>>
    \o Length("d1") \o H!EndHeaders \o H!Body(1) \o H!Complete

\* A request that leaves HTTP: what follows it is not parsed.
Tunnel ==
  H!RequestLine("connect", 1, "http11")
    \o H!Header("Connection", <<"keep-alive", "comma", "upgrade">>)
    \o H!Header("Upgrade", <<"text">>) \o H!EndHeaders \o H!Complete

Requests    == {Pipelined, ChunkedRequest, Tunnel}
Responses   == {UntilClose, NoContent}
Connections == Requests \cup Responses

\* A token of the next message makes ChunkedRequest's parser begin it.
Bytes(c)  == IF c = ChunkedRequest THEN H!Render(c) \o <<"get">> ELSE H!Render(c)
MCStreams == {Bytes(c) : c \in Connections}

MeaningOf   == [s \in MCStreams |-> H!Meaning(CHOOSE c \in Connections : Bytes(c) = s)]
Expected    == MeaningOf[stream]
RequestFeed == stream \in {Bytes(c) : c \in Requests}

-----------------------------------------------------------------------------
\* However the stream is cut into chunks and whenever the parser is paused, the
\* handlers are given the message: the calls they have received are the first
\* calls of its meaning, in order, each value at its place and at most the last
\* one incomplete (llhttp.c: the spans restarted at each chunk and flushed at its
\* end, lines 10249-10278).
LogIsPrefixOfMeaning ==
  LET n == Len(log)
  IN /\ n <= Len(Expected)
     /\ \A i \in 1..n : /\ log[i][1] = Expected[i][1] /\ log[i][2] = Expected[i][2]
                       /\ IF i < n THEN log[i][3] = Expected[i][3]
                          ELSE log[i][3] <= Expected[i][3]

\* Nothing is held back: once execute has taken the last byte, every value of the
\* stream has been delivered in full and every event reported.  (A parser resumed
\* after a pause still has the label it was paused at to run: the next byte does.)
AllDelivered ==
  op = "none" /\ error = "OK" /\ current \in ReadLabels /\ fed = Len(stream) => log = Expected

\* A well-formed connection is never refused by a parser of its type.
WellFormedAccepted ==
  error \in Fatal => IF RequestFeed THEN type = "RESPONSE" ELSE type = "REQUEST"
=============================================================================
