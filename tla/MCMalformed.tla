----------------------------- MODULE MCMalformed -----------------------------
(***************************************************************************)
(* CallbackLog on connections that break the syntax: messages with one of  *)
(* their tokens replaced or dropped, cut into short chunks.                *)
(***************************************************************************)
EXTENDS CallbackLog

CONSTANT Wrong      \* the tokens put in place of a right one

H == INSTANCE HttpMessages

ChunkedRequest ==
  H!RequestLine("get", 1, "http11")
    \o H!Header("Transfer-Encoding", <<"chunked">>) \o H!EndHeaders
    \o H!Chunk("d1", 1) \o H!LastChunk(H!Header("Host", <<"text">>)) \o H!Complete
Response ==
  H!StatusLine("http11", "s200", 1) \o H!Header("Content-Length", <<"d1">>)
    \o H!Header("Connection", <<"close">>) \o H!EndHeaders \o H!Body(1) \o H!Complete
    \o <<H!Syntax(<<"text">>)>>
Conflicting ==
  H!RequestLine("connect", 1, "http11") \o H!Header("Transfer-Encoding", <<"chunked">>)
    \o H!Header("Content-Length", <<"d1">>) \o H!EndHeaders

Sources == {H!Render(ChunkedRequest), H!Render(Response), H!Render(Conflicting)}

Replaced(s) == {[s EXCEPT ![i] = t] : i \in DOMAIN s, t \in Wrong}
Dropped(s)  == {H!RemoveAt(s, i) : i \in DOMAIN s}

MCStreams == UNION {{s} \cup Replaced(s) \cup Dropped(s) : s \in Sources}
=============================================================================
