------------------------------ MODULE MCHandlers ------------------------------
(***************************************************************************)
(* LhttpParser with handlers and an application that use the whole API: on *)
(* a short request with a chunked body, and a response until close.        *)
(***************************************************************************)
EXTENDS LhttpParser

H == INSTANCE HttpMessages

Request  == H!RequestLine("get", 1, "http11")
              \o H!Header("Transfer-Encoding", <<"chunked">>) \o H!EndHeaders
              \o H!Chunk("d1", 1) \o H!LastChunk(<<>>)
Response == H!StatusLine("http10", "s200", 1) \o H!EndHeaders \o H!Body(2)
Tunnel   == H!RequestLine("connect", 1, "http11") \o H!EndHeaders \o <<H!Syntax(<<"text">>)>>

MCStreams == {H!Render(Request), H!Render(Response), H!Render(Tunnel)}
=============================================================================
