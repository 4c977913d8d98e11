---------------------------- MODULE HttpMessages ----------------------------
(***************************************************************************)
(* Well-formed HTTP messages and what they mean, written from the structure *)
(* of a message and not from the parser: a message is a sequence of pieces, *)
(* the tokens of each piece and the callback that should receive them.     *)
(* A piece without tokens is an event (the end of the headers, ...).       *)
(***************************************************************************)
EXTENDS Integers, Sequences, SequencesExt

Syntax(tokens)   == [cb |-> "none", tokens |-> tokens]
Value(c, tokens) == [cb |-> c, tokens |-> tokens]
Event(c)         == [cb |-> c, tokens |-> <<>>]

CRLF     == <<"cr", "lf">>
Times(n) == [i \in 1..n |-> "text"]

RequestLine(m, url, v) ==
  <<Event("on_message_begin"), Syntax(<<m, "sp">>), Value("on_url", Times(url)),
    Syntax(<<"sp", v>> \o CRLF)>>
StatusLine(v, s, reason) ==
  <<Event("on_message_begin"), Syntax(<<v, "sp", s, "sp">>), Value("on_status", Times(reason)),
    Syntax(CRLF)>>
Header(name, value) ==
  <<Value("on_header_field", <<name>>), Syntax(<<"colon", "sp">>),
    Value("on_header_value", value), Syntax(CRLF)>>
EndHeaders == <<Syntax(CRLF), Event("on_headers_complete")>>
Body(n)    == <<Value("on_body", Times(n))>>
Chunk(d, n) == <<Syntax(<<d>> \o CRLF), Event("on_chunk_header"), Value("on_body", Times(n)),
                 Syntax(CRLF), Event("on_chunk_complete")>>
\* The last chunk and the trailer section.
LastChunk(trailers) ==
  <<Syntax(<<"d0">> \o CRLF), Event("on_chunk_header")>> \o trailers
    \o <<Syntax(CRLF), Event("on_chunk_complete")>>
Complete == <<Event("on_message_complete")>>
Again    == <<Event("on_reset")>>

-----------------------------------------------------------------------------
\* The bytes of a message.
Render(pieces) == FlattenSeq([i \in DOMAIN pieces |-> pieces[i].tokens])

\* Where piece i starts.
Offset(pieces, i) == Len(Render(SubSeq(pieces, 1, i - 1)))

\* The callbacks the message stands for: <<callback, first byte, byte after>>.
Meaning(pieces) ==
  LET event(i) == <<pieces[i].cb, Offset(pieces, i), Offset(pieces, i + 1)>>
      all == [i \in DOMAIN pieces |-> event(i)]
  IN SelectSeq(all, LAMBDA e : e[1] # "none")
=============================================================================
